--------------------------- MODULE OmpConfigProofs --------------------------
(***************************************************************************)
(* The files of omp under the three tools that write them: no edit is lost,*)
(* every preset can be undone, every smol line names its block, the routes *)
(* are everywhere or nowhere, and applied.json tells what holds.  Proved of*)
(* the specification of OmpConfig, for any profiles, models, presets and   *)
(* edits, and any deaths and failures.                                     *)
(***************************************************************************)
EXTENDS OmpConfig, SequenceTheorems, FiniteSetTheorems, TLAPS

IsSeq(s) == s \in Seq({s[i] : i \in DOMAIN s})

(***************************************************************************)
(* What the commands keep of the files.                                    *)
(***************************************************************************)
SmolIn(m) == IF m = Nil THEN Nil ELSE m.smol
RoutedIn(m) == m # Nil /\ m.ollama
HandIn(m) == IF m = Nil THEN {} ELSE m.hand

\* The parts of models.yml that presets do not own are the same.
Like(a, b) == SmolIn(a) = SmolIn(b) /\ RoutedIn(a) = RoutedIn(b)

Backup == [config : ConfigFile, models : {Nil} \cup ModelsFile]
SmolRecord == [previous : SmolValue, created : BOOLEAN]
Kind == {"provider", "modelRoles", "level"}
ApplyFields == {"tool", "pc", "name", "ps", "steps", "todo", "on", "id", "state", "left"}
RollbackFields == {"tool", "pc", "id", "ps", "left"}
RouteFields == {"tool", "op", "pc", "existed", "before", "snap", "done"}
SetFields == {"tool", "pc", "new", "prior", "done", "left", "at"}
RevertFields == {"tool", "pc", "left", "at"}

ManifestFits(m) ==
  /\ DOMAIN m = {"name", "status", "files", "sha", "previous"}
  /\ m.status \in ROLLBACKABLE \cup {"rolled-back"}
  /\ DOMAIN m.files \subseteq Profile
  /\ m.files \in [DOMAIN m.files -> Backup]
  /\ m.status = "applied" => \A p \in DOMAIN m.files : Like(m.sha[p].models, m.files[p].models)

Types ==
  /\ cfg \in [Profile -> ConfigFile]
  /\ mdl \in [Profile -> {Nil} \cup ModelsFile]
  /\ used \in [command : Nat, edit : Nat, death : Nat, failure : Nat]
  /\ IsSeq(manifests)
  /\ \A i \in DOMAIN manifests : ManifestFits(manifests[i])
  /\ smolState # Nil => DOMAIN smolState = {"model", "profiles"} /\ smolState.model \in SmolModel
  /\ Recorded => smolState.profiles \in [Profile -> SmolRecord]

StepFits(s, pk) ==
  /\ s.p = pk[1] /\ s.kind = pk[2]
  /\ s.kind \in {"provider", "level"} => s.after \in PresetValue
  /\ s.kind = "modelRoles" => s.after.judge \in PresetValue /\ s.after.smol \in SmolValue

\* The manifest of the running preset command.
Its == manifests[cmd.id]
OnIts == /\ cmd.id \in DOMAIN manifests /\ DOMAIN Its.files = cmd.ps
AsBackedUp == \A p \in cmd.ps : Like(mdl[p], Its.files[p].models)

ApplyFits ==
  cmd.tool = "preset" =>
    /\ DOMAIN cmd = ApplyFields /\ cmd.ps \subseteq Profile /\ cmd.left \subseteq AllFiles(cmd.ps)
    /\ cmd.pc \in {"backup", "write", "commit", "record", "restore"}
    /\ DOMAIN cmd.steps \subseteq cmd.ps \X Kind /\ cmd.todo \subseteq DOMAIN cmd.steps
    /\ \A pk \in DOMAIN cmd.steps : StepFits(cmd.steps[pk], pk)
    /\ cmd.pc # "backup" => OnIts
    /\ cmd.pc \in {"write", "commit", "restore"} => Its.status = "applying" /\ AsBackedUp

RollbackFits ==
  cmd.tool = "rollback" =>
    /\ DOMAIN cmd = RollbackFields /\ cmd.ps \subseteq Profile /\ cmd.left \subseteq AllFiles(cmd.ps)
    /\ cmd.pc \in {"restore", "status"}
    /\ OnIts /\ Its.status \in ROLLBACKABLE
    /\ "lossy" \notin mishap => AsBackedUp

RouteShape ==
  /\ DOMAIN cmd = RouteFields
  /\ cmd.op \in {"install", "remove"}
  /\ cmd.pc \in {"write", "undo", "service", "readback", "recover", "stop", "plan", "revert", "redo", "blocked", "cleanup"}
  /\ cmd.snap \in [Profile -> {Nil} \cup ModelsFile] /\ cmd.done \subseteq Profile
  /\ cmd.pc \in {"revert", "redo"} => \A p \in Profile : RoutedIn(cmd.snap[p])

RouteFits ==
  cmd.tool = "route" =>
    \/ DOMAIN cmd = {"tool", "op", "pc"} /\ cmd.op = "stop" /\ cmd.pc = "halt"
    \/ RouteShape

SmolFits ==
  cmd.tool = "smol" =>
    \/ /\ DOMAIN cmd = SetFields /\ cmd.pc \in {"start", "check", "next", "line"}
       /\ DOMAIN cmd.new = {"model", "profiles"} /\ cmd.new.model \in SmolModel /\ cmd.new.profiles = Nil
       /\ cmd.prior # Nil => cmd.prior \in [Profile -> SmolRecord]
       /\ cmd.done \in [Profile -> {Nil} \cup SmolRecord] /\ cmd.left \subseteq Profile
       /\ cmd.pc = "line" => cmd.at \in cmd.left /\ cmd.done[cmd.at] \in SmolRecord
       /\ \A p \in Profile \ cmd.left : cmd.done[p] \in SmolRecord
    \/ /\ DOMAIN cmd = RevertFields /\ cmd.pc \in {"unline", "unblock", "halt"} /\ cmd.left \subseteq Profile
       /\ Recorded
       /\ cmd.pc = "unblock" => cmd.at \in cmd.left

CmdFits ==
  /\ cmd.tool \in {"none", "preset", "rollback", "route", "smol"}
  /\ cmd.tool = "none" => cmd = Idle
  /\ ApplyFits /\ RollbackFits /\ RouteFits /\ SmolFits

Base == Types /\ CmdFits

\* A function on 1..n is a sequence.
LEMMA FcnIsSeq ==
  ASSUME NEW T, NEW n \in Nat, NEW t \in [1..n -> T]
  PROVE  t \in Seq(T)
OBVIOUS

LEMMA SeqIsSeq ==
  ASSUME NEW S, NEW s \in Seq(S)
  PROVE  IsSeq(s)
<1> DEFINE T == {s[i] : i \in DOMAIN s}
<1>1. Len(s) \in Nat /\ s \in [1..Len(s) -> S] /\ DOMAIN s = 1..Len(s)
  BY LenProperties
<1>2. \A i \in 1..Len(s) : s[i] \in T
  BY <1>1
<1>3. s = [i \in 1..Len(s) |-> s[i]]
  BY <1>1
<1>4. s \in [1..Len(s) -> T]
  <2> HIDE DEF T
  <2> QED
    BY <1>2, <1>3
<1>5. s \in Seq(T)
  <2> HIDE DEF T
  <2> QED
    BY <1>1, <1>4, FcnIsSeq
<1> QED
  BY <1>5 DEF IsSeq

LEMMA SeqAppend ==
  ASSUME NEW s, IsSeq(s), NEW e, NEW t, t = Append(s, e)
  PROVE  /\ IsSeq(t) /\ Len(s) \in Nat /\ Len(t) = Len(s) + 1 /\ t[Len(t)] = e /\ t # <<>>
         /\ DOMAIN t = DOMAIN s \cup {Len(t)} /\ DOMAIN s = 1..Len(s) /\ \A i \in DOMAIN s : t[i] = s[i]
<1> DEFINE S == {s[i] : i \in DOMAIN s}
<1>1. s \in Seq(S)
  BY DEF IsSeq
<1> HIDE DEF S
<1>2. s \in Seq(S \cup {e})
  BY <1>1, SeqMonotonic
<1>3. t \in Seq(S \cup {e})
  BY <1>2
<1>4. /\ Len(t) = Len(s) + 1 /\ t[Len(t)] = e /\ Len(s) \in Nat /\ t # <<>>
      /\ DOMAIN t = 1..Len(t) /\ DOMAIN s = 1..Len(s) /\ \A i \in DOMAIN s : t[i] = s[i]
  BY <1>1, <1>3
<1>5. 1..Len(t) = 1..Len(s) \cup {Len(t)}
  BY <1>4
<1> QED
  BY <1>3, <1>4, <1>5, SeqIsSeq


LEMMA SeqExcept ==
  ASSUME NEW s, IsSeq(s), NEW i \in DOMAIN s, NEW e, NEW t, t = [s EXCEPT ![i] = e]
  PROVE  IsSeq(t) /\ DOMAIN t = DOMAIN s /\ Len(t) = Len(s)
<1> DEFINE S == {s[k] : k \in DOMAIN s}
<1>1. s \in Seq(S)
  BY DEF IsSeq
<1>2. /\ Len(s) \in Nat /\ DOMAIN s = 1..Len(s)
  <2> HIDE DEF S
  <2> QED
    BY <1>1
<1>3. \A k \in 1..Len(s) : t[k] \in S \cup {e}
  BY <1>2
<1>4. t = [k \in 1..Len(s) |-> t[k]]
  BY <1>2
<1>5. t \in [1..Len(s) -> S \cup {e}]
  <2> HIDE DEF S
  <2> QED
    BY <1>3, <1>4
<1>6. t \in Seq(S \cup {e})
  <2> DEFINE T == S \cup {e}
  <2>1. t \in [1..Len(s) -> T]
    BY <1>5
  <2> HIDE DEF T
  <2>2. t \in Seq(T)
    BY <1>2, <2>1, FcnIsSeq
  <2> QED
    BY <2>2 DEF T
<1>7. IsSeq(t)
  BY <1>6, SeqIsSeq
<1> QED
  BY <1>2, <1>6, <1>7

(***************************************************************************)
(* Editing one file.                                                       *)
(***************************************************************************)
Opened(m) == IF m = Nil THEN EmptyModels ELSE m

LEMMA OpenedFits ==
  ASSUME NEW m \in {Nil} \cup ModelsFile
  PROVE  /\ Opened(m) \in ModelsFile /\ Opened(m).smol = SmolIn(m) /\ Opened(m).hand = HandIn(m)
         /\ Opened(m).ollama <=> RoutedIn(m)
<1>1. CASE m = Nil
  <2>1. EmptyModels \in ModelsFile
    BY DEF EmptyModels, ModelsFile, PresetValue
  <2> QED
    BY <1>1, <2>1 DEF Opened, EmptyModels, SmolIn, HandIn, RoutedIn
<1>2. CASE m # Nil
  BY <1>2 DEF Opened, SmolIn, HandIn, RoutedIn
<1> QED
  BY <1>1, <1>2

LEMMA RealModels ==
  ASSUME NEW n \in ModelsFile
  PROVE  /\ n # Nil /\ SmolIn(n) = n.smol /\ HandIn(n) = n.hand /\ (RoutedIn(n) <=> n.ollama)
         /\ SmolIn(n) \in {Nil} \cup SmolModel /\ HandIn(n) \in SUBSET Edit /\ RoutedIn(n) \in BOOLEAN
BY FilesAssumption DEF ModelsFile, SmolIn, HandIn, RoutedIn

LEMMA NoModels == SmolIn(Nil) = Nil /\ HandIn(Nil) = {} /\ ~RoutedIn(Nil)
BY DEF SmolIn, HandIn, RoutedIn

LEMMA LikeAlways == \A m : Like(m, m)
BY DEF Like

LEMMA EditSys1 ==
  ASSUME NEW m \in {Nil} \cup ModelsFile, NEW v \in PresetValue, NEW n, n = [Opened(m) EXCEPT !.sys1 = v]
  PROVE  n \in ModelsFile /\ Like(n, m) /\ HandIn(n) = HandIn(m)
<1>1. Opened(m) \in ModelsFile
  BY OpenedFits
<1>2. n \in ModelsFile /\ n.smol = Opened(m).smol /\ n.hand = Opened(m).hand /\ (n.ollama <=> Opened(m).ollama)
  BY <1>1 DEF ModelsFile
<1>3. SmolIn(n) = SmolIn(m) /\ HandIn(n) = HandIn(m)
  BY <1>2, OpenedFits, RealModels
<1>4. RoutedIn(n) <=> RoutedIn(m)
  BY <1>2, OpenedFits, RealModels
<1>5. RoutedIn(n) = RoutedIn(m)
  BY <1>4 DEF RoutedIn
<1> QED
  BY <1>2, <1>3, <1>5 DEF Like

LEMMA EditHand ==
  ASSUME NEW m \in {Nil} \cup ModelsFile, NEW h \in SUBSET Edit, NEW n, n = [Opened(m) EXCEPT !.hand = h]
  PROVE  n \in ModelsFile /\ Like(n, m) /\ HandIn(n) = h
<1>1. Opened(m) \in ModelsFile
  BY OpenedFits
<1>2. n \in ModelsFile /\ n.smol = Opened(m).smol /\ n.hand = h /\ (n.ollama <=> Opened(m).ollama)
  BY <1>1 DEF ModelsFile
<1>3. SmolIn(n) = SmolIn(m) /\ HandIn(n) = h
  BY <1>2, OpenedFits, RealModels
<1>4. RoutedIn(n) <=> RoutedIn(m)
  BY <1>2, OpenedFits, RealModels
<1>5. RoutedIn(n) = RoutedIn(m)
  BY <1>4 DEF RoutedIn
<1> QED
  BY <1>2, <1>3, <1>5 DEF Like

LEMMA EditSmol ==
  ASSUME NEW m \in {Nil} \cup ModelsFile, NEW v \in {Nil} \cup SmolModel, NEW n, n = [Opened(m) EXCEPT !.smol = v]
  PROVE  n \in ModelsFile /\ SmolIn(n) = v /\ HandIn(n) = HandIn(m) /\ (RoutedIn(n) <=> RoutedIn(m))
<1>1. Opened(m) \in ModelsFile
  BY OpenedFits
<1>2. n \in ModelsFile /\ n.smol = v /\ n.hand = Opened(m).hand /\ (n.ollama <=> Opened(m).ollama)
  BY <1>1 DEF ModelsFile
<1>3. SmolIn(n) = v /\ HandIn(n) = HandIn(m)
  BY <1>2, OpenedFits, RealModels
<1>4. RoutedIn(n) <=> RoutedIn(m)
  BY <1>2, OpenedFits, RealModels
<1> QED
  BY <1>2, <1>3, <1>4

LEMMA EditRoute ==
  ASSUME NEW m \in {Nil} \cup ModelsFile, NEW b \in BOOLEAN, NEW n, n = [Opened(m) EXCEPT !.ollama = b]
  PROVE  n \in ModelsFile /\ SmolIn(n) = SmolIn(m) /\ HandIn(n) = HandIn(m) /\ (RoutedIn(n) <=> b)
<1>1. Opened(m) \in ModelsFile
  BY OpenedFits
<1>2. n \in ModelsFile /\ n.smol = Opened(m).smol /\ n.hand = Opened(m).hand
  <2>1. n.smol = Opened(m).smol /\ n.hand = Opened(m).hand /\ n.sys1 = Opened(m).sys1
    BY <1>1 DEF ModelsFile
  <2>2. n.ollama = b /\ DOMAIN n = {"sys1", "ollama", "smol", "hand"}
    BY <1>1, Zenon DEF ModelsFile
  <2>3. n = [sys1 |-> n.sys1, ollama |-> n.ollama, smol |-> n.smol, hand |-> n.hand]
    BY <1>1 DEF ModelsFile
  <2>4. n.ollama \in BOOLEAN
    BY <2>2, Zenon
  <2> QED
    BY <1>1, <2>1, <2>3, <2>4 DEF ModelsFile
<1>3. SmolIn(n) = SmolIn(m) /\ HandIn(n) = HandIn(m)
  BY <1>2, OpenedFits, RealModels
<1>4. n.ollama <=> b
  BY <1>1 DEF ModelsFile
<1>5. RoutedIn(n) <=> b
  BY <1>2, <1>4, RealModels
<1> QED
  BY <1>2, <1>3, <1>5

(***************************************************************************)
(* The shapes of the files, the manifests and the commands.                *)
(***************************************************************************)
UsedSet == [command : Nat, edit : Nat, death : Nat, failure : Nat]

LEMMA CountFits ==
  ASSUME used \in UsedSet, NEW k \in {"command", "edit", "death", "failure"}, Count(k)
  PROVE  /\ used' \in UsedSet /\ (k # "edit" => used'.edit = used.edit) /\ (k = "edit" => used'.edit = used.edit + 1)
BY DEF Count, UsedSet

LEMMA TypesKeep ==
  ASSUME Types, cfg' \in [Profile -> ConfigFile], mdl' \in [Profile -> {Nil} \cup ModelsFile],
         used' \in UsedSet, UNCHANGED <<manifests, smolState>>
  PROVE  Types'
BY DEF Types, UsedSet, Recorded

LEMMA Idles == Types' /\ cmd' = Idle => Base'
BY DEF Base, CmdFits, ApplyFits, RollbackFits, RouteFits, SmolFits, Idle

LEMMA OfPreset == Types' /\ cmd'.tool = "preset" /\ ApplyFits' => Base'
BY DEF Base, CmdFits, RollbackFits, RouteFits, SmolFits

LEMMA OfRollback == Types' /\ cmd'.tool = "rollback" /\ RollbackFits' => Base'
BY DEF Base, CmdFits, ApplyFits, RouteFits, SmolFits

LEMMA OfRoute == Types' /\ cmd'.tool = "route" /\ RouteFits' => Base'
BY DEF Base, CmdFits, ApplyFits, RollbackFits, SmolFits

LEMMA OfSmol == Types' /\ cmd'.tool = "smol" /\ SmolFits' => Base'
BY DEF Base, CmdFits, ApplyFits, RollbackFits, RouteFits

\* One manifest is rewritten.
LEMMA Rewritten ==
  ASSUME Types, NEW i \in DOMAIN manifests, NEW m, ManifestFits(m), manifests' = [manifests EXCEPT ![i] = m]
  PROVE  /\ IsSeq(manifests') /\ DOMAIN manifests' = DOMAIN manifests /\ manifests'[i] = m
         /\ \A j \in DOMAIN manifests' : ManifestFits(manifests'[j])
         /\ \A j \in DOMAIN manifests : j # i => manifests'[j] = manifests[j]
<1>1. IsSeq(manifests) /\ \A j \in DOMAIN manifests : ManifestFits(manifests[j])
  BY DEF Types
<1>2. IsSeq(manifests')
  BY <1>1, SeqExcept
<1>3. DOMAIN manifests' = DOMAIN manifests /\ manifests'[i] = m
  BY <1>1
<1>4. \A j \in DOMAIN manifests : j # i => manifests'[j] = manifests[j]
  BY <1>1
<1>5. \A j \in DOMAIN manifests' : ManifestFits(manifests'[j])
  BY <1>1, <1>3, <1>4
<1> QED
  BY <1>2, <1>3, <1>4, <1>5

\* A file of a manifest has its shape.
LEMMA BackupShape ==
  ASSUME Types, NEW i \in DOMAIN manifests, NEW p \in DOMAIN manifests[i].files
  PROVE  manifests[i].files[p].config \in ConfigFile /\ manifests[i].files[p].models \in {Nil} \cup ModelsFile
BY DEF Types, ManifestFits, Backup

LEMMA PlanFits ==
  ASSUME Types, NEW n \in DOMAIN Preset, NEW ps \in SUBSET Profile, NEW pk \in ps \X KindsOf(n)
  PROVE  StepFits(Plan(n, ps)[pk], pk)
<1> DEFINE s == StepFor(n, pk[1], pk[2])
<1>1. Plan(n, ps)[pk] = s /\ s.p = pk[1] /\ s.kind = pk[2] /\ pk[1] \in Profile /\ pk[2] \in Kind
  BY DEF Plan, StepFor, KindsOf, Kind
<1>2. cfg[pk[1]].smol \in SmolValue
  BY <1>1 DEF Types, ConfigFile
<1>3. Preset[n].judge \in PresetValue /\ Preset[n].sys1 \in PresetValue /\ Preset[n].level \in PresetValue
  BY DEF PresetValue
<1>4. CASE pk[2] = "provider"
  BY <1>1, <1>3, <1>4 DEF StepFor, StepFits
<1>5. CASE pk[2] = "modelRoles"
  BY <1>1, <1>2, <1>3, <1>5 DEF StepFor, StepFits, Roles
<1>6. CASE pk[2] = "level"
  BY <1>1, <1>3, <1>6 DEF StepFor, StepFits
<1> QED
  BY <1>1, <1>4, <1>5, <1>6 DEF Kind

LEMMA PlanStep ==
  ASSUME Base, ApplyPlan, UNCHANGED smolVars
  PROVE  Base'
<1>1. PICK n \in DOMAIN Preset, ps \in SUBSET Profile :
        /\ cmd' = [tool |-> "preset", pc |-> "backup", name |-> n, ps |-> ps, steps |-> Plan(n, ps),
                   todo |-> Changed(Plan(n, ps)), on |-> Nil, id |-> Nil, state |-> Nil, left |-> {}]
        /\ Count("command") /\ UNCHANGED <<cfg, mdl, mishap, quiet, manifests, applied>>
  BY DEF ApplyPlan, Begin
<1>2. Types'
  <2>1. used' \in UsedSet
    BY <1>1, CountFits DEF Base, Types, UsedSet
  <2> QED
    BY <1>1, <2>1, TypesKeep DEF Base, Types, smolVars
<1>3. DOMAIN Plan(n, ps) \subseteq ps \X Kind
  BY DEF Plan, KindsOf, Kind
<1>4. \A pk \in DOMAIN Plan(n, ps) : StepFits(Plan(n, ps)[pk], pk)
  <2>1. DOMAIN Plan(n, ps) = ps \X KindsOf(n)
    BY DEF Plan
  <2> QED
    BY <2>1, PlanFits DEF Base
<1>5. Changed(Plan(n, ps)) \subseteq DOMAIN Plan(n, ps)
  BY DEF Changed
<1>6. /\ cmd'.tool = "preset" /\ cmd'.pc = "backup" /\ cmd'.ps = ps /\ cmd'.steps = Plan(n, ps)
      /\ cmd'.todo = Changed(Plan(n, ps)) /\ cmd'.left = {} /\ DOMAIN cmd' = ApplyFields
  <2> HIDE DEF Plan, Changed
  <2> QED
    BY <1>1 DEF ApplyFields
<1>7. ApplyFits'
  BY <1>3, <1>4, <1>5, <1>6 DEF ApplyFits
<1> QED
  BY <1>2, <1>6, <1>7, OfPreset

LEMMA BackupStep ==
  ASSUME Base, ApplyBackup, UNCHANGED smolVars
  PROVE  Base'
<1> DEFINE m == [name |-> cmd.name, status |-> "applying", files |-> Files(cmd.ps), sha |-> Nil,
                 previous |-> [p \in cmd.ps |-> applied[p][Preset[cmd.name].family]]]
<1>1. /\ cmd.tool = "preset" /\ cmd.pc = "backup" /\ manifests' = Append(manifests, m)
      /\ cmd' = [cmd EXCEPT !.pc = "write", !.id = Len(manifests) + 1, !.state = applied]
      /\ UNCHANGED <<cfg, mdl, used, mishap, quiet, smolState>>
  BY DEF ApplyBackup, At, smolVars
<1>2. cmd.ps \subseteq Profile /\ DOMAIN cmd = ApplyFields
  BY <1>1 DEF Base, CmdFits, ApplyFits
<1>3. ManifestFits(m)
  <2>1. m.files = Files(cmd.ps) /\ m.status = "applying" /\ DOMAIN m = {"name", "status", "files", "sha", "previous"}
    OBVIOUS
  <2>2. DOMAIN Files(cmd.ps) = cmd.ps /\ Files(cmd.ps) \in [cmd.ps -> Backup]
    BY <1>2 DEF Files, Base, Types, Backup
  <2> HIDE DEF m
  <2> QED
    BY <1>2, <2>1, <2>2 DEF ManifestFits, ROLLBACKABLE
<1>4. m.files = Files(cmd.ps) /\ m.status = "applying"
  OBVIOUS
<1> HIDE DEF m
<1>5. IsSeq(manifests) /\ \A i \in DOMAIN manifests : ManifestFits(manifests[i])
  BY DEF Base, Types
<1>6. IsSeq(manifests') /\ Len(manifests') = Len(manifests) + 1 /\ manifests'[Len(manifests')] = m
  <2>1. IsSeq(manifests')
    BY <1>1, <1>5, SeqAppend
  <2>2. Len(manifests') = Len(manifests) + 1 /\ manifests'[Len(manifests')] = m
    BY <1>1, <1>5, SeqAppend
  <2> QED
    BY <2>1, <2>2
<1>7. DOMAIN manifests' = DOMAIN manifests \cup {Len(manifests')}
  BY <1>1, <1>5, SeqAppend
<1>8. \A i \in DOMAIN manifests : manifests'[i] = manifests[i]
  BY <1>1, <1>5, SeqAppend
<1>9. Types'
  BY <1>1, <1>3, <1>5, <1>6, <1>7, <1>8 DEF Base, Types, Recorded
<1>10. /\ cmd'.tool = "preset" /\ cmd'.pc = "write" /\ cmd'.ps = cmd.ps /\ cmd'.steps = cmd.steps /\ cmd'.todo = cmd.todo
       /\ cmd'.left = cmd.left /\ DOMAIN cmd' = ApplyFields /\ cmd'.id = Len(manifests')
  BY <1>1, <1>2, <1>6 DEF ApplyFields
<1>11. (Its.status = "applying" /\ OnIts /\ AsBackedUp)'
  <2>1. Its' = m /\ cmd'.id \in DOMAIN manifests'
    BY <1>6, <1>7, <1>10 DEF Its
  <2>2. DOMAIN Files(cmd.ps) = cmd.ps /\ \A p \in cmd.ps : Files(cmd.ps)[p].models = mdl[p]
    BY DEF Files
  <2> QED
    BY <1>1, <1>4, <1>10, <2>1, <2>2, LikeAlways DEF OnIts, AsBackedUp
<1>12. ApplyFits'
  BY <1>1, <1>10, <1>11 DEF Base, CmdFits, ApplyFits
<1> QED
  BY <1>9, <1>10, <1>12, OfPreset

\* One setting of one profile is written.
LEMMA SettingFits ==
  ASSUME Types, NEW s, NEW pk \in Profile \X Kind, StepFits(s, pk), WriteStep(s)
  PROVE  /\ cfg' \in [Profile -> ConfigFile] /\ mdl' \in [Profile -> {Nil} \cup ModelsFile]
         /\ \A p \in Profile : Like(mdl'[p], mdl[p]) /\ HandIn(mdl'[p]) = HandIn(mdl[p]) /\ cfg'[p].hand = cfg[p].hand
         /\ \A p \in Profile : p # pk[1] => mdl'[p] = mdl[p] /\ cfg'[p] = cfg[p]
         /\ \A p \in Profile : cfg'[p].smol = cfg[p].smol \/ (s.kind = "modelRoles" /\ p = pk[1] /\ cfg'[p].smol = s.after.smol)
<1>1. s.p = pk[1] /\ pk[1] \in Profile
  BY DEF StepFits
<1>2. cfg \in [Profile -> ConfigFile] /\ mdl \in [Profile -> {Nil} \cup ModelsFile]
  BY DEF Types
<1>3. CASE s.kind = "provider" /\ mdl' = [mdl EXCEPT ![s.p] = [ModelsOf(mdl, s.p) EXCEPT !.sys1 = s.after]] /\ UNCHANGED cfg
  <2> DEFINE n == [Opened(mdl[s.p]) EXCEPT !.sys1 = s.after]
  <2>1. mdl' = [mdl EXCEPT ![s.p] = n]
    BY <1>3 DEF ModelsOf, Opened
  <2>2. s.after \in PresetValue /\ mdl[s.p] \in {Nil} \cup ModelsFile
    BY <1>1, <1>2, <1>3 DEF StepFits
  <2>3. n \in ModelsFile /\ Like(n, mdl[s.p]) /\ HandIn(n) = HandIn(mdl[s.p])
    BY <2>2, EditSys1
  <2> HIDE DEF n
  <2>4. mdl' \in [Profile -> {Nil} \cup ModelsFile]
    BY <1>1, <1>2, <2>1, <2>3
  <2>5. \A p \in Profile : p # pk[1] => mdl'[p] = mdl[p]
    BY <1>1, <1>2, <2>1
  <2>6. mdl'[pk[1]] = n
    BY <1>1, <1>2, <2>1
  <2> QED
    BY <1>1, <1>2, <1>3, <2>3, <2>4, <2>5, <2>6, LikeAlways
<1>4. CASE /\ s.kind = "modelRoles" /\ UNCHANGED mdl
           /\ cfg' = [cfg EXCEPT ![s.p] = [@ EXCEPT !.judge = s.after.judge, !.smol = s.after.smol]]
  <2> DEFINE n == [cfg[s.p] EXCEPT !.judge = s.after.judge, !.smol = s.after.smol]
  <2>1. cfg' = [cfg EXCEPT ![s.p] = n]
    BY <1>4
  <2>2. s.after.judge \in PresetValue /\ s.after.smol \in SmolValue /\ cfg[s.p] \in ConfigFile
    BY <1>1, <1>2, <1>4 DEF StepFits
  <2>3. n \in ConfigFile /\ n.hand = cfg[s.p].hand /\ n.smol = s.after.smol
    BY <2>2 DEF ConfigFile
  <2> HIDE DEF n
  <2> QED
    BY <1>1, <1>2, <1>4, <2>1, <2>3, LikeAlways
<1>5. CASE s.kind = "level" /\ cfg' = [cfg EXCEPT ![s.p].level = s.after] /\ UNCHANGED mdl
  <2> DEFINE n == [cfg[s.p] EXCEPT !.level = s.after]
  <2>1. cfg' = [cfg EXCEPT ![s.p] = n]
    BY <1>5
  <2>2. s.after \in PresetValue /\ cfg[s.p] \in ConfigFile
    BY <1>1, <1>2, <1>5 DEF StepFits
  <2>3. n \in ConfigFile /\ n.hand = cfg[s.p].hand /\ n.smol = cfg[s.p].smol
    BY <2>2 DEF ConfigFile
  <2> HIDE DEF n
  <2> QED
    BY <1>1, <1>2, <1>5, <2>1, <2>3, LikeAlways
<1> QED
  BY <1>3, <1>4, <1>5 DEF WriteStep

\* The restore of an apply begins.
LEMMA ToRestoreFits ==
  ASSUME Base, At("preset", "write"), ToRestore, used' \in UsedSet, UNCHANGED <<cfg, mdl, manifests, smolState>>
  PROVE  Base'
<1>1. ApplyFits /\ Types
  BY DEF Base, CmdFits
<1>2. Types'
  BY <1>1, TypesKeep DEF Types
<1>3. /\ DOMAIN cmd' = ApplyFields /\ cmd'.tool = "preset" /\ cmd'.pc = "restore" /\ cmd'.left = AllFiles(cmd.ps)
      /\ cmd'.ps = cmd.ps /\ cmd'.steps = cmd.steps /\ cmd'.todo = cmd.todo /\ cmd'.id = cmd.id
  BY <1>1 DEF ToRestore, At, ApplyFits, ApplyFields
<1>4. OnIts' /\ Its'.status = "applying" /\ AsBackedUp'
  BY <1>1, <1>3 DEF At, ApplyFits, OnIts, Its, AsBackedUp
<1>5. ApplyFits'
  BY <1>1, <1>3, <1>4 DEF At, ApplyFits
<1> QED
  BY <1>2, <1>3, <1>5, OfPreset

LEMMA WriteStepFits ==
  ASSUME Base, ApplyWrite, UNCHANGED smolVars
  PROVE  Base'
<1>1. ApplyFits /\ Types /\ cmd.tool = "preset" /\ cmd.pc = "write" /\ UNCHANGED <<mishap, manifests, smolState>>
  BY DEF Base, CmdFits, ApplyWrite, At, presetVars, smolVars
<1>2. PICK pk \in cmd.todo :
        \/ /\ WriteStep(cmd.steps[pk]) /\ UNCHANGED used
           /\ cmd' = [cmd EXCEPT !.todo = @ \ {pk}, !.on = cmd.steps[pk].p]
        \/ ToRestore /\ UNCHANGED <<cfg, mdl, used>>
        \/ Count("failure") /\ ToRestore /\ UNCHANGED <<cfg, mdl>>
  BY DEF ApplyWrite
<1>3. pk \in DOMAIN cmd.steps /\ pk \in Profile \X Kind /\ pk[1] \in cmd.ps /\ StepFits(cmd.steps[pk], pk)
  BY <1>1 DEF ApplyFits
<1>4. used \in UsedSet
  BY <1>1 DEF Types, UsedSet
<1>5. CASE /\ WriteStep(cmd.steps[pk]) /\ UNCHANGED used
           /\ cmd' = [cmd EXCEPT !.todo = @ \ {pk}, !.on = cmd.steps[pk].p]
  <2>1. /\ cfg' \in [Profile -> ConfigFile] /\ mdl' \in [Profile -> {Nil} \cup ModelsFile]
        /\ \A p \in Profile : Like(mdl'[p], mdl[p])
    BY <1>1, <1>3, <1>5, SettingFits
  <2>2. Types'
    BY <1>1, <1>4, <1>5, <2>1, TypesKeep
  <2>3. /\ DOMAIN cmd' = ApplyFields /\ cmd'.tool = "preset" /\ cmd'.pc = "write" /\ cmd'.left = cmd.left
        /\ cmd'.ps = cmd.ps /\ cmd'.steps = cmd.steps /\ cmd'.todo = cmd.todo \ {pk} /\ cmd'.id = cmd.id
    BY <1>1, <1>5 DEF ApplyFits, ApplyFields
  <2>4. OnIts' /\ Its'.status = "applying"
    BY <1>1, <2>3 DEF ApplyFits, OnIts, Its
  <2>5. AsBackedUp'
    BY <1>1, <2>1, <2>3 DEF ApplyFits, Its, AsBackedUp, Like
  <2>6. ApplyFits'
    BY <1>1, <2>3, <2>4, <2>5 DEF ApplyFits
  <2> QED
    BY <2>2, <2>3, <2>6, OfPreset
<1>6. CASE ToRestore /\ UNCHANGED <<cfg, mdl, used>>
  BY <1>1, <1>4, <1>6, ToRestoreFits DEF At
<1>7. CASE Count("failure") /\ ToRestore /\ UNCHANGED <<cfg, mdl>>
  BY <1>1, <1>4, <1>7, CountFits, ToRestoreFits DEF At
<1> QED
  BY <1>2, <1>5, <1>6, <1>7

LEMMA ReadbackStep ==
  ASSUME Base, ApplyReadback, UNCHANGED smolVars
  PROVE  Base'
<1>1. /\ ApplyFits /\ Types /\ cmd.tool = "preset" /\ cmd.pc = "write"
      /\ UNCHANGED <<cfg, mdl, used, manifests, smolState>>
  BY DEF Base, CmdFits, ApplyReadback, At, presetVars, smolVars
<1>2. used' \in UsedSet
  BY <1>1 DEF Types, UsedSet
<1>3. CASE Goto("commit")
  <2>1. Types'
    BY <1>1, <1>2, TypesKeep DEF Types
  <2>2. /\ DOMAIN cmd' = ApplyFields /\ cmd'.tool = "preset" /\ cmd'.pc = "commit" /\ cmd'.left = cmd.left
        /\ cmd'.ps = cmd.ps /\ cmd'.steps = cmd.steps /\ cmd'.todo = cmd.todo /\ cmd'.id = cmd.id
    BY <1>1, <1>3 DEF Goto, ApplyFits, ApplyFields
  <2>3. OnIts' /\ Its'.status = "applying" /\ AsBackedUp'
    BY <1>1, <2>2 DEF ApplyFits, OnIts, Its, AsBackedUp
  <2>4. ApplyFits'
    BY <1>1, <2>2, <2>3 DEF ApplyFits
  <2> QED
    BY <2>1, <2>2, <2>4, OfPreset
<1>4. CASE ToRestore
  BY <1>1, <1>2, <1>4, ToRestoreFits DEF At
<1> QED
  BY <1>3, <1>4 DEF ApplyReadback

LEMMA CommitStep ==
  ASSUME Base, ApplyCommit, UNCHANGED smolVars
  PROVE  Base'
<1> DEFINE m == [Its EXCEPT !.status = "applied", !.sha = Files(cmd.ps)]
<1>1. /\ ApplyFits /\ Types /\ cmd.tool = "preset" /\ cmd.pc = "commit"
      /\ UNCHANGED <<cfg, mdl, used, smolState>>
  BY DEF Base, CmdFits, ApplyCommit, At, smolVars
<1>2. manifests' = [manifests EXCEPT ![cmd.id] = m]
  BY DEF ApplyCommit, Its
<1>3. cmd.id \in DOMAIN manifests /\ DOMAIN Its.files = cmd.ps /\ AsBackedUp /\ ManifestFits(Its)
  BY <1>1 DEF ApplyFits, OnIts, Types, Its
<1>4. ManifestFits(m) /\ m.files = Its.files
  <2>1. m.status = "applied" /\ m.sha = Files(cmd.ps) /\ m.files = Its.files /\ DOMAIN m = DOMAIN Its
    BY <1>3 DEF ManifestFits
  <2>2. \A p \in cmd.ps : Files(cmd.ps)[p].models = mdl[p]
    BY DEF Files
  <2> HIDE DEF m
  <2> QED
    BY <1>3, <2>1, <2>2 DEF ManifestFits, AsBackedUp, ROLLBACKABLE
<1> HIDE DEF m
<1>5. /\ IsSeq(manifests') /\ DOMAIN manifests' = DOMAIN manifests /\ manifests'[cmd.id] = m
      /\ \A j \in DOMAIN manifests' : ManifestFits(manifests'[j])
  BY <1>1, <1>2, <1>3, <1>4, Rewritten
<1>6. Types'
  BY <1>1, <1>5 DEF Types, Recorded
<1>7. /\ DOMAIN cmd' = ApplyFields /\ cmd'.tool = "preset" /\ cmd'.pc = "record" /\ cmd'.left = cmd.left
      /\ cmd'.ps = cmd.ps /\ cmd'.steps = cmd.steps /\ cmd'.todo = cmd.todo /\ cmd'.id = cmd.id
  BY <1>1 DEF ApplyCommit, Goto, ApplyFits, ApplyFields
<1>8. OnIts'
  BY <1>3, <1>4, <1>5, <1>7 DEF OnIts, Its
<1>9. ApplyFits'
  BY <1>1, <1>7, <1>8 DEF ApplyFits
<1> QED
  BY <1>6, <1>7, <1>9, OfPreset

LEMMA RecordStep ==
  ASSUME Base, ApplyRecord, UNCHANGED smolVars
  PROVE  Base'
<1>1. Types'
  BY TypesKeep DEF ApplyRecord, smolVars, Base, Types, UsedSet
<1> QED
  BY <1>1, Idles DEF ApplyRecord, Finish

\* A file is put back: what presets do not own in models.yml stays.
LEMMA RestoredFits ==
  ASSUME Base, RestoreFile, UNCHANGED smolVars
  PROVE  /\ Types' /\ OnIts /\ cmd.ps \subseteq Profile /\ cmd.left \subseteq AllFiles(cmd.ps)
         /\ \E pf \in cmd.left :
              /\ cmd' = [cmd EXCEPT !.left = @ \ {pf}]
              /\ pf[1] \in cmd.ps /\ pf[2] \in {"config", "models"}
              /\ \A p \in Profile :
                   /\ IF p = pf[1] /\ pf[2] = "config" THEN cfg'[p] = Its.files[p].config ELSE cfg'[p] = cfg[p]
                   /\ IF p = pf[1] /\ pf[2] = "models" THEN mdl'[p] = Its.files[p].models ELSE mdl'[p] = mdl[p]
<1>1. /\ Types /\ cmd.tool \in {"preset", "rollback"} /\ cmd.pc = "restore"
      /\ UNCHANGED <<used, manifests, smolState>>
  BY DEF Base, RestoreFile, Restoring, presetVars, smolVars
<1>2. OnIts /\ cmd.ps \subseteq Profile /\ cmd.left \subseteq AllFiles(cmd.ps)
  BY <1>1 DEF Base, CmdFits, ApplyFits, RollbackFits
<1>3. PICK pf \in cmd.left :
        /\ \/ /\ pf[2] = "config" /\ cfg' = [cfg EXCEPT ![pf[1]] = Its.files[pf[1]][pf[2]]] /\ UNCHANGED mdl
           \/ /\ pf[2] # "config" /\ mdl' = [mdl EXCEPT ![pf[1]] = Its.files[pf[1]][pf[2]]] /\ UNCHANGED cfg
        /\ cmd' = [cmd EXCEPT !.left = @ \ {pf}]
  BY DEF RestoreFile, Its
<1>4. pf[1] \in cmd.ps /\ pf[2] \in {"config", "models"}
  BY <1>2 DEF AllFiles
<1>5. Its.files[pf[1]].config \in ConfigFile /\ Its.files[pf[1]].models \in {Nil} \cup ModelsFile
  BY <1>1, <1>2, <1>4, BackupShape DEF OnIts, Its
<1>6. cfg \in [Profile -> ConfigFile] /\ mdl \in [Profile -> {Nil} \cup ModelsFile] /\ used \in UsedSet
  BY <1>1 DEF Types, UsedSet
<1>7. cfg' \in [Profile -> ConfigFile] /\ mdl' \in [Profile -> {Nil} \cup ModelsFile]
  BY <1>3, <1>4, <1>5, <1>6
<1>8. Types'
  BY <1>1, <1>6, <1>7, TypesKeep
<1>9. \A p \in Profile :
        /\ IF p = pf[1] /\ pf[2] = "config" THEN cfg'[p] = Its.files[p].config ELSE cfg'[p] = cfg[p]
        /\ IF p = pf[1] /\ pf[2] = "models" THEN mdl'[p] = Its.files[p].models ELSE mdl'[p] = mdl[p]
  BY <1>3, <1>4, <1>6
<1> QED
  BY <1>2, <1>3, <1>4, <1>8, <1>9

LEMMA RestoreStep ==
  ASSUME Base, RestoreFile, UNCHANGED smolVars
  PROVE  Base'
<1>1. /\ Types' /\ OnIts /\ cmd.ps \subseteq Profile /\ cmd.left \subseteq AllFiles(cmd.ps)
  BY RestoredFits
<1>2. PICK pf \in cmd.left :
        /\ cmd' = [cmd EXCEPT !.left = @ \ {pf}]
        /\ \A p \in Profile : mdl'[p] = mdl[p] \/ (p \in cmd.ps /\ mdl'[p] = Its.files[p].models)
  BY RestoredFits
<1>3. /\ cmd.tool \in {"preset", "rollback"} /\ cmd.pc = "restore" /\ UNCHANGED <<manifests, mishap>>
  BY DEF RestoreFile, Restoring, presetVars
<1>4. AsBackedUp => \A p \in cmd.ps : Like(mdl'[p], Its.files[p].models)
  BY <1>1, <1>2, LikeAlways DEF AsBackedUp
<1>5. CASE cmd.tool = "preset"
  <2>1. /\ DOMAIN cmd' = ApplyFields /\ cmd'.tool = "preset" /\ cmd'.pc = "restore" /\ cmd'.left \subseteq cmd.left
        /\ cmd'.ps = cmd.ps /\ cmd'.steps = cmd.steps /\ cmd'.todo = cmd.todo /\ cmd'.id = cmd.id
    BY <1>2, <1>3, <1>5 DEF Base, CmdFits, ApplyFits, ApplyFields
  <2>2. OnIts' /\ Its'.status = "applying" /\ AsBackedUp'
    BY <1>1, <1>3, <1>4, <1>5, <2>1 DEF Base, CmdFits, ApplyFits, OnIts, Its, AsBackedUp
  <2>3. ApplyFits'
    BY <1>1, <1>3, <1>5, <2>1, <2>2 DEF Base, CmdFits, ApplyFits
  <2> QED
    BY <1>1, <2>1, <2>3, OfPreset
<1>6. CASE cmd.tool = "rollback"
  <2>1. /\ DOMAIN cmd' = RollbackFields /\ cmd'.tool = "rollback" /\ cmd'.pc = "restore" /\ cmd'.left \subseteq cmd.left
        /\ cmd'.ps = cmd.ps /\ cmd'.id = cmd.id
    BY <1>2, <1>3, <1>6 DEF Base, CmdFits, RollbackFits, RollbackFields
  <2>2. OnIts' /\ Its'.status \in ROLLBACKABLE
    BY <1>1, <1>3, <1>6, <2>1 DEF Base, CmdFits, RollbackFits, OnIts, Its
  <2>3. ("lossy" \notin mishap => AsBackedUp)'
    BY <1>3, <1>4, <1>6, <2>1 DEF Base, CmdFits, RollbackFits, Its, AsBackedUp
  <2>4. RollbackFits'
    BY <1>1, <2>1, <2>2, <2>3 DEF RollbackFits
  <2> QED
    BY <1>1, <2>1, <2>4, OfRollback
<1> QED
  BY <1>3, <1>5, <1>6

\* The status of a manifest is set at the end of a command.
LEMMA StatusEnds ==
  ASSUME Base, NEW id \in DOMAIN manifests, NEW status \in {"rolled-back", "restore_failed"}, SetStatus(id, status),
         cmd' = Idle, used' \in UsedSet, UNCHANGED <<cfg, mdl, smolState>>
  PROVE  Base'
<1> DEFINE m == [manifests[id] EXCEPT !.status = status]
<1>1. Types /\ ManifestFits(manifests[id]) /\ manifests' = [manifests EXCEPT ![id] = m]
  BY DEF Base, Types, SetStatus
<1>2. ManifestFits(m)
  <2>1. m.status = status /\ m.files = manifests[id].files /\ DOMAIN m = DOMAIN manifests[id]
    BY <1>1 DEF ManifestFits
  <2> HIDE DEF m
  <2> QED
    BY <1>1, <2>1 DEF ManifestFits, ROLLBACKABLE
<1> HIDE DEF m
<1>3. IsSeq(manifests') /\ \A j \in DOMAIN manifests' : ManifestFits(manifests'[j])
  BY <1>1, <1>2, Rewritten
<1>4. Types'
  BY <1>1, <1>3 DEF Types, UsedSet, Recorded
<1> QED
  BY <1>4, Idles

LEMMA RestoredStep ==
  ASSUME Base, ApplyRestored, UNCHANGED smolVars
  PROVE  Base'
<1>1. cmd.id \in DOMAIN manifests /\ cmd' = Idle /\ UNCHANGED <<cfg, mdl, smolState>>
  BY DEF Base, CmdFits, ApplyFits, OnIts, ApplyRestored, At, Finish, smolVars
<1>2. used \in UsedSet
  BY DEF Base, Types, UsedSet
<1>3. CASE SetStatus(cmd.id, "rolled-back") /\ UNCHANGED used
  BY <1>1, <1>2, <1>3, StatusEnds
<1>4. CASE Count("failure") /\ SetStatus(cmd.id, "restore_failed")
  BY <1>1, <1>2, <1>4, CountFits, StatusEnds
<1> QED
  BY <1>3, <1>4 DEF ApplyRestored

LEMMA RollbackStep ==
  ASSUME Base, RollbackBegin, UNCHANGED smolVars
  PROVE  Base'
<1>1. PICK id \in DOMAIN manifests :
        /\ manifests[id].status \in ROLLBACKABLE
        /\ cmd' = [tool |-> "rollback", pc |-> "restore", id |-> id, ps |-> DOMAIN manifests[id].files,
                   left |-> AllFiles(DOMAIN manifests[id].files)]
        /\ Count("command")
        /\ "lossy" \notin mishap' => manifests[id].status = "applied" /\ ~ChangedSince(id)
        /\ UNCHANGED <<cfg, mdl, manifests, smolState>>
  BY DEF RollbackBegin, Begin, presetVars, smolVars
<1>2. Types'
  <2>1. used' \in UsedSet
    BY <1>1, CountFits DEF Base, Types, UsedSet
  <2> QED
    BY <1>1, <2>1, TypesKeep DEF Base, Types
<1>3. /\ DOMAIN cmd' = RollbackFields /\ cmd'.tool = "rollback" /\ cmd'.pc = "restore" /\ cmd'.id = id
      /\ cmd'.ps = DOMAIN manifests[id].files /\ cmd'.left = AllFiles(cmd'.ps)
  BY <1>1 DEF RollbackFields
<1>4. ManifestFits(manifests[id])
  BY DEF Base, Types
<1>5. ASSUME "lossy" \notin mishap', NEW p \in DOMAIN manifests[id].files
      PROVE  Like(mdl[p], manifests[id].files[p].models)
  <2>1. manifests[id].status = "applied" /\ manifests[id].sha = Files(DOMAIN manifests[id].files)
    BY <1>1, <1>5 DEF ChangedSince
  <2>2. manifests[id].sha[p].models = mdl[p]
    BY <2>1 DEF Files
  <2> QED
    BY <1>4, <2>1, <2>2 DEF ManifestFits
<1>6. RollbackFits'
  BY <1>1, <1>3, <1>4, <1>5 DEF RollbackFits, OnIts, AsBackedUp, Its, ManifestFits
<1> QED
  BY <1>2, <1>3, <1>6, OfRollback

LEMMA RollbackEnds ==
  ASSUME Base, RollbackFails \/ RollbackRecord \/ RollbackStatus, UNCHANGED smolVars
  PROVE  Base'
<1>1. Types /\ cmd.tool = "rollback" /\ RollbackFits /\ used \in UsedSet /\ UNCHANGED <<cfg, mdl, smolState>>
  BY DEF Base, CmdFits, Types, UsedSet, RollbackFails, RollbackRecord, RollbackStatus, At, smolVars
<1>2. CASE RollbackFails
  <2>1. Types'
    BY <1>1, <1>2, CountFits, TypesKeep DEF Types, RollbackFails, presetVars
  <2> QED
    BY <1>2, <2>1, Idles DEF RollbackFails, Finish
<1>3. CASE RollbackRecord
  <2>1. UNCHANGED <<used, manifests, mishap>>
    BY <1>3 DEF RollbackRecord
  <2>2. Types'
    BY <1>1, <2>1, TypesKeep DEF Types
  <2>3. /\ DOMAIN cmd' = RollbackFields /\ cmd'.tool = "rollback" /\ cmd'.pc = "status" /\ cmd'.left = cmd.left
        /\ cmd'.ps = cmd.ps /\ cmd'.id = cmd.id
    BY <1>1, <1>3 DEF RollbackRecord, Goto, RollbackFits, RollbackFields
  <2>4. RollbackFits'
    BY <1>1, <2>1, <2>3 DEF RollbackFits, OnIts, Its, AsBackedUp
  <2> QED
    BY <2>2, <2>3, <2>4, OfRollback
<1>4. CASE RollbackStatus
  BY <1>1, <1>4, StatusEnds DEF RollbackStatus, Finish, RollbackFits, OnIts
<1> QED
  BY <1>2, <1>3, <1>4

\* What people edit leaves the parts of models.yml alone that localbench owns.
LEMMA EditFits ==
  ASSUME Types, HandEdit
  PROVE  /\ cfg' \in [Profile -> ConfigFile] /\ mdl' \in [Profile -> {Nil} \cup ModelsFile] /\ used' \in UsedSet
         /\ used.edit + 1 \in Edit /\ used'.edit = used.edit + 1
         /\ \A p \in Profile : /\ Like(mdl'[p], mdl[p])
                               /\ cfg'[p].smol \in {cfg[p].smol, HandSmol}
                               /\ HandIn(mdl[p]) \subseteq HandIn(mdl'[p]) /\ cfg[p].hand \subseteq cfg'[p].hand
                               /\ HandIn(mdl'[p]) \subseteq HandIn(mdl[p]) \cup {used.edit + 1}
                               /\ cfg'[p].hand \subseteq cfg[p].hand \cup {used.edit + 1}
         /\ quiet' = quiet \/ \E p \in Profile, f \in {"config", "models"} :
              /\ quiet' = quiet \cup {<<p, f, used.edit + 1>>}
              /\ used.edit + 1 \in IF f = "config" THEN cfg'[p].hand ELSE HandIn(mdl'[p])
<1> DEFINE e == used.edit + 1
<1>1. used.edit \in Nat /\ used.edit < MaxEdit /\ Count("edit") /\ used \in UsedSet
  BY DEF HandEdit, Types, UsedSet
<1>2. e \in Edit /\ used' \in UsedSet /\ used'.edit = e
  BY <1>1, CountFits, FilesAssumption DEF Edit
<1>3. cfg \in [Profile -> ConfigFile] /\ mdl \in [Profile -> {Nil} \cup ModelsFile]
  BY DEF Types
<1>4. PICK p \in Profile, file \in {"config", "models", "smol"} :
        /\ \/ file = "config" /\ cfg' = [cfg EXCEPT ![p].hand = @ \cup {e}] /\ UNCHANGED mdl
           \/ file = "smol" /\ cfg' = [cfg EXCEPT ![p].smol = HandSmol] /\ UNCHANGED mdl
           \/ file = "models" /\ mdl' = [mdl EXCEPT ![p] = [ModelsOf(mdl, p) EXCEPT !.hand = @ \cup {e}]] /\ UNCHANGED cfg
        /\ quiet' = IF cmd = Idle /\ file # "smol" THEN quiet \cup {<<p, file, e>>} ELSE quiet
  BY DEF HandEdit
<1> HIDE DEF e
<1>5. CASE file = "config" /\ cfg' = [cfg EXCEPT ![p].hand = @ \cup {e}] /\ UNCHANGED mdl
  <2> DEFINE n == [cfg[p] EXCEPT !.hand = @ \cup {e}]
  <2>1. cfg' = [cfg EXCEPT ![p] = n]
    BY <1>5
  <2>2. n \in ConfigFile /\ n.hand = cfg[p].hand \cup {e} /\ n.smol = cfg[p].smol
    BY <1>2, <1>3 DEF ConfigFile
  <2> HIDE DEF n
  <2>3. cfg' \in [Profile -> ConfigFile] /\ cfg'[p] = n /\ \A q \in Profile : q # p => cfg'[q] = cfg[q]
    BY <1>3, <2>1, <2>2
  <2>4. \A q \in Profile : cfg'[q].smol = cfg[q].smol /\ cfg[q].hand \subseteq cfg'[q].hand /\ cfg'[q].hand \subseteq cfg[q].hand \cup {e}
    BY <2>2, <2>3
  <2>5. e \in cfg'[p].hand
    BY <2>2, <2>3
  <2> QED
    BY <1>2, <1>3, <1>4, <1>5, <2>3, <2>4, <2>5, LikeAlways DEF e
<1>6. CASE file = "smol" /\ cfg' = [cfg EXCEPT ![p].smol = HandSmol] /\ UNCHANGED mdl
  <2> DEFINE n == [cfg[p] EXCEPT !.smol = HandSmol]
  <2>1. cfg' = [cfg EXCEPT ![p] = n]
    BY <1>6
  <2>2. n \in ConfigFile /\ n.hand = cfg[p].hand /\ n.smol = HandSmol
    BY <1>3 DEF ConfigFile, SmolValue
  <2> HIDE DEF n
  <2>3. cfg' \in [Profile -> ConfigFile] /\ cfg'[p] = n /\ \A q \in Profile : q # p => cfg'[q] = cfg[q]
    BY <1>3, <2>1, <2>2
  <2>4. \A q \in Profile : cfg'[q].smol \in {cfg[q].smol, HandSmol} /\ cfg[q].hand = cfg'[q].hand
    BY <2>2, <2>3
  <2> QED
    BY <1>2, <1>3, <1>4, <1>6, <2>3, <2>4, LikeAlways DEF e
<1>7. CASE file = "models" /\ mdl' = [mdl EXCEPT ![p] = [ModelsOf(mdl, p) EXCEPT !.hand = @ \cup {e}]] /\ UNCHANGED cfg
  <2> DEFINE n == [Opened(mdl[p]) EXCEPT !.hand = HandIn(mdl[p]) \cup {e}]
  <2>1. mdl' = [mdl EXCEPT ![p] = n]
    BY <1>3, <1>7, OpenedFits DEF ModelsOf, Opened
  <2>2. HandIn(mdl[p]) \cup {e} \in SUBSET Edit /\ mdl[p] \in {Nil} \cup ModelsFile
    BY <1>2, <1>3, RealModels, NoModels
  <2>3. n \in ModelsFile /\ Like(n, mdl[p]) /\ HandIn(n) = HandIn(mdl[p]) \cup {e}
    BY <2>2, EditHand
  <2> HIDE DEF n
  <2>4. mdl' \in [Profile -> {Nil} \cup ModelsFile] /\ mdl'[p] = n /\ \A q \in Profile : q # p => mdl'[q] = mdl[q]
    BY <1>3, <2>1, <2>3
  <2>5. \A q \in Profile : /\ Like(mdl'[q], mdl[q]) /\ HandIn(mdl[q]) \subseteq HandIn(mdl'[q])
                           /\ HandIn(mdl'[q]) \subseteq HandIn(mdl[q]) \cup {e}
    BY <2>3, <2>4, LikeAlways
  <2>6. e \in HandIn(mdl'[p])
    BY <2>3, <2>4
  <2> QED
    BY <1>2, <1>3, <1>4, <1>7, <2>4, <2>5, <2>6 DEF e
<1> QED
  BY <1>4, <1>5, <1>6, <1>7

\* A step that leaves the running command, the manifests and those parts alone.
LEMMA BesideFits ==
  ASSUME Base, Types', UNCHANGED <<cmd, manifests, smolState>>, mishap \subseteq mishap',
         \A p \in Profile : Like(mdl'[p], mdl[p])
  PROVE  Base'
<1>1. AsBackedUp /\ cmd.ps \subseteq Profile => AsBackedUp'
  BY DEF AsBackedUp, Its, Like
<1>2. ApplyFits'
  BY <1>1 DEF Base, CmdFits, ApplyFits, OnIts, Its
<1>3. RollbackFits'
  BY <1>1 DEF Base, CmdFits, RollbackFits, OnIts, Its
<1>4. RouteFits' /\ SmolFits'
  BY DEF Base, CmdFits, RouteFits, RouteShape, SmolFits, Recorded
<1> QED
  BY <1>2, <1>3, <1>4 DEF Base, CmdFits

LEMMA WorldStep ==
  ASSUME Base, HandEdit \/ Death, UNCHANGED <<presetVars, smolVars>>
  PROVE  Base'
<1>1. Types
  BY DEF Base
<1>2. CASE HandEdit
  <2>1. Types'
    BY <1>1, <1>2, EditFits, TypesKeep DEF presetVars, smolVars
  <2>2. UNCHANGED cmd /\ mishap \subseteq mishap'
    BY <1>2 DEF HandEdit
  <2> QED
    BY <1>1, <1>2, <2>1, <2>2, EditFits, BesideFits DEF presetVars, smolVars
<1>3. CASE Death
  <2>1. used' \in UsedSet
    BY <1>1, <1>3, CountFits DEF Types, UsedSet, Death
  <2>2. Types'
    BY <1>1, <1>3, <2>1, TypesKeep DEF Death, presetVars, smolVars, Types
  <2> QED
    BY <1>3, <2>2, Idles DEF Death, Finish
<1> QED
  BY <1>2, <1>3

(***************************************************************************)
(* The routes.                                                             *)
(***************************************************************************)
LEMMA StrippedFits ==
  ASSUME NEW m \in ModelsFile, NEW p, NEW created, NEW n, n = Stripped(p, m, created)
  PROVE  n \in {Nil} \cup ModelsFile /\ SmolIn(n) = SmolIn(m) /\ HandIn(n) = HandIn(m) /\ ~RoutedIn(n)
<1> DEFINE rest == [Opened(m) EXCEPT !.ollama = FALSE]
<1>1. /\ rest \in ModelsFile /\ SmolIn(rest) = SmolIn(m) /\ HandIn(rest) = HandIn(m) /\ ~RoutedIn(rest)
  BY EditRoute
<1>2. rest = [m EXCEPT !.ollama = FALSE]
  BY RealModels DEF Opened
<1>3. n = rest \/ (n = Nil /\ Blank(rest))
  BY <1>2 DEF Stripped
<1> HIDE DEF rest
<1>4. CASE n = Nil /\ Blank(rest)
  <2>1. SmolIn(rest) = Nil /\ HandIn(rest) = {}
    BY <1>1, <1>4, RealModels DEF Blank
  <2> QED
    BY <1>1, <1>4, <2>1, NoModels
<1> QED
  BY <1>1, <1>3, <1>4

LEMMA BlockFits ==
  ASSUME NEW f, NEW p, f[p] \in {Nil} \cup ModelsFile, NEW n, n = WithBlock(ModelsOf(f, p))
  PROVE  n \in ModelsFile /\ SmolIn(n) = SmolIn(f[p]) /\ HandIn(n) = HandIn(f[p]) /\ RoutedIn(n)
<1>1. n = [Opened(f[p]) EXCEPT !.ollama = TRUE]
  BY DEF WithBlock, ModelsOf, Opened
<1> QED
  BY <1>1, EditRoute

LEMMA RouteWhere ==
  ASSUME Base, NEW pc, At("route", pc), pc # "halt"
  PROVE  RouteShape
BY DEF Base, CmdFits, RouteFits, At

\* A step of the routes touches a file in its route only.
RouteEdit ==
  /\ cfg' = cfg /\ mdl' \in [Profile -> {Nil} \cup ModelsFile]
  /\ \A p \in Profile : SmolIn(mdl'[p]) = SmolIn(mdl[p]) /\ HandIn(mdl'[p]) = HandIn(mdl[p])

LEMMA NoEdit == Types /\ UNCHANGED <<cfg, mdl>> => RouteEdit
BY DEF Types, RouteEdit

LEMMA OneEdit ==
  ASSUME Types, cfg' = cfg, NEW p \in Profile, NEW n \in {Nil} \cup ModelsFile, mdl' = [mdl EXCEPT ![p] = n],
         SmolIn(n) = SmolIn(mdl[p]), HandIn(n) = HandIn(mdl[p])
  PROVE  RouteEdit /\ mdl'[p] = n /\ \A q \in Profile : q # p => mdl'[q] = mdl[q]
BY DEF Types, RouteEdit

\* The next step of an install or a remove.
RouteStays ==
  /\ DOMAIN cmd' = DOMAIN cmd /\ cmd'.tool = "route" /\ cmd'.op = cmd.op /\ cmd'.existed = cmd.existed /\ cmd'.before = cmd.before

LEMMA RouteGoes ==
  ASSUME RouteShape, cmd.tool = "route",
         \/ \E pc : Goto(pc)
         \/ \E d : cmd' = [cmd EXCEPT !.done = d]
         \/ \E pc, s, d : cmd' = [cmd EXCEPT !.pc = pc, !.snap = s, !.done = d]
  PROVE  RouteStays
BY DEF RouteShape, RouteFields, RouteStays, Goto

LEMMA InstallFits ==
  ASSUME Base, InstallBegin \/ InstallManifest \/ InstallService \/ InstallReadback \/ InstallRecover
  PROVE  RouteEdit /\ used' \in UsedSet /\ used'.edit = used.edit /\ (cmd' = Idle \/ (cmd'.tool = "route" /\ RouteFits'))
<1>1. Types /\ used \in UsedSet /\ mdl \in [Profile -> {Nil} \cup ModelsFile]
  BY DEF Base, Types, UsedSet
<1>2. RouteEdit
  BY <1>1, NoEdit DEF InstallBegin, InstallManifest, InstallService, InstallReadback, InstallRecover
<1>3. used' \in UsedSet /\ used'.edit = used.edit
  BY <1>1, CountFits DEF InstallBegin, InstallManifest, InstallService, InstallReadback, InstallRecover, Begin, Failure
<1>4. CASE InstallBegin
  <2>1. /\ DOMAIN cmd' = RouteFields /\ cmd'.tool = "route" /\ cmd'.op = "install" /\ cmd'.pc \in {"write", "service"}
        /\ cmd'.snap = mdl /\ cmd'.done = {}
    BY <1>4 DEF InstallBegin, Begin, RouteFields
  <2> QED
    BY <1>1, <1>2, <1>3, <2>1 DEF RouteFits, RouteShape
<1>5. CASE InstallManifest \/ InstallService \/ InstallReadback \/ InstallRecover
  <2>1. RouteShape /\ cmd.tool = "route"
    BY <1>5, RouteWhere DEF InstallManifest, InstallService, InstallReadback, InstallRecover, At
  <2>2. cmd' = Idle \/ \E pc \in {"service", "undo", "readback", "recover", "plan"} : Goto(pc)
    BY <1>5 DEF InstallManifest, InstallService, InstallReadback, InstallRecover, Finish
  <2>3. ASSUME NEW pc \in {"service", "undo", "readback", "recover", "plan"}, Goto(pc)
        PROVE  cmd'.tool = "route" /\ RouteFits'
    <3>1. cmd'.pc = pc /\ cmd'.snap = cmd.snap /\ cmd'.done = cmd.done /\ RouteStays
      BY <2>1, <2>3, RouteGoes DEF Goto, RouteShape, RouteFields
    <3> QED
      BY <2>1, <2>3, <3>1 DEF RouteFits, RouteShape, RouteStays
  <2> QED
    BY <1>2, <1>3, <2>2, <2>3
<1> QED
  BY <1>4, <1>5

LEMMA InstallEdits ==
  ASSUME Base, InstallWrite \/ InstallUndo
  PROVE  RouteEdit /\ used' \in UsedSet /\ used'.edit = used.edit /\ (cmd' = Idle \/ (cmd'.tool = "route" /\ RouteFits'))
<1>1. Types /\ used \in UsedSet /\ mdl \in [Profile -> {Nil} \cup ModelsFile] /\ RouteShape /\ cmd.tool = "route" /\ cfg' = cfg
  BY RouteWhere DEF Base, Types, UsedSet, InstallWrite, InstallUndo, At
<1>2. used' \in UsedSet /\ used'.edit = used.edit
  BY <1>1, CountFits DEF InstallWrite, InstallUndo, Failure
<1>3. RouteEdit
  <2>1. CASE UNCHANGED mdl
    BY <1>1, <2>1, NoEdit
  <2>2. ASSUME NEW p \in Profile, mdl' = [mdl EXCEPT ![p] = WithBlock(ModelsOf(mdl, p))]
        PROVE  RouteEdit
    BY <1>1, <2>2, BlockFits, OneEdit
  <2>3. ASSUME NEW p \in cmd.done, mdl[p] = WithBlock(ModelsOf(cmd.snap, p)), mdl' = [mdl EXCEPT ![p] = cmd.snap[p]]
        PROVE  RouteEdit
    <3>1. p \in Profile /\ cmd.snap[p] \in {Nil} \cup ModelsFile
      BY <1>1 DEF RouteShape
    <3>2. SmolIn(mdl[p]) = SmolIn(cmd.snap[p]) /\ HandIn(mdl[p]) = HandIn(cmd.snap[p])
      BY <2>3, <3>1, BlockFits
    <3> QED
      BY <1>1, <2>3, <3>1, <3>2, OneEdit
  <2>4. CASE InstallWrite
    BY <2>1, <2>2, <2>4 DEF InstallWrite
  <2>5. CASE InstallUndo
    BY <2>1, <2>3, <2>5 DEF InstallUndo
  <2> QED
    BY <2>4, <2>5
<1>4. cmd' = Idle \/ Goto("undo") \/ \E d \in SUBSET Profile : cmd' = [cmd EXCEPT !.done = d]
  BY <1>1 DEF InstallWrite, InstallUndo, Finish, RouteShape
<1>5. CASE Goto("undo")
  <2>1. cmd'.pc = "undo" /\ cmd'.snap = cmd.snap /\ cmd'.done = cmd.done /\ RouteStays
    BY <1>1, <1>5, RouteGoes DEF Goto, RouteShape, RouteFields
  <2> QED
    BY <1>1, <1>2, <1>3, <2>1 DEF RouteFits, RouteShape, RouteStays
<1>6. ASSUME NEW d \in SUBSET Profile, cmd' = [cmd EXCEPT !.done = d]
      PROVE  cmd'.tool = "route" /\ RouteFits'
  <2>1. cmd'.pc = cmd.pc /\ cmd'.snap = cmd.snap /\ cmd'.done = d /\ RouteStays
    BY <1>1, <1>6, RouteGoes DEF RouteShape, RouteFields
  <2> QED
    BY <1>1, <2>1 DEF RouteFits, RouteShape, RouteStays
<1> QED
  BY <1>2, <1>3, <1>4, <1>5, <1>6

LEMMA RevertFits ==
  ASSUME Base, RemoveBegin \/ RemoveStop \/ RevertPlan \/ RevertBlocked \/ RevertDone \/ RouteCleanup
  PROVE  RouteEdit /\ used' \in UsedSet /\ used'.edit = used.edit /\ (cmd' = Idle \/ (cmd'.tool = "route" /\ RouteFits'))
<1>1. Types /\ used \in UsedSet /\ mdl \in [Profile -> {Nil} \cup ModelsFile]
  BY DEF Base, Types, UsedSet
<1>2. RouteEdit
  BY <1>1, NoEdit DEF RemoveBegin, RemoveStop, RevertPlan, RevertBlocked, RevertDone, RouteCleanup, routeVars
<1>3. used' \in UsedSet /\ used'.edit = used.edit
  BY <1>1, CountFits DEF RemoveBegin, RemoveStop, RevertPlan, RevertBlocked, RevertDone, RouteCleanup, Begin, Failure
<1>4. CASE RemoveBegin
  <2>1. /\ DOMAIN cmd' = RouteFields /\ cmd'.tool = "route" /\ cmd'.op = "remove" /\ cmd'.pc = "stop"
        /\ cmd'.snap = mdl /\ cmd'.done = {}
    BY <1>4 DEF RemoveBegin, Begin, RouteFields
  <2> QED
    BY <1>1, <1>2, <1>3, <2>1 DEF RouteFits, RouteShape
<1>5. CASE RevertPlan /\ Routed = Profile
  <2>1. RouteShape /\ cmd.tool = "route" /\ cmd' = [cmd EXCEPT !.pc = "revert", !.snap = mdl, !.done = {}]
    BY <1>5, RouteWhere DEF RevertPlan, At
  <2>2. cmd'.pc = "revert" /\ cmd'.snap = mdl /\ cmd'.done = {} /\ RouteStays
    BY <2>1, RouteGoes DEF RouteShape, RouteFields
  <2>3. \A p \in Profile : RoutedIn(mdl[p])
    BY <1>5 DEF Routed, RoutedIn
  <2> QED
    BY <1>1, <1>2, <1>3, <2>1, <2>2, <2>3 DEF RouteFits, RouteShape, RouteStays
<1>6. CASE RemoveStop \/ (RevertPlan /\ Routed # Profile) \/ RevertBlocked \/ RevertDone \/ RouteCleanup
  <2>1. RouteShape /\ cmd.tool = "route"
    BY <1>6, RouteWhere DEF RemoveStop, RevertPlan, RevertBlocked, RevertDone, RouteCleanup, At
  <2>2. cmd' = Idle \/ \E pc \in {"plan", "blocked", "cleanup"} : Goto(pc)
    BY <1>6 DEF RemoveStop, RevertPlan, RevertBlocked, RevertDone, RouteCleanup, Finish
  <2>3. ASSUME NEW pc \in {"plan", "blocked", "cleanup"}, Goto(pc)
        PROVE  cmd'.tool = "route" /\ RouteFits'
    <3>1. cmd'.pc = pc /\ cmd'.snap = cmd.snap /\ cmd'.done = cmd.done /\ RouteStays
      BY <2>1, <2>3, RouteGoes DEF Goto, RouteShape, RouteFields
    <3> QED
      BY <2>1, <2>3, <3>1 DEF RouteFits, RouteShape, RouteStays
  <2> QED
    BY <1>2, <1>3, <2>2, <2>3
<1> QED
  BY <1>4, <1>5, <1>6

LEMMA RevertEdits ==
  ASSUME Base, RevertWrite \/ RevertRedo
  PROVE  RouteEdit /\ used' \in UsedSet /\ used'.edit = used.edit /\ (cmd' = Idle \/ (cmd'.tool = "route" /\ RouteFits'))
<1>1. /\ Types /\ used \in UsedSet /\ mdl \in [Profile -> {Nil} \cup ModelsFile] /\ RouteShape /\ cmd.tool = "route" /\ cfg' = cfg
      /\ \A p \in Profile : RoutedIn(cmd.snap[p])
  BY RouteWhere DEF Base, Types, UsedSet, RevertWrite, RevertRedo, At, RouteShape
<1>2. used' \in UsedSet /\ used'.edit = used.edit
  BY <1>1, CountFits DEF RevertWrite, RevertRedo, Failure
<1>3. \A p \in Profile : cmd.snap[p] \in ModelsFile
  BY <1>1, NoModels DEF RouteShape
<1>4. RouteEdit
  <2>1. CASE UNCHANGED mdl
    BY <1>1, <2>1, NoEdit
  <2>2. ASSUME NEW p \in Profile, mdl[p] = cmd.snap[p], mdl' = [mdl EXCEPT ![p] = Stripped(p, mdl[p], routes[p])]
        PROVE  RouteEdit
    <3> DEFINE n == Stripped(p, mdl[p], routes[p])
    <3>1. mdl[p] \in ModelsFile
      BY <1>3, <2>2
    <3>2. n \in {Nil} \cup ModelsFile /\ SmolIn(n) = SmolIn(mdl[p]) /\ HandIn(n) = HandIn(mdl[p])
      BY <3>1, StrippedFits
    <3>3. mdl' = [mdl EXCEPT ![p] = n]
      BY <2>2
    <3> HIDE DEF n
    <3> QED
      BY <1>1, <3>2, <3>3, OneEdit
  <2>3. ASSUME NEW p \in cmd.done, mdl[p] = Stripped(p, cmd.snap[p], routes[p]), mdl' = [mdl EXCEPT ![p] = cmd.snap[p]]
        PROVE  RouteEdit
    <3>1. p \in Profile /\ cmd.snap[p] \in ModelsFile
      BY <1>1, <1>3 DEF RouteShape
    <3>2. SmolIn(mdl[p]) = SmolIn(cmd.snap[p]) /\ HandIn(mdl[p]) = HandIn(cmd.snap[p])
      BY <2>3, <3>1, StrippedFits
    <3> QED
      BY <1>1, <2>3, <3>1, <3>2, OneEdit
  <2>4. CASE RevertWrite
    BY <2>1, <2>2, <2>4 DEF RevertWrite
  <2>5. CASE RevertRedo
    BY <2>1, <2>3, <2>5 DEF RevertRedo
  <2> QED
    BY <2>4, <2>5
<1>5. Goto("redo") \/ Goto("blocked") \/ \E d \in SUBSET Profile : cmd' = [cmd EXCEPT !.done = d]
  BY <1>1 DEF RevertWrite, RevertRedo, RouteShape
<1>6. ASSUME NEW pc \in {"redo", "blocked"}, Goto(pc)
      PROVE  cmd'.tool = "route" /\ RouteFits'
  <2>1. cmd'.pc = pc /\ cmd'.snap = cmd.snap /\ cmd'.done = cmd.done /\ RouteStays
    BY <1>1, <1>6, RouteGoes DEF Goto, RouteShape, RouteFields
  <2> QED
    BY <1>1, <2>1 DEF RouteFits, RouteShape, RouteStays
<1>7. ASSUME NEW d \in SUBSET Profile, cmd' = [cmd EXCEPT !.done = d]
      PROVE  cmd'.tool = "route" /\ RouteFits'
  <2>1. cmd'.pc = cmd.pc /\ cmd'.snap = cmd.snap /\ cmd'.done = d /\ RouteStays
    BY <1>1, <1>7, RouteGoes DEF RouteShape, RouteFields
  <2> QED
    BY <1>1, <2>1 DEF RouteFits, RouteShape, RouteStays
<1> QED
  BY <1>2, <1>4, <1>5, <1>6, <1>7

LEMMA StopFits ==
  ASSUME Base, Start \/ StopBegin \/ StopEnd
  PROVE  RouteEdit /\ used' \in UsedSet /\ used'.edit = used.edit
         /\ (cmd' = Idle \/ (cmd'.tool = "route" /\ RouteFits'))
<1>1. Types /\ used \in UsedSet
  BY DEF Base, Types, UsedSet
<1>2. RouteEdit
  BY <1>1, NoEdit DEF Start, StopBegin, StopEnd
<1>3. used' \in UsedSet /\ used'.edit = used.edit
  BY <1>1, CountFits DEF Start, StopBegin, StopEnd, Begin
<1>4. CASE StopBegin
  BY <1>2, <1>3, <1>4 DEF StopBegin, Begin, RouteFits
<1> QED
  BY <1>2, <1>3, <1>4 DEF Start, StopEnd, Finish

\* Whatever install, remove, start and stop do.
LEMMA RoutesEdit ==
  ASSUME Base, RoutesNext
  PROVE  RouteEdit /\ used' \in UsedSet /\ used'.edit = used.edit
         /\ (cmd' = Idle \/ (cmd'.tool = "route" /\ RouteFits'))
         /\ quiet' = quiet /\ mishap \subseteq mishap'
<1>1. quiet' = quiet /\ mishap \subseteq mishap'
  BY DEF RoutesNext, InstallBegin, InstallWrite, InstallUndo, InstallManifest, InstallService, InstallReadback, InstallRecover,
         RemoveBegin, RemoveStop, RevertPlan, RevertWrite, RevertRedo, RevertBlocked, RevertDone, RouteCleanup, Start, StopBegin, StopEnd
<1> QED
  BY <1>1, InstallFits, InstallEdits, RevertFits, RevertEdits, StopFits DEF RoutesNext

LEMMA RoutesStep ==
  ASSUME Base, RoutesNext, UNCHANGED <<presetVars, smolVars>>
  PROVE  Base'
<1>1. Types'
  BY RoutesEdit, TypesKeep DEF Base, Types, RouteEdit, presetVars, smolVars
<1> QED
  BY <1>1, RoutesEdit, Idles, OfRoute

(***************************************************************************)
(* The smol role.                                                          *)
(***************************************************************************)
\* A step of the smol role touches a file in its smol line or block only.
SmolEdit ==
  /\ cfg' \in [Profile -> ConfigFile] /\ mdl' \in [Profile -> {Nil} \cup ModelsFile]
  /\ \A p \in Profile : /\ cfg'[p].hand = cfg[p].hand /\ HandIn(mdl'[p]) = HandIn(mdl[p])
                        /\ RoutedIn(mdl'[p]) <=> RoutedIn(mdl[p])

LEMMA NoSmolEdit == Types /\ UNCHANGED <<cfg, mdl>> => SmolEdit
BY DEF Types, SmolEdit

LEMMA OneSmolEdit ==
  ASSUME Types, cfg' = cfg, NEW p \in Profile, NEW n \in {Nil} \cup ModelsFile, mdl' = [mdl EXCEPT ![p] = n],
         RoutedIn(n) <=> RoutedIn(mdl[p]), HandIn(n) = HandIn(mdl[p])
  PROVE  SmolEdit /\ mdl'[p] = n /\ \A q \in Profile : q # p => mdl'[q] = mdl[q]
BY DEF Types, SmolEdit

LEMMA OneLineEdit ==
  ASSUME Types, mdl' = mdl, NEW p \in Profile, NEW v \in SmolValue, cfg' = [cfg EXCEPT ![p].smol = v]
  PROVE  SmolEdit /\ cfg'[p].smol = v /\ \A q \in Profile : q # p => cfg'[q] = cfg[q]
<1> DEFINE n == [cfg[p] EXCEPT !.smol = v]
<1>1. cfg \in [Profile -> ConfigFile] /\ cfg' = [cfg EXCEPT ![p] = n]
  BY DEF Types
<1>2. n \in ConfigFile /\ n.hand = cfg[p].hand /\ n.smol = v
  BY <1>1 DEF ConfigFile
<1> HIDE DEF n
<1>3. cfg' \in [Profile -> ConfigFile] /\ cfg'[p] = n /\ \A q \in Profile : q # p => cfg'[q] = cfg[q]
  BY <1>1, <1>2
<1> QED
  BY <1>2, <1>3 DEF Types, SmolEdit

\* The rest of the types after a step of the smol role.
LEMMA SmolTypes ==
  ASSUME Types, SmolEdit, used' \in UsedSet, UNCHANGED manifests,
         smolState' # Nil => DOMAIN smolState' = {"model", "profiles"} /\ smolState'.model \in SmolModel,
         Recorded' => smolState'.profiles \in [Profile -> SmolRecord]
  PROVE  Types'
BY DEF Types, UsedSet, SmolEdit

LEMMA SmolKeeps ==
  ASSUME Types, SmolEdit, used' \in UsedSet, UNCHANGED <<manifests, smolState>>
  PROVE  Types' /\ (Recorded' <=> Recorded)
BY SmolTypes DEF Types, Recorded

LEMMA SetWhere ==
  ASSUME Base, NEW pc \in {"start", "check", "next", "line"}, At("smol", pc)
  PROVE  /\ Types /\ cmd.tool = "smol" /\ SmolFits /\ DOMAIN cmd = SetFields /\ cmd.pc = pc /\ used \in UsedSet
         /\ DOMAIN cmd.new = {"model", "profiles"} /\ cmd.new.model \in SmolModel /\ cmd.new.profiles = Nil
         /\ cmd.prior # Nil => cmd.prior \in [Profile -> SmolRecord]
         /\ cmd.done \in [Profile -> {Nil} \cup SmolRecord] /\ cmd.left \subseteq Profile
         /\ cmd.pc = "line" => cmd.at \in cmd.left /\ cmd.done[cmd.at] \in SmolRecord
         /\ \A p \in Profile \ cmd.left : cmd.done[p] \in SmolRecord
BY DEF Base, CmdFits, SmolFits, At, Types, UsedSet, SetFields, RevertFields

LEMMA RevertWhere ==
  ASSUME Base, NEW pc \in {"unline", "unblock", "halt"}, At("smol", pc)
  PROVE  /\ Types /\ cmd.tool = "smol" /\ SmolFits /\ DOMAIN cmd = RevertFields /\ cmd.pc = pc /\ used \in UsedSet
         /\ cmd.left \subseteq Profile /\ Recorded /\ (cmd.pc = "unblock" => cmd.at \in cmd.left)
BY DEF Base, CmdFits, SmolFits, At, Types, UsedSet, SetFields, RevertFields

LEMMA SetStep ==
  ASSUME Base, SmolSet, UNCHANGED presetVars
  PROVE  Base' /\ SmolEdit /\ used'.edit = used.edit
<1>1. PICK m \in SmolModel :
        /\ cmd' = [tool |-> "smol", pc |-> "start", new |-> [model |-> m, profiles |-> Nil],
                   prior |-> IF Recorded THEN smolState.profiles ELSE Nil, done |-> [p \in Profile |-> Nil],
                   left |-> Profile, at |-> Nil]
        /\ Count("command") /\ UNCHANGED <<cfg, mdl, manifests, smolState>>
  BY DEF SmolSet, Begin, presetVars
<1>2. Types /\ used' \in UsedSet /\ used'.edit = used.edit
  BY <1>1, CountFits DEF Base, Types, UsedSet
<1>3. SmolEdit
  BY <1>1, <1>2, NoSmolEdit
<1>4. Types'
  BY <1>1, <1>2, <1>3, SmolKeeps
<1>5. /\ DOMAIN cmd' = SetFields /\ cmd'.tool = "smol" /\ cmd'.pc = "start" /\ cmd'.left = Profile
      /\ cmd'.done \in [Profile -> {Nil} \cup SmolRecord]
      /\ DOMAIN cmd'.new = {"model", "profiles"} /\ cmd'.new.model \in SmolModel /\ cmd'.new.profiles = Nil
      /\ cmd'.prior = IF Recorded THEN smolState.profiles ELSE Nil
  BY <1>1 DEF SetFields
<1>6. cmd'.prior # Nil => cmd'.prior \in [Profile -> SmolRecord]
  BY <1>2, <1>5 DEF Types
<1>7. SmolFits'
  BY <1>5, <1>6 DEF SmolFits
<1> QED
  BY <1>2, <1>3, <1>4, <1>5, <1>7, OfSmol

LEMMA StartStep ==
  ASSUME Base, SmolStart, UNCHANGED presetVars
  PROVE  Base' /\ SmolEdit /\ used'.edit = used.edit
<1>1. /\ Types /\ cmd.tool = "smol" /\ DOMAIN cmd = SetFields /\ cmd.pc = "start" /\ used \in UsedSet
      /\ SmolFits /\ DOMAIN cmd.new = {"model", "profiles"} /\ cmd.new.model \in SmolModel /\ cmd.new.profiles = Nil
  BY SetWhere DEF SmolStart
<1>2. SmolEdit /\ UNCHANGED manifests
  BY <1>1, NoSmolEdit DEF SmolStart, presetVars
<1>3. CASE StartServer(cmd.new) /\ Goto("check") /\ UNCHANGED used
  <2>1. smolState' = smolState \/ smolState' = cmd.new
    BY <1>3 DEF StartServer, smolVars
  <2>2. Types'
    BY <1>1, <1>2, <1>3, <2>1, SmolTypes, SmolKeeps DEF Recorded
  <2>3. /\ DOMAIN cmd' = SetFields /\ cmd'.tool = "smol" /\ cmd'.pc = "check" /\ cmd'.left = cmd.left
        /\ cmd'.done = cmd.done /\ cmd'.new = cmd.new /\ cmd'.prior = cmd.prior
    BY <1>1, <1>3 DEF Goto, SetFields
  <2>4. SmolFits'
    BY <1>1, <2>3 DEF SmolFits, SetFields, RevertFields
  <2> QED
    BY <1>2, <1>3, <2>2, <2>3, <2>4, OfSmol
<1>4. CASE Count("failure") /\ Finish /\ UNCHANGED smolVars
  <2>1. used' \in UsedSet /\ used'.edit = used.edit
    BY <1>1, <1>4, CountFits
  <2>2. Types'
    BY <1>1, <1>2, <1>4, <2>1, SmolKeeps DEF smolVars
  <2> QED
    BY <1>2, <1>4, <2>1, <2>2, Idles DEF Finish
<1> QED
  BY <1>3, <1>4 DEF SmolStart

LEMMA CheckStep ==
  ASSUME Base, SmolCheck, UNCHANGED presetVars
  PROVE  Base' /\ SmolEdit /\ used'.edit = used.edit
<1>1. Types /\ cmd.tool = "smol" /\ DOMAIN cmd = SetFields /\ cmd.pc = "check" /\ used \in UsedSet /\ SmolFits
  BY SetWhere DEF SmolCheck
<1>2. SmolEdit /\ UNCHANGED <<manifests, smolState>>
  BY <1>1, NoSmolEdit DEF SmolCheck, presetVars, smolVars
<1>3. used' \in UsedSet /\ used'.edit = used.edit
  BY <1>1, CountFits DEF SmolCheck
<1>4. Types' /\ (Recorded' <=> Recorded)
  BY <1>1, <1>2, <1>3, SmolKeeps
<1>5. CASE Goto("next")
  <2>1. /\ DOMAIN cmd' = SetFields /\ cmd'.tool = "smol" /\ cmd'.pc = "next" /\ cmd'.left = cmd.left
        /\ cmd'.done = cmd.done /\ cmd'.new = cmd.new /\ cmd'.prior = cmd.prior
    BY <1>1, <1>5 DEF Goto, SetFields
  <2>2. SmolFits'
    BY <1>1, <2>1 DEF SmolFits, SetFields, RevertFields
  <2> QED
    BY <1>2, <1>3, <1>4, <2>1, <2>2, OfSmol
<1> QED
  BY <1>2, <1>3, <1>4, <1>5, Idles DEF SmolCheck, Finish

LEMMA BlockStep ==
  ASSUME Base, SmolBlock, UNCHANGED presetVars
  PROVE  /\ Base' /\ SmolEdit /\ used' = used
         /\ \E p \in cmd.left :
              /\ cmd' = [cmd EXCEPT !.pc = "line", !.at = p, !.done[p] = Record(p)] /\ Record(p) \in SmolRecord
              /\ cmd'.at = p /\ cmd'.pc = "line" /\ cmd'.left = cmd.left /\ cmd'.new = cmd.new
              /\ cmd'.done[p] = Record(p) /\ (\A q \in Profile : q # p => cmd'.done[q] = cmd.done[q])
              /\ Record(p).previous \in SmolModel => "forgot" \in mishap'
              /\ cfg' = cfg /\ SmolIn(mdl'[p]) = cmd.new.model /\ (\A q \in Profile : q # p => mdl'[q] = mdl[q])
<1>1. /\ Types /\ cmd.tool = "smol" /\ DOMAIN cmd = SetFields /\ cmd.pc = "next" /\ used \in UsedSet /\ SmolFits
      /\ cmd.new.model \in SmolModel /\ (cmd.prior # Nil => cmd.prior \in [Profile -> SmolRecord])
      /\ cmd.done \in [Profile -> {Nil} \cup SmolRecord] /\ cmd.left \subseteq Profile
  BY SetWhere DEF SmolBlock
<1>2. UNCHANGED <<cfg, used, manifests, smolState>>
  BY DEF SmolBlock, presetVars, smolVars
<1>3. PICK p \in cmd.left :
       /\ mdl' = [mdl EXCEPT ![p] = [ModelsOf(mdl, p) EXCEPT !.smol = cmd.new.model]]
       /\ cmd' = [cmd EXCEPT !.pc = "line", !.at = p, !.done[p] = Record(p)]
       /\ mishap' = IF Record(p).previous \in SmolModel THEN mishap \cup {"forgot"} ELSE mishap
  BY DEF SmolBlock
<1>4. p \in Profile /\ mdl[p] \in {Nil} \cup ModelsFile /\ cfg[p] \in ConfigFile
  BY <1>1 DEF Types
<1>5. Record(p) \in SmolRecord
  BY <1>1, <1>4 DEF Record, SmolRecord, ConfigFile
<1> DEFINE n == [Opened(mdl[p]) EXCEPT !.smol = cmd.new.model]
<1>6. mdl' = [mdl EXCEPT ![p] = n]
  BY <1>3 DEF ModelsOf, Opened
<1>7. n \in ModelsFile /\ SmolIn(n) = cmd.new.model /\ HandIn(n) = HandIn(mdl[p]) /\ (RoutedIn(n) <=> RoutedIn(mdl[p]))
  BY <1>1, <1>4, EditSmol
<1> HIDE DEF n
<1>8. SmolEdit /\ mdl'[p] = n /\ \A q \in Profile : q # p => mdl'[q] = mdl[q]
  BY <1>1, <1>2, <1>4, <1>6, <1>7, OneSmolEdit
<1>9. Types' /\ (Recorded' <=> Recorded)
  BY <1>1, <1>2, <1>8, SmolKeeps
<1> DEFINE d == [cmd.done EXCEPT ![p] = Record(p)]
<1>10. d \in [Profile -> {Nil} \cup SmolRecord] /\ d[p] = Record(p) /\ \A q \in Profile : q # p => d[q] = cmd.done[q]
  BY <1>1, <1>4, <1>5
<1>11. cmd' = [cmd EXCEPT !.pc = "line", !.at = p, !.done = d]
  BY <1>3
<1> HIDE DEF d
<1>12. /\ DOMAIN cmd' = SetFields /\ cmd'.tool = "smol" /\ cmd'.pc = "line" /\ cmd'.left = cmd.left /\ cmd'.at = p
       /\ cmd'.done = d /\ cmd'.new = cmd.new /\ cmd'.prior = cmd.prior
  BY <1>1, <1>11 DEF SetFields
<1>13. SmolFits'
  BY <1>1, <1>5, <1>10, <1>12 DEF SmolFits, SetFields, RevertFields
<1>14. Base'
  BY <1>9, <1>12, <1>13, OfSmol
<1> QED
  BY <1>2, <1>3, <1>5, <1>7, <1>8, <1>10, <1>12, <1>14

LEMMA LineStep ==
  ASSUME Base, SmolLine, UNCHANGED presetVars
  PROVE  /\ Base' /\ SmolEdit /\ used' = used /\ mishap' = mishap /\ mdl' = mdl
         /\ cmd.at \in Profile /\ cfg'[cmd.at].smol = cmd.new.model
         /\ cmd'.pc = "next" /\ cmd'.left = cmd.left \ {cmd.at} /\ cmd'.new = cmd.new /\ cmd'.done = cmd.done
         /\ \A q \in Profile : q # cmd.at => cfg'[q] = cfg[q]
<1>1. /\ Types /\ cmd.tool = "smol" /\ DOMAIN cmd = SetFields /\ cmd.pc = "line" /\ used \in UsedSet /\ SmolFits
      /\ cmd.new.model \in SmolModel /\ cmd.left \subseteq Profile /\ cmd.at \in cmd.left /\ cmd.done[cmd.at] \in SmolRecord
      /\ \A p \in Profile \ cmd.left : cmd.done[p] \in SmolRecord
  BY SetWhere DEF SmolLine
<1>2. UNCHANGED <<mdl, used, mishap, manifests, smolState>>
  BY DEF SmolLine, presetVars, smolVars
<1>3. cmd.new.model \in SmolValue /\ cmd.at \in Profile /\ cfg' = [cfg EXCEPT ![cmd.at].smol = cmd.new.model]
  BY <1>1 DEF SmolLine, Selector, SmolValue
<1>4. SmolEdit /\ cfg'[cmd.at].smol = cmd.new.model /\ \A q \in Profile : q # cmd.at => cfg'[q] = cfg[q]
  BY <1>1, <1>2, <1>3, OneLineEdit
<1>5. Types' /\ (Recorded' <=> Recorded)
  BY <1>1, <1>2, <1>4, SmolKeeps
<1>6. /\ DOMAIN cmd' = SetFields /\ cmd'.tool = "smol" /\ cmd'.pc = "next" /\ cmd'.left = cmd.left \ {cmd.at}
      /\ cmd'.done = cmd.done /\ cmd'.new = cmd.new /\ cmd'.prior = cmd.prior
  BY <1>1 DEF SetFields, SmolLine
<1>7. SmolFits'
  BY <1>1, <1>6 DEF SmolFits, SetFields, RevertFields
<1> QED
  BY <1>2, <1>3, <1>4, <1>5, <1>6, <1>7, OfSmol

LEMMA SaveStep ==
  ASSUME Base, SmolSave, UNCHANGED presetVars
  PROVE  /\ Base' /\ SmolEdit /\ used' = used
         /\ smolState' # Nil => smolState'.model = cmd.new.model /\ smolState'.profiles = cmd.done
<1>1. /\ Types /\ cmd.tool = "smol" /\ cmd.pc = "next" /\ used \in UsedSet /\ cmd.left = {}
      /\ DOMAIN cmd.new = {"model", "profiles"} /\ cmd.new.model \in SmolModel
      /\ cmd.done \in [Profile -> {Nil} \cup SmolRecord] /\ \A p \in Profile : cmd.done[p] \in SmolRecord
  BY SetWhere DEF SmolSave
<1>2. UNCHANGED <<cfg, mdl, used, manifests>> /\ cmd' = Idle
  BY DEF SmolSave, presetVars, Finish
<1>3. SmolEdit
  BY <1>1, <1>2, NoSmolEdit
<1>4. DOMAIN smolState' = {"model", "profiles"} /\ smolState'.model = cmd.new.model /\ smolState'.profiles = cmd.done
  BY <1>1 DEF SmolSave
<1>5. cmd.done \in [Profile -> SmolRecord]
  BY <1>1
<1>6. Types'
  BY <1>1, <1>2, <1>3, <1>4, <1>5, SmolTypes
<1> QED
  BY <1>2, <1>3, <1>4, <1>6, Idles

LEMMA RevertStep ==
  ASSUME Base, SmolRevert, UNCHANGED presetVars
  PROVE  Base' /\ SmolEdit /\ used'.edit = used.edit
<1>1. /\ cmd' = [tool |-> "smol", pc |-> "unline", left |-> Profile, at |-> Nil] /\ Recorded
      /\ Count("command") /\ UNCHANGED <<cfg, mdl, manifests, smolState>>
  BY DEF SmolRevert, Begin, presetVars, smolVars
<1>2. Types /\ used' \in UsedSet /\ used'.edit = used.edit
  BY <1>1, CountFits DEF Base, Types, UsedSet
<1>3. SmolEdit
  BY <1>1, <1>2, NoSmolEdit
<1>4. Types' /\ Recorded'
  BY <1>1, <1>2, <1>3, SmolKeeps
<1>5. SmolFits'
  BY <1>1, <1>4 DEF SmolFits, RevertFields
<1> QED
  BY <1>1, <1>2, <1>3, <1>4, <1>5, OfSmol

LEMMA UnlineStep ==
  ASSUME Base, SmolUnline, UNCHANGED presetVars
  PROVE  /\ Base' /\ SmolEdit /\ used' = used
         /\ \E p \in cmd.left :
              /\ p \in Profile /\ cmd'.pc = "unblock" /\ cmd'.at = p /\ mdl' = mdl
              /\ \/ cfg[p].smol # smolState.model /\ cfg' = cfg
                 \/ cfg'[p].smol = smolState.profiles[p].previous
              /\ \A q \in Profile : q # p => cfg'[q] = cfg[q]
<1>1. /\ Types /\ cmd.tool = "smol" /\ DOMAIN cmd = RevertFields /\ cmd.pc = "unline" /\ used \in UsedSet /\ SmolFits
      /\ cmd.left \subseteq Profile /\ Recorded
  BY RevertWhere DEF SmolUnline
<1>2. UNCHANGED <<mdl, used, manifests, smolState>>
  BY DEF SmolUnline, presetVars, smolVars
<1>3. PICK p \in cmd.left :
       /\ cfg' = IF cfg[p].smol = smolState.model
                 THEN [cfg EXCEPT ![p].smol = smolState.profiles[p].previous] ELSE cfg
       /\ cmd' = [cmd EXCEPT !.pc = "unblock", !.at = p]
  BY DEF SmolUnline, Selector
<1>4. p \in Profile /\ smolState.profiles[p].previous \in SmolValue
  BY <1>1 DEF Types, SmolRecord
<1>5. /\ SmolEdit /\ \A q \in Profile : q # p => cfg'[q] = cfg[q]
      /\ \/ cfg[p].smol # smolState.model /\ cfg' = cfg
         \/ cfg'[p].smol = smolState.profiles[p].previous
  <2>1. CASE cfg' = cfg /\ cfg[p].smol # smolState.model
    BY <1>1, <1>2, <2>1, NoSmolEdit
  <2>2. CASE cfg' = [cfg EXCEPT ![p].smol = smolState.profiles[p].previous]
    <3> DEFINE v == smolState.profiles[p].previous
    <3>1. cfg' = [cfg EXCEPT ![p].smol = v] /\ v \in SmolValue
      BY <1>4, <2>2
    <3> HIDE DEF v
    <3>2. SmolEdit /\ cfg'[p].smol = v /\ \A q \in Profile : q # p => cfg'[q] = cfg[q]
      BY <1>1, <1>2, <1>4, <3>1, OneLineEdit
    <3> QED
      BY <3>2 DEF v
  <2> QED
    BY <1>3, <2>1, <2>2
<1>6. Types' /\ (Recorded' <=> Recorded)
  BY <1>1, <1>2, <1>5, SmolKeeps
<1>7. /\ DOMAIN cmd' = RevertFields /\ cmd'.tool = "smol" /\ cmd'.pc = "unblock" /\ cmd'.left = cmd.left /\ cmd'.at = p
  BY <1>1, <1>3 DEF RevertFields
<1>8. SmolFits'
  BY <1>1, <1>6, <1>7 DEF SmolFits
<1>9. Base'
  BY <1>6, <1>7, <1>8, OfSmol
<1> QED
  BY <1>2, <1>4, <1>5, <1>7, <1>9

LEMMA UnblockStep ==
  ASSUME Base, SmolUnblock, UNCHANGED presetVars
  PROVE  /\ Base' /\ SmolEdit /\ used' = used /\ mishap' = mishap /\ cfg' = cfg
         /\ cmd.at \in Profile /\ cmd'.pc \in {"halt", "unline"}
         /\ SmolIn(mdl'[cmd.at]) = Nil
         /\ \A q \in Profile : q # cmd.at => mdl'[q] = mdl[q]
<1>1. /\ Types /\ cmd.tool = "smol" /\ DOMAIN cmd = RevertFields /\ cmd.pc = "unblock" /\ used \in UsedSet /\ SmolFits
      /\ cmd.left \subseteq Profile /\ cmd.at \in cmd.left /\ Recorded
  BY RevertWhere DEF SmolUnblock
<1>2. UNCHANGED <<cfg, used, mishap, manifests, smolState>>
  BY DEF SmolUnblock, presetVars, smolVars
<1> DEFINE p == cmd.at
           rest == [Opened(mdl[p]) EXCEPT !.smol = Nil]
           n == IF mdl[p] = Nil \/ (smolState.profiles[p].created /\ Blank(rest)) THEN Nil ELSE rest
<1>3. mdl' = [mdl EXCEPT ![p] = n]
  BY DEF SmolUnblock, ModelsOf, Opened
<1>4. p \in Profile /\ mdl[p] \in {Nil} \cup ModelsFile
  BY <1>1 DEF Types
<1>5. rest \in ModelsFile /\ SmolIn(rest) = Nil /\ HandIn(rest) = HandIn(mdl[p]) /\ (RoutedIn(rest) <=> RoutedIn(mdl[p]))
  BY <1>4, EditSmol
<1>6. n = rest \/ (n = Nil /\ mdl[p] = Nil) \/ (n = Nil /\ Blank(rest))
  <2> HIDE DEF rest
  <2> QED
    OBVIOUS
<1> HIDE DEF n, rest
<1>7. n \in {Nil} \cup ModelsFile /\ SmolIn(n) = Nil /\ HandIn(n) = HandIn(mdl[p]) /\ (RoutedIn(n) <=> RoutedIn(mdl[p]))
  <2>1. CASE n = Nil /\ Blank(rest)
    <3>1. HandIn(rest) = {} /\ ~RoutedIn(rest)
      BY <1>5, <2>1, RealModels DEF Blank
    <3> QED
      BY <1>5, <2>1, <3>1, NoModels
  <2> QED
    BY <1>5, <1>6, <2>1, NoModels
<1> HIDE DEF p
<1>8. SmolEdit /\ mdl'[p] = n /\ \A q \in Profile : q # p => mdl'[q] = mdl[q]
  BY <1>1, <1>2, <1>3, <1>4, <1>7, OneSmolEdit
<1>9. Types' /\ (Recorded' <=> Recorded)
  BY <1>1, <1>2, <1>8, SmolKeeps
<1>10. /\ DOMAIN cmd' = RevertFields /\ cmd'.tool = "smol" /\ cmd'.pc \in {"halt", "unline"} /\ cmd'.left \subseteq cmd.left
  BY <1>1 DEF RevertFields, SmolUnblock
<1>11. SmolFits'
  BY <1>1, <1>9, <1>10 DEF SmolFits
<1>12. Base'
  BY <1>9, <1>10, <1>11, OfSmol
<1> QED
  BY <1>2, <1>4, <1>7, <1>8, <1>10, <1>12 DEF p

LEMMA HaltStep ==
  ASSUME Base, SmolHalt, UNCHANGED presetVars
  PROVE  /\ Base' /\ SmolEdit /\ used'.edit = used.edit /\ cmd' = Idle
         /\ smolState' = smolState \/ smolState' = Nil
<1>1. Types /\ used \in UsedSet
  BY RevertWhere DEF SmolHalt
<1>2. UNCHANGED <<cfg, mdl, manifests>> /\ cmd' = Idle
  BY DEF SmolHalt, presetVars, Finish
<1>3. smolState' = smolState \/ smolState' = Nil
  BY DEF SmolHalt, smolVars
<1>4. used' \in UsedSet /\ used'.edit = used.edit
  BY <1>1, CountFits DEF SmolHalt
<1>5. SmolEdit
  BY <1>1, <1>2, NoSmolEdit
<1>6. Types'
  <2>1. CASE smolState' = smolState
    BY <1>1, <1>2, <1>4, <1>5, <2>1, SmolKeeps
  <2>2. CASE smolState' = Nil
    BY <1>1, <1>2, <1>4, <1>5, <2>2, SmolTypes DEF Recorded
  <2> QED
    BY <1>3, <2>1, <2>2
<1> QED
  BY <1>2, <1>3, <1>4, <1>5, <1>6, Idles

LEMMA ServerStep ==
  ASSUME Base, SmolServer, UNCHANGED presetVars
  PROVE  Base' /\ SmolEdit /\ used'.edit = used.edit /\ UNCHANGED <<cfg, mdl, smolState, mishap>> /\ cmd' = Idle
<1>1. Types /\ used \in UsedSet
  BY DEF Base, Types, UsedSet
<1>2. UNCHANGED <<cfg, mdl, manifests, mishap>> /\ cmd' = Idle
  BY DEF SmolServer, presetVars
<1>3. smolState' = smolState
  BY DEF SmolServer, StartServer, smolVars
<1>4. used' \in UsedSet /\ used'.edit = used.edit
  BY <1>1, CountFits DEF SmolServer
<1>5. SmolEdit
  BY <1>1, <1>2, NoSmolEdit
<1>6. Types'
  BY <1>1, <1>2, <1>3, <1>4, <1>5, SmolKeeps
<1> QED
  BY <1>2, <1>3, <1>4, <1>5, <1>6, Idles

LEMMA SmolStep ==
  ASSUME Base, SmolNext, UNCHANGED presetVars
  PROVE  Base' /\ SmolEdit /\ used'.edit = used.edit /\ quiet' = quiet /\ mishap \subseteq mishap'
<1>1. quiet' = quiet /\ mishap \subseteq mishap'
  BY DEF SmolNext, SmolSet, SmolStart, SmolCheck, SmolBlock, SmolLine, SmolSave, SmolRevert, SmolUnline, SmolUnblock,
         SmolHalt, SmolServer
<1>2. CASE SmolSet \/ SmolStart \/ SmolCheck \/ SmolRevert
  BY <1>1, <1>2, SetStep, StartStep, CheckStep, RevertStep
<1>3. CASE SmolBlock \/ SmolLine \/ SmolSave
  BY <1>1, <1>3, BlockStep, LineStep, SaveStep
<1>4. CASE SmolUnline \/ SmolUnblock \/ SmolHalt \/ SmolServer
  BY <1>1, <1>4, UnlineStep, UnblockStep, HaltStep, ServerStep
<1> QED
  BY <1>2, <1>3, <1>4 DEF SmolNext

LEMMA PresetsStep ==
  ASSUME Base, PresetsNext, UNCHANGED smolVars
  PROVE  Base'
BY PlanStep, BackupStep, WriteStepFits, ReadbackStep, CommitStep, RecordStep, RestoreStep, RestoredStep, RollbackStep,
   RollbackEnds DEF PresetsNext

LEMMA BaseInit == Init => Base
<1> SUFFICES ASSUME Init
             PROVE  Base
  OBVIOUS
<1>1. manifests = <<>> /\ smolState = Nil /\ cmd = Idle
  BY DEF Init, PresetsInit, SmolInit, FilesInit
<1>2. cfg \in [Profile -> ConfigFile]
  BY DEF Init, FilesInit, ConfigFile, PresetValue, SmolValue
<1>3. mdl \in [Profile -> {Nil} \cup ModelsFile]
  <2>1. EmptyModels \in ModelsFile
    BY DEF EmptyModels, ModelsFile, PresetValue
  <2> HIDE DEF EmptyModels
  <2> QED
    BY <2>1 DEF Init, FilesInit
<1>4. used \in UsedSet
  BY DEF Init, FilesInit, UsedSet
<1>5. IsSeq(manifests) /\ DOMAIN manifests = {}
  BY <1>1, EmptySeq DEF IsSeq
<1>6. Types
  BY <1>1, <1>2, <1>3, <1>4, <1>5 DEF Types, UsedSet, Recorded
<1> QED
  BY <1>1, <1>6 DEF Base, CmdFits, ApplyFits, RollbackFits, RouteFits, SmolFits, Idle

LEMMA BaseNext == Base /\ [Next]_vars => Base'
<1> SUFFICES ASSUME Base, [Next]_vars
             PROVE  Base'
  OBVIOUS
<1>1. CASE PresetsNext /\ UNCHANGED <<routeVars, smolVars>>
  BY <1>1, PresetsStep
<1>2. CASE RoutesNext /\ UNCHANGED <<presetVars, smolVars>>
  BY <1>2, RoutesStep
<1>3. CASE SmolNext /\ UNCHANGED <<presetVars, routeVars>>
  BY <1>3, SmolStep
<1>4. CASE (HandEdit \/ Death) /\ UNCHANGED <<presetVars, routeVars, smolVars>>
  BY <1>4, WorldStep
<1>5. CASE UNCHANGED vars
  <2>1. UNCHANGED <<cfg, mdl, cmd, mishap, used, manifests, smolState>>
    BY <1>5 DEF vars, fileVars, presetVars, smolVars
  <2>2. used' \in UsedSet
    BY <2>1 DEF Base, Types, UsedSet
  <2>3. Types'
    BY <2>1, <2>2, TypesKeep DEF Base, Types
  <2> QED
    BY <2>1, <2>3, BesideFits, LikeAlways
<1> QED
  BY <1>1, <1>2, <1>3, <1>4, <1>5 DEF Next

\* Files, manifests and commands keep their shape, and what presets do not own
\* in models.yml is the same in a running preset command's backup.
THEOREM BaseHolds == Spec => []Base
  BY BaseInit, BaseNext, PTL DEF Spec

(***************************************************************************)
(* What people wrote between commands.                                     *)
(***************************************************************************)
\* The hand edits that one of the two files of a profile carries.
Hands(file, c, m) == IF file = "config" THEN c.hand ELSE HandIn(m)
\* A pair of files carries the edit q.
Carries(c, m, q) == q[3] \in Hands(q[2], c, m)

Done == 1..used.edit
\* A preset command that may put its backup back.
Armed ==
  \/ cmd.tool = "preset" /\ cmd.pc \in {"write", "commit", "restore"}
  \/ cmd.tool = "rollback"

EditsDone ==
  /\ \A q \in quiet : q[1] \in Profile /\ q[3] \in Done
  /\ \A p \in Profile : cfg[p].hand \subseteq Done /\ HandIn(mdl[p]) \subseteq Done

\* An applied preset's backup carries every edit that was there when it was
\* applied, so going back to it loses none but the later ones.
BackupCarries(m) ==
  \A p \in DOMAIN m.files :
    /\ m.files[p].config.hand \subseteq Done /\ HandIn(m.files[p].models) \subseteq Done
    /\ m.status = "applied" =>
         /\ m.sha[p].config.hand \subseteq Done /\ HandIn(m.sha[p].models) \subseteq Done
         /\ "lossy" \notin mishap => \A q \in quiet :
              q[1] = p /\ Carries(m.sha[p].config, m.sha[p].models, q) => Carries(m.files[p].config, m.files[p].models, q)

ItsCarries ==
  Armed /\ "lossy" \notin mishap =>
    \A q \in quiet : q[1] \in cmd.ps => Carries(Its.files[q[1]].config, Its.files[q[1]].models, q)

Kept == "lossy" \notin mishap => \A q \in quiet : Carries(cfg[q[1]], mdl[q[1]], q)

Survive == EditsDone /\ (\A i \in DOMAIN manifests : BackupCarries(manifests[i])) /\ ItsCarries /\ Kept

LEMMA HandsOf == \A f, c, m, d, n : c.hand = d.hand /\ HandIn(m) = HandIn(n) => Hands(f, c, m) = Hands(f, d, n)
BY DEF Hands

\* A step that leaves the hand edits, the manifests and what is armed alone.
LEMMA HandsKeep ==
  ASSUME Base, Survive, used' \in UsedSet, used'.edit = used.edit, UNCHANGED <<quiet, manifests>>, mishap \subseteq mishap',
         \A p \in Profile : cfg'[p].hand = cfg[p].hand /\ HandIn(mdl'[p]) = HandIn(mdl[p]),
         Armed' => Armed /\ cmd'.ps = cmd.ps /\ cmd'.id = cmd.id
  PROVE  Survive'
<1>1. Done' = Done
  BY DEF Done
<1>2. EditsDone'
  BY <1>1 DEF Survive, EditsDone
<1>3. \A i \in DOMAIN manifests : BackupCarries(manifests[i])'
  BY <1>1 DEF Survive, BackupCarries
<1>4. ItsCarries'
  BY DEF Survive, ItsCarries, Its
<1>5. Kept'
  BY HandsOf DEF Survive, EditsDone, Kept, Carries
<1> QED
  BY <1>2, <1>3, <1>4, <1>5 DEF Survive

LEMMA Disarmed == cmd' = Idle \/ cmd'.tool \notin {"preset", "rollback"} => ~Armed'
BY DEF Armed, Idle

\* Commands that do not restore files.
LEMMA SurviveRoutes ==
  ASSUME Base, Survive, RoutesNext, UNCHANGED <<presetVars, smolVars>>
  PROVE  Survive'
<1>1. RouteEdit /\ used' \in UsedSet /\ used'.edit = used.edit /\ quiet' = quiet /\ mishap \subseteq mishap'
  BY RoutesEdit
<1>2. ~Armed'
  BY RoutesEdit, Disarmed
<1> QED
  BY <1>1, <1>2, HandsKeep DEF RouteEdit, presetVars

LEMMA SmolTool ==
  ASSUME Base, SmolNext
  PROVE  cmd' = Idle \/ cmd'.tool = "smol"
<1>1. CASE SmolSet \/ SmolRevert
  BY <1>1 DEF SmolSet, SmolRevert, Begin
<1>2. CASE SmolHalt \/ SmolSave \/ SmolServer
  BY <1>2 DEF SmolHalt, SmolSave, SmolServer, Finish
<1>3. CASE SmolStart \/ SmolCheck \/ SmolBlock \/ SmolLine
  <2>1. cmd.tool = "smol" /\ DOMAIN cmd = SetFields
    BY <1>3, SetWhere DEF SmolStart, SmolCheck, SmolBlock, SmolLine
  <2> QED
    BY <1>3, <2>1 DEF SmolStart, SmolCheck, SmolBlock, SmolLine, Goto, Finish, SetFields
<1>4. CASE SmolUnline \/ SmolUnblock
  <2>1. cmd.tool = "smol" /\ DOMAIN cmd = RevertFields
    BY <1>4, RevertWhere DEF SmolUnline, SmolUnblock
  <2> QED
    BY <1>4, <2>1 DEF SmolUnline, SmolUnblock, RevertFields
<1> QED
  BY <1>1, <1>2, <1>3, <1>4 DEF SmolNext

LEMMA SurviveSmol ==
  ASSUME Base, Survive, SmolNext, UNCHANGED <<presetVars, routeVars>>
  PROVE  Survive'
<1>1. Base' /\ SmolEdit /\ used'.edit = used.edit /\ quiet' = quiet /\ mishap \subseteq mishap'
  BY SmolStep
<1>2. used' \in UsedSet
  BY <1>1 DEF Base, Types, UsedSet
<1>3. ~Armed'
  BY SmolTool, Disarmed
<1> QED
  BY <1>1, <1>2, <1>3, HandsKeep DEF SmolEdit, presetVars

LEMMA SurviveWorld ==
  ASSUME Base, Survive, HandEdit \/ Death, UNCHANGED <<presetVars, routeVars, smolVars>>
  PROVE  Survive'
<1>1. Types /\ used \in UsedSet
  BY DEF Base, Types, UsedSet
<1>2. CASE Death
  <2>1. used' \in UsedSet /\ used'.edit = used.edit
    BY <1>1, <1>2, CountFits DEF Death
  <2>2. ~Armed'
    BY <1>2, Disarmed DEF Death, Finish
  <2> QED
    BY <1>2, <2>1, <2>2, HandsKeep DEF Death, presetVars
<1>3. CASE HandEdit
  <2> DEFINE e == used.edit + 1
  <2>1. /\ used'.edit = e /\ used.edit \in Nat /\ UNCHANGED <<cmd, manifests>> /\ ("lossy" \in mishap' <=> "lossy" \in mishap)
        /\ cmd # Idle => quiet' = quiet
    BY <1>1, <1>3, EditFits DEF HandEdit, presetVars, UsedSet
  <2>2. \A p \in Profile :
          /\ HandIn(mdl[p]) \subseteq HandIn(mdl'[p]) /\ cfg[p].hand \subseteq cfg'[p].hand
          /\ HandIn(mdl'[p]) \subseteq HandIn(mdl[p]) \cup {e} /\ cfg'[p].hand \subseteq cfg[p].hand \cup {e}
    BY <1>1, <1>3, EditFits
  <2>3. quiet' = quiet \/ \E p \in Profile, f \in {"config", "models"} :
          /\ quiet' = quiet \cup {<<p, f, e>>}
          /\ e \in IF f = "config" THEN cfg'[p].hand ELSE HandIn(mdl'[p])
    BY <1>1, <1>3, EditFits
  <2>4. Done' = Done \cup {e} /\ e \notin Done
    BY <2>1 DEF Done
  <2> HIDE DEF e
  <2>5. \A q \in quiet' : q \in quiet \/ (q[1] \in Profile /\ q[3] = e /\ q[3] \in Hands(q[2], cfg'[q[1]], mdl'[q[1]]))
    BY <2>3 DEF Hands
  <2>6. EditsDone'
    BY <2>2, <2>4, <2>5 DEF Survive, EditsDone
  <2>7. ASSUME NEW i \in DOMAIN manifests
        PROVE  BackupCarries(manifests[i])'
    <3> DEFINE m == manifests[i]
    <3>1. m' = m /\ BackupCarries(m)
      BY <2>1 DEF Survive
    <3> HIDE DEF m
    <3>2. ASSUME NEW p \in DOMAIN m.files, m.status = "applied", "lossy" \notin mishap, NEW q \in quiet', q[1] = p,
                 Carries(m.sha[p].config, m.sha[p].models, q)
          PROVE  Carries(m.files[p].config, m.files[p].models, q)
      <4>1. q[3] \in Done
        BY <3>1, <3>2 DEF BackupCarries, Carries, Hands
      <4>2. q \in quiet
        BY <2>4, <2>5, <4>1
      <4> QED
        BY <3>1, <3>2, <4>2 DEF BackupCarries
    <3>3. BackupCarries(m)'
      <4>1. \A p \in DOMAIN m.files :
              /\ m.files[p].config.hand \subseteq Done' /\ HandIn(m.files[p].models) \subseteq Done'
              /\ m.status = "applied" =>
                   m.sha[p].config.hand \subseteq Done' /\ HandIn(m.sha[p].models) \subseteq Done'
        BY <2>4, <3>1 DEF BackupCarries
      <4> QED
        BY <2>1, <3>1, <3>2, <4>1 DEF BackupCarries
    <3> QED
      BY <3>3 DEF m
  <2>8. ItsCarries'
    <3>1. Armed' => quiet' = quiet /\ Armed
      BY <2>1 DEF Armed, Idle
    <3> QED
      BY <2>1, <3>1 DEF Survive, ItsCarries, Its
  <2>9. Kept'
    <3>1. ASSUME "lossy" \notin mishap, NEW q \in quiet, Carries(cfg[q[1]], mdl[q[1]], q)
          PROVE  Carries(cfg'[q[1]], mdl'[q[1]], q)
      BY <2>2, <3>1 DEF Survive, EditsDone, Carries, Hands
    <3> QED
      BY <2>1, <2>5, <3>1 DEF Survive, Kept, Carries
  <2> QED
    BY <2>1, <2>6, <2>7, <2>8, <2>9 DEF Survive
<1> QED
  BY <1>2, <1>3

\* An apply backs both files up, with every edit made before it.
LEMMA SurviveBackup ==
  ASSUME Base, Survive, ApplyBackup, UNCHANGED smolVars
  PROVE  Survive'
<1> DEFINE m == [name |-> cmd.name, status |-> "applying", files |-> Files(cmd.ps), sha |-> Nil,
                 previous |-> [p \in cmd.ps |-> applied[p][Preset[cmd.name].family]]]
<1>1. /\ cmd.tool = "preset" /\ cmd.pc = "backup" /\ manifests' = Append(manifests, m)
      /\ cmd' = [cmd EXCEPT !.pc = "write", !.id = Len(manifests) + 1, !.state = applied]
      /\ UNCHANGED <<cfg, mdl, used, mishap, quiet>>
  BY DEF ApplyBackup, At
<1>2. cmd.ps \subseteq Profile /\ DOMAIN cmd = ApplyFields /\ IsSeq(manifests)
  BY <1>1 DEF Base, CmdFits, ApplyFits, Types
<1>3. m.files = Files(cmd.ps) /\ m.status = "applying" /\ DOMAIN Files(cmd.ps) = cmd.ps
  BY DEF Files
<1>4. \A p \in cmd.ps : Files(cmd.ps)[p].config = cfg[p] /\ Files(cmd.ps)[p].models = mdl[p]
  BY DEF Files
<1> HIDE DEF m
<1>5. /\ DOMAIN manifests' = DOMAIN manifests \cup {Len(manifests')} /\ manifests'[Len(manifests')] = m
      /\ Len(manifests') = Len(manifests) + 1
  BY <1>1, <1>2, SeqAppend
<1>6. \A i \in DOMAIN manifests : manifests'[i] = manifests[i]
  BY <1>1, <1>2, SeqAppend
<1>7. Done' = Done
  BY <1>1 DEF Done
<1>8. EditsDone' /\ Kept'
  BY <1>1, <1>7 DEF Survive, EditsDone, Kept, Carries, Hands
<1>9. ASSUME NEW i \in DOMAIN manifests'
      PROVE  BackupCarries(manifests[i])'
  <2>1. CASE i \in DOMAIN manifests
    BY <1>1, <1>6, <1>7, <2>1 DEF Survive, BackupCarries, Carries, Hands
  <2>2. CASE i = Len(manifests')
    BY <1>1, <1>2, <1>3, <1>4, <1>5, <1>7, <2>2 DEF Survive, EditsDone, BackupCarries
  <2> QED
    BY <1>5, <2>1, <2>2
<1>10. cmd'.ps = cmd.ps /\ cmd'.id = Len(manifests')
  BY <1>1, <1>2, <1>5 DEF ApplyFields
<1>11. ItsCarries'
  <2>1. Its' = m
    BY <1>5, <1>10 DEF Its
  <2> QED
    BY <1>1, <1>3, <1>4, <1>10, <2>1 DEF Survive, ItsCarries, Kept, Carries, Hands
<1> QED
  BY <1>8, <1>9, <1>11 DEF Survive

\* One manifest is rewritten, and the rest stays.
LEMMA SurviveRewrite ==
  ASSUME Base, Survive, NEW i \in DOMAIN manifests, NEW m, manifests' = [manifests EXCEPT ![i] = m], ManifestFits(m),
         BackupCarries(m), used'.edit = used.edit, UNCHANGED <<cfg, mdl, quiet>>, mishap \subseteq mishap', ~Armed'
  PROVE  Survive'
<1>1. Done' = Done
  BY DEF Done
<1>2. EditsDone' /\ Kept' /\ ItsCarries'
  BY <1>1 DEF Survive, EditsDone, Kept, ItsCarries, Carries, Hands
<1>3. DOMAIN manifests' = DOMAIN manifests /\ manifests'[i] = m /\ \A j \in DOMAIN manifests : j # i => manifests'[j] = manifests[j]
  BY Rewritten DEF Base
<1>4. \A j \in DOMAIN manifests' : BackupCarries(manifests'[j])
  BY <1>3 DEF Survive
<1>5. \A j \in DOMAIN manifests' : BackupCarries(manifests[j])'
  BY <1>1, <1>4 DEF BackupCarries, Carries, Hands
<1> QED
  BY <1>2, <1>5 DEF Survive

LEMMA SurviveStatus ==
  ASSUME Base, Survive, NEW id \in DOMAIN manifests, NEW status \in {"rolled-back", "restore_failed"}, SetStatus(id, status),
         used'.edit = used.edit, UNCHANGED <<cfg, mdl, quiet>>, mishap \subseteq mishap', ~Armed'
  PROVE  Survive'
<1> DEFINE m == [manifests[id] EXCEPT !.status = status]
<1>1. ManifestFits(manifests[id]) /\ manifests' = [manifests EXCEPT ![id] = m]
  BY DEF Base, Types, SetStatus
<1>2. m.status = status /\ m.files = manifests[id].files /\ DOMAIN m = DOMAIN manifests[id]
  BY <1>1 DEF ManifestFits
<1> HIDE DEF m
<1>3. ManifestFits(m)
  BY <1>1, <1>2 DEF ManifestFits, ROLLBACKABLE
<1>4. BackupCarries(m)
  BY <1>2 DEF Survive, BackupCarries
<1> QED
  BY <1>1, <1>3, <1>4, SurviveRewrite

LEMMA SurviveCommit ==
  ASSUME Base, Survive, ApplyCommit, UNCHANGED smolVars
  PROVE  Survive'
<1> DEFINE m == [Its EXCEPT !.status = "applied", !.sha = Files(cmd.ps)]
<1>1. /\ ApplyFits /\ Types /\ cmd.tool = "preset" /\ cmd.pc = "commit" /\ UNCHANGED <<cfg, mdl, used, quiet, mishap>>
      /\ DOMAIN cmd = ApplyFields
  BY DEF Base, CmdFits, ApplyCommit, At, ApplyFits
<1>2. manifests' = [manifests EXCEPT ![cmd.id] = m]
  BY DEF ApplyCommit, Its
<1>3. cmd.id \in DOMAIN manifests /\ DOMAIN Its.files = cmd.ps /\ AsBackedUp /\ ManifestFits(Its)
  BY <1>1 DEF ApplyFits, OnIts, Types, Its
<1>4. m.status = "applied" /\ m.sha = Files(cmd.ps) /\ m.files = Its.files /\ DOMAIN m = DOMAIN Its
  BY <1>3 DEF ManifestFits
<1>5. \A p \in cmd.ps : Files(cmd.ps)[p].models = mdl[p] /\ Files(cmd.ps)[p].config = cfg[p]
  BY DEF Files
<1> HIDE DEF m
<1>6. ManifestFits(m)
  BY <1>3, <1>4, <1>5 DEF ManifestFits, AsBackedUp, ROLLBACKABLE
<1>7. cmd'.tool = "preset" /\ cmd'.pc = "record"
  BY <1>1 DEF ApplyCommit, Goto, ApplyFields
<1>8. BackupCarries(m)
  <2>1. \A p \in cmd.ps : m.files[p].config.hand \subseteq Done /\ HandIn(m.files[p].models) \subseteq Done
    BY <1>3, <1>4 DEF Survive, BackupCarries, Its
  <2>2. \A p \in cmd.ps : m.sha[p].config.hand \subseteq Done /\ HandIn(m.sha[p].models) \subseteq Done
    BY <1>1, <1>4, <1>5 DEF Survive, EditsDone, ApplyFits
  <2>3. "lossy" \notin mishap => \A q \in quiet : q[1] \in cmd.ps => Carries(m.files[q[1]].config, m.files[q[1]].models, q)
    BY <1>1, <1>4 DEF Survive, ItsCarries, Armed
  <2> QED
    BY <1>3, <1>4, <2>1, <2>2, <2>3 DEF BackupCarries
<1>9. ~Armed'
  BY <1>7 DEF Armed
<1> QED
  BY <1>1, <1>2, <1>3, <1>6, <1>8, <1>9, SurviveRewrite

\* A backup that goes back carries every edit that nobody gave up.
LEMMA SurviveRestore ==
  ASSUME Base, Survive, RestoreFile, UNCHANGED smolVars
  PROVE  Survive'
<1>1. PICK pf \in cmd.left :
        /\ cmd' = [cmd EXCEPT !.left = @ \ {pf}]
        /\ pf[1] \in cmd.ps
        /\ \A p \in Profile :
             /\ cfg'[p] = cfg[p] \/ (p = pf[1] /\ pf[2] = "config" /\ cfg'[p] = Its.files[p].config)
             /\ mdl'[p] = mdl[p] \/ (p = pf[1] /\ pf[2] = "models" /\ mdl'[p] = Its.files[p].models)
  BY RestoredFits
<1>2. OnIts /\ cmd.ps \subseteq Profile
  BY RestoredFits
<1>3. /\ Armed /\ cmd.tool \in {"preset", "rollback"} /\ cmd.pc = "restore" /\ UNCHANGED <<used, mishap, quiet, manifests>>
  BY DEF RestoreFile, Restoring, presetVars, Armed
<1>4. cmd'.ps = cmd.ps /\ cmd'.id = cmd.id /\ Its' = Its
  BY <1>1, <1>3 DEF Base, CmdFits, ApplyFits, RollbackFits, ApplyFields, RollbackFields, Its
<1>5. Done' = Done
  BY <1>3 DEF Done
<1>6. \A p \in cmd.ps : Its.files[p].config.hand \subseteq Done /\ HandIn(Its.files[p].models) \subseteq Done
  BY <1>2 DEF Survive, BackupCarries, OnIts, Its
<1>7. EditsDone'
  BY <1>1, <1>2, <1>3, <1>5, <1>6 DEF Survive, EditsDone
<1>8. \A i \in DOMAIN manifests' : BackupCarries(manifests[i])'
  BY <1>3, <1>5 DEF Survive, BackupCarries
<1>9. ItsCarries'
  BY <1>3, <1>4 DEF Survive, ItsCarries
<1>10. Kept'
  <2>1. ASSUME "lossy" \notin mishap, NEW q \in quiet
        PROVE  Carries(cfg'[q[1]], mdl'[q[1]], q)
    <3>1. q[1] \in Profile /\ Carries(cfg[q[1]], mdl[q[1]], q)
      BY <2>1 DEF Survive, EditsDone, Kept
    <3>2. q[1] \in cmd.ps => Carries(Its.files[q[1]].config, Its.files[q[1]].models, q)
      BY <1>3, <2>1 DEF Survive, ItsCarries
    <3> QED
      BY <1>1, <3>1, <3>2 DEF Carries, Hands
  <2> QED
    BY <1>3, <2>1 DEF Kept
<1> QED
  BY <1>7, <1>8, <1>9, <1>10 DEF Survive

\* A rollback that nobody forced starts from the files as they were applied.
LEMMA SurviveRollback ==
  ASSUME Base, Survive, RollbackBegin, UNCHANGED smolVars
  PROVE  Survive'
<1>1. PICK id \in DOMAIN manifests :
        /\ cmd' = [tool |-> "rollback", pc |-> "restore", id |-> id, ps |-> DOMAIN manifests[id].files,
                   left |-> AllFiles(DOMAIN manifests[id].files)]
        /\ Count("command")
        /\ "lossy" \notin mishap' => manifests[id].status = "applied" /\ ~ChangedSince(id)
        /\ UNCHANGED <<cfg, mdl, manifests, quiet>> /\ mishap \subseteq mishap'
  BY DEF RollbackBegin, Begin, presetVars
<1>2. used'.edit = used.edit
  BY <1>1, CountFits DEF Base, Types, UsedSet
<1>3. Done' = Done
  BY <1>2 DEF Done
<1>4. EditsDone' /\ Kept'
  BY <1>1, <1>3 DEF Survive, EditsDone, Kept, Carries, Hands
<1>5. \A i \in DOMAIN manifests' : BackupCarries(manifests[i])'
  BY <1>1, <1>3 DEF Survive, BackupCarries
<1>6. cmd'.ps = DOMAIN manifests[id].files /\ cmd'.id = id
  BY <1>1
<1>7. ItsCarries'
  <2>1. ASSUME "lossy" \notin mishap', NEW q \in quiet, q[1] \in DOMAIN manifests[id].files
        PROVE  Carries(manifests[id].files[q[1]].config, manifests[id].files[q[1]].models, q)
    <3>1. manifests[id].status = "applied" /\ manifests[id].sha = Files(DOMAIN manifests[id].files) /\ "lossy" \notin mishap
      BY <1>1, <2>1 DEF ChangedSince
    <3>2. manifests[id].sha[q[1]].config = cfg[q[1]] /\ manifests[id].sha[q[1]].models = mdl[q[1]]
      BY <2>1, <3>1 DEF Files
    <3>3. Carries(cfg[q[1]], mdl[q[1]], q)
      BY <2>1, <3>1 DEF Survive, Kept
    <3> QED
      BY <2>1, <3>1, <3>2, <3>3 DEF Survive, BackupCarries
  <2> QED
    BY <1>1, <1>6, <2>1 DEF ItsCarries, Its
<1> QED
  BY <1>4, <1>5, <1>7 DEF Survive

LEMMA SurviveWrite ==
  ASSUME Base, Survive, ApplyWrite, UNCHANGED smolVars
  PROVE  Survive'
<1>1. /\ ApplyFits /\ Types /\ cmd.tool = "preset" /\ cmd.pc = "write" /\ UNCHANGED <<mishap, quiet, manifests>>
      /\ used \in UsedSet /\ DOMAIN cmd = ApplyFields
  BY DEF Base, CmdFits, ApplyWrite, At, presetVars, Types, UsedSet, ApplyFits
<1>2. PICK pk \in cmd.todo :
        \/ /\ WriteStep(cmd.steps[pk]) /\ UNCHANGED used
           /\ cmd' = [cmd EXCEPT !.todo = @ \ {pk}, !.on = cmd.steps[pk].p]
        \/ ToRestore /\ UNCHANGED <<cfg, mdl>> /\ (Count("failure") \/ UNCHANGED used)
  BY DEF ApplyWrite
<1>3. pk \in Profile \X Kind /\ StepFits(cmd.steps[pk], pk)
  BY <1>1 DEF ApplyFits
<1>4. used' \in UsedSet /\ used'.edit = used.edit
  BY <1>1, <1>2, CountFits
<1>5. cmd'.ps = cmd.ps /\ cmd'.id = cmd.id
  BY <1>1, <1>2 DEF ToRestore, ApplyFields
<1>6. \A p \in Profile : cfg'[p].hand = cfg[p].hand /\ HandIn(mdl'[p]) = HandIn(mdl[p])
  BY <1>1, <1>2, <1>3, SettingFits
<1> QED
  BY <1>1, <1>4, <1>5, <1>6, HandsKeep DEF Armed

LEMMA SurvivePresets ==
  ASSUME Base, Survive, PresetsNext, UNCHANGED smolVars
  PROVE  Survive'
<1>1. Types /\ used \in UsedSet
  BY DEF Base, Types, UsedSet
<1>2. CASE ApplyPlan \/ ApplyRecord
  <2>1. used' \in UsedSet /\ used'.edit = used.edit
    BY <1>1, <1>2, CountFits DEF ApplyPlan, Begin, ApplyRecord
  <2>2. ~Armed'
    BY <1>2 DEF ApplyPlan, Begin, ApplyRecord, Finish, Armed, Idle
  <2> QED
    BY <1>2, <2>1, <2>2, HandsKeep DEF ApplyPlan, ApplyRecord
<1>3. CASE ApplyReadback
  <2>1. DOMAIN cmd = ApplyFields /\ Armed
    BY <1>3 DEF ApplyReadback, At, Base, CmdFits, ApplyFits, Armed
  <2>2. cmd'.ps = cmd.ps /\ cmd'.id = cmd.id
    BY <1>3, <2>1 DEF ApplyReadback, Goto, ToRestore, ApplyFields
  <2> QED
    BY <1>1, <1>3, <2>1, <2>2, HandsKeep DEF ApplyReadback, presetVars
<1>4. CASE ApplyRestored
  <2>1. cmd.id \in DOMAIN manifests /\ ~Armed'
    BY <1>4, Disarmed DEF Base, CmdFits, ApplyFits, OnIts, ApplyRestored, At, Finish
  <2>2. used'.edit = used.edit /\ UNCHANGED <<cfg, mdl, quiet>> /\ mishap \subseteq mishap'
    BY <1>1, <1>4, CountFits DEF ApplyRestored
  <2>3. SetStatus(cmd.id, "rolled-back") \/ SetStatus(cmd.id, "restore_failed")
    BY <1>4 DEF ApplyRestored
  <2> QED
    BY <2>1, <2>2, <2>3, SurviveStatus
<1>5. CASE RollbackFails
  <2>1. used' \in UsedSet /\ used'.edit = used.edit /\ ~Armed'
    BY <1>1, <1>5, CountFits, Disarmed DEF RollbackFails, Finish
  <2> QED
    BY <1>5, <2>1, HandsKeep DEF RollbackFails, presetVars
<1>6. CASE RollbackRecord
  <2>1. DOMAIN cmd = RollbackFields /\ Armed
    BY <1>6 DEF RollbackRecord, At, Base, CmdFits, RollbackFits, Armed
  <2>2. cmd'.ps = cmd.ps /\ cmd'.id = cmd.id
    BY <1>6, <2>1 DEF RollbackRecord, Goto, RollbackFields
  <2> QED
    BY <1>1, <1>6, <2>1, <2>2, HandsKeep DEF RollbackRecord
<1>7. CASE RollbackStatus
  <2>1. cmd.id \in DOMAIN manifests /\ ~Armed'
    BY <1>7, Disarmed DEF Base, CmdFits, RollbackFits, OnIts, RollbackStatus, At, Finish
  <2> QED
    BY <1>7, <2>1, SurviveStatus DEF RollbackStatus
<1> QED
  BY <1>2, <1>3, <1>4, <1>5, <1>6, <1>7, SurviveBackup, SurviveWrite, SurviveCommit, SurviveRestore, SurviveRollback
  DEF PresetsNext

LEMMA SurviveInit == Init => Survive
<1> SUFFICES ASSUME Init
             PROVE  Survive
  OBVIOUS
<1>1. quiet = {} /\ DOMAIN manifests = {} /\ ~Armed
  BY DEF Init, FilesInit, PresetsInit, Armed, Idle
<1>2. \A p \in Profile : cfg[p].hand = {} /\ HandIn(mdl[p]) = {}
  BY DEF Init, FilesInit, HandIn, EmptyModels
<1> QED
  BY <1>1, <1>2 DEF Survive, EditsDone, ItsCarries, Kept

LEMMA SurviveNext == Base /\ Survive /\ [Next]_vars => Survive'
<1> SUFFICES ASSUME Base, Survive, [Next]_vars
             PROVE  Survive'
  OBVIOUS
<1>1. CASE PresetsNext /\ UNCHANGED <<routeVars, smolVars>>
  BY <1>1, SurvivePresets
<1>2. CASE RoutesNext /\ UNCHANGED <<presetVars, smolVars>>
  BY <1>2, SurviveRoutes
<1>3. CASE SmolNext /\ UNCHANGED <<presetVars, routeVars>>
  BY <1>3, SurviveSmol
<1>4. CASE (HandEdit \/ Death) /\ UNCHANGED <<presetVars, routeVars, smolVars>>
  BY <1>4, SurviveWorld
<1>5. CASE UNCHANGED vars
  <2>1. UNCHANGED <<cfg, mdl, cmd, mishap, quiet, used, manifests>> /\ used \in UsedSet
    BY <1>5 DEF vars, fileVars, presetVars, Base, Types, UsedSet
  <2> QED
    BY <2>1, HandsKeep DEF Armed
<1> QED
  BY <1>1, <1>2, <1>3, <1>4, <1>5 DEF Next

\* No command loses an edit that somebody made between commands, unless the
\* owner forced a rollback over it or undid an apply that had been cut.
THEOREM EditsKept == Spec => []EditsSurvive
<1>1. Survive => EditsSurvive
  BY DEF Survive, Kept, EditsDone, EditsSurvive, Carries, Hands, HandIn
<1> QED
  BY <1>1, BaseInit, BaseNext, SurviveInit, SurviveNext, PTL DEF Spec

(***************************************************************************)
(* Going back to a backup.                                                 *)
(***************************************************************************)
Undoing == Restoring \/ At("rollback", "status")

\* What has been put back so far holds its old bytes, as long as nobody
\* edited under a command.
PutBack ==
  /\ Undoing /\ "race" \notin mishap =>
       \A p \in cmd.ps :
         /\ <<p, "config">> \notin cmd.left => cfg[p] = Its.files[p].config
         /\ <<p, "models">> \notin cmd.left => mdl[p] = Its.files[p].models
  /\ At("rollback", "status") => cmd.left = {}

LEMMA NotUndoing ==
  cmd'.tool \notin {"preset", "rollback"} \/ (cmd'.tool = "preset" /\ cmd'.pc # "restore") => PutBack'
BY DEF PutBack, Undoing, Restoring, At

LEMMA UndoStarts ==
  ASSUME cmd'.pc = "restore", cmd'.left = AllFiles(cmd'.ps)
  PROVE  PutBack'
BY DEF PutBack, Undoing, At, AllFiles

LEMMA PutBackRestore ==
  ASSUME Base, PutBack, RestoreFile, UNCHANGED smolVars
  PROVE  PutBack'
<1>1. PICK pf \in cmd.left :
        /\ cmd' = [cmd EXCEPT !.left = @ \ {pf}]
        /\ pf[1] \in cmd.ps /\ pf[2] \in {"config", "models"}
        /\ \A p \in Profile :
             /\ IF p = pf[1] /\ pf[2] = "config" THEN cfg'[p] = Its.files[p].config ELSE cfg'[p] = cfg[p]
             /\ IF p = pf[1] /\ pf[2] = "models" THEN mdl'[p] = Its.files[p].models ELSE mdl'[p] = mdl[p]
  BY RestoredFits
<1>2. cmd.ps \subseteq Profile /\ cmd.left \subseteq AllFiles(cmd.ps)
  BY RestoredFits
<1>3. /\ Undoing /\ cmd.tool \in {"preset", "rollback"} /\ cmd.pc = "restore" /\ UNCHANGED <<mishap, manifests>>
  BY DEF RestoreFile, Restoring, presetVars, Undoing
<1>4. cmd'.ps = cmd.ps /\ cmd'.id = cmd.id /\ Its' = Its /\ cmd'.left = cmd.left \ {pf} /\ cmd'.pc = "restore"
  BY <1>1, <1>3 DEF Base, CmdFits, ApplyFits, RollbackFits, ApplyFields, RollbackFields, Its
<1>5. pf = <<pf[1], pf[2]>>
  BY <1>2 DEF AllFiles
<1>6. ASSUME "race" \notin mishap, NEW p \in cmd.ps
      PROVE  /\ <<p, "config">> \notin cmd'.left => cfg'[p] = Its.files[p].config
             /\ <<p, "models">> \notin cmd'.left => mdl'[p] = Its.files[p].models
  <2>1. /\ <<p, "config">> \notin cmd.left => cfg[p] = Its.files[p].config
        /\ <<p, "models">> \notin cmd.left => mdl[p] = Its.files[p].models
    BY <1>3, <1>6 DEF PutBack
  <2>2. p \in Profile
    BY <1>2, <1>6
  <2>3. <<p, "config">> \notin cmd'.left => cfg'[p] = Its.files[p].config
    BY <1>1, <1>4, <1>5, <2>1, <2>2
  <2>4. <<p, "models">> \notin cmd'.left => mdl'[p] = Its.files[p].models
    BY <1>1, <1>4, <1>5, <2>1, <2>2
  <2> QED
    BY <2>3, <2>4
<1> QED
  BY <1>3, <1>4, <1>6 DEF PutBack, At

LEMMA PutBackPresets ==
  ASSUME Base, PutBack, PresetsNext, UNCHANGED smolVars
  PROVE  PutBack'
<1>1. CASE ApplyPlan \/ ApplyRecord \/ ApplyRestored \/ RollbackFails \/ RollbackStatus
  BY <1>1, NotUndoing DEF ApplyPlan, ApplyRecord, ApplyRestored, RollbackFails, RollbackStatus, Begin, Finish, Idle
<1>2. CASE ApplyBackup \/ ApplyCommit
  <2>1. DOMAIN cmd = ApplyFields /\ cmd.tool = "preset"
    BY <1>2 DEF ApplyBackup, ApplyCommit, At, Base, CmdFits, ApplyFits
  <2>2. cmd'.tool = "preset" /\ cmd'.pc # "restore"
    BY <1>2, <2>1 DEF ApplyBackup, ApplyCommit, Goto, ApplyFields
  <2> QED
    BY <2>2, NotUndoing
<1>3. CASE ApplyWrite \/ ApplyReadback
  <2>1. DOMAIN cmd = ApplyFields /\ cmd.tool = "preset" /\ cmd.pc = "write"
    BY <1>3 DEF ApplyWrite, ApplyReadback, At, Base, CmdFits, ApplyFits
  <2>2. CASE ToRestore
    <3>1. cmd'.pc = "restore" /\ cmd'.left = AllFiles(cmd'.ps)
      BY <2>1, <2>2 DEF ToRestore, ApplyFields
    <3> QED
      BY <3>1, UndoStarts
  <2>3. CASE Goto("commit") \/ \E t, o : cmd' = [cmd EXCEPT !.todo = t, !.on = o]
    <3>1. cmd'.tool = "preset" /\ cmd'.pc # "restore"
      BY <2>1, <2>3 DEF Goto, ApplyFields
    <3> QED
      BY <3>1, NotUndoing
  <2> QED
    BY <1>3, <2>2, <2>3 DEF ApplyWrite, ApplyReadback
<1>4. CASE RollbackBegin
  <2>1. cmd'.pc = "restore" /\ cmd'.left = AllFiles(cmd'.ps)
    BY <1>4 DEF RollbackBegin, Begin
  <2> QED
    BY <2>1, UndoStarts
<1>5. CASE RollbackRecord
  <2>1. DOMAIN cmd = RollbackFields /\ Undoing /\ cmd.left = {} /\ UNCHANGED <<cfg, mdl, mishap, manifests>>
    BY <1>5 DEF RollbackRecord, At, Base, CmdFits, RollbackFits, Undoing, Restoring
  <2>2. cmd'.ps = cmd.ps /\ cmd'.id = cmd.id /\ cmd'.left = cmd.left
    BY <1>5, <2>1 DEF RollbackRecord, Goto, RollbackFields
  <2> QED
    BY <2>1, <2>2 DEF PutBack, Its
<1> QED
  BY <1>1, <1>2, <1>3, <1>4, <1>5, PutBackRestore DEF PresetsNext

LEMMA PutBackInit == Init => PutBack
BY DEF Init, FilesInit, PutBack, Undoing, Restoring, At, Idle

LEMMA PutBackNext == Base /\ PutBack /\ [Next]_vars => PutBack'
<1> SUFFICES ASSUME Base, PutBack, [Next]_vars
             PROVE  PutBack'
  OBVIOUS
<1>1. CASE PresetsNext /\ UNCHANGED <<routeVars, smolVars>>
  BY <1>1, PutBackPresets
<1>2. CASE RoutesNext
  BY <1>2, RoutesEdit, NotUndoing DEF Idle
<1>3. CASE SmolNext
  BY <1>3, SmolTool, NotUndoing DEF Idle
<1>4. CASE (HandEdit \/ Death) /\ UNCHANGED <<presetVars, routeVars, smolVars>>
  <2>1. CASE Death
    BY <2>1, NotUndoing DEF Death, Finish, Idle
  <2>2. CASE HandEdit /\ cmd = Idle
    BY <2>2, NotUndoing DEF HandEdit, Idle
  <2>3. CASE HandEdit /\ cmd # Idle
    BY <2>3 DEF HandEdit, PutBack, At
  <2> QED
    BY <1>4, <2>1, <2>2, <2>3
<1>5. CASE UNCHANGED vars
  BY <1>5 DEF vars, fileVars, presetVars, PutBack, Undoing, Restoring, At, Its
<1> QED
  BY <1>1, <1>2, <1>3, <1>4, <1>5 DEF Next

\* A manifest becomes "rolled-back" at the end of the restore only.
LEMMA UndoIsExact == Base /\ PutBack /\ [Next]_vars => RollbackIsExact
<1> SUFFICES ASSUME Base, PutBack, [Next]_vars, NEW i \in DOMAIN manifests,
                    manifests[i].status # "rolled-back", manifests'[i].status = "rolled-back", "race" \notin mishap
             PROVE  Files(DOMAIN manifests[i].files) = manifests[i].files
  BY DEF RollbackIsExact
<1>1. Types /\ ManifestFits(manifests[i]) /\ IsSeq(manifests)
  BY DEF Base, Types
<1>2. /\ manifests' # manifests
      /\ ApplyBackup \/ ApplyCommit \/ ApplyRestored \/ RollbackStatus
  BY DEF Next, PresetsNext, ApplyPlan, ApplyWrite, ApplyReadback, ApplyRecord, RestoreFile, RollbackBegin, RollbackFails,
         RollbackRecord, vars, presetVars
<1>3. ~ApplyBackup
  <2>1. CASE ApplyBackup
    <3>1. PICK m : manifests' = Append(manifests, m)
      BY <2>1 DEF ApplyBackup
    <3>2. manifests'[i] = manifests[i]
      BY <1>1, <3>1, SeqAppend
    <3> QED
      BY <3>2
  <2> QED
    BY <2>1
<1>4. ~ApplyCommit
  BY <1>1 DEF ApplyCommit, ManifestFits
<1>5. ASSUME ApplyRestored \/ RollbackStatus
      PROVE  /\ i = cmd.id /\ cmd.left = {} /\ Undoing /\ OnIts
    <2>1. OnIts
      BY <1>5 DEF Base, CmdFits, ApplyFits, RollbackFits, ApplyRestored, RollbackStatus, At
    <2>2. i = cmd.id
      BY <1>1, <1>5 DEF ApplyRestored, RollbackStatus, SetStatus
    <2>3. Undoing
      BY <1>5 DEF ApplyRestored, RollbackStatus, Undoing, Restoring, At
    <2>4. CASE RollbackStatus
      BY <2>1, <2>2, <2>3, <2>4 DEF RollbackStatus, PutBack
    <2>5. CASE ApplyRestored
      <3>1. CASE SetStatus(cmd.id, "restore_failed")
        BY <1>1, <2>2, <3>1 DEF SetStatus, ManifestFits
      <3> QED
        BY <2>1, <2>2, <2>3, <2>5, <3>1 DEF ApplyRestored
    <2> QED
      BY <1>5, <2>4, <2>5
<1>6. /\ i = cmd.id /\ cmd.left = {} /\ Undoing /\ DOMAIN manifests[i].files = cmd.ps
  BY <1>2, <1>3, <1>4, <1>5 DEF OnIts, Its
<1>7. \A p \in cmd.ps : cfg[p] = manifests[i].files[p].config /\ mdl[p] = manifests[i].files[p].models
  BY <1>6 DEF PutBack, Its
<1>8. manifests[i].files \in [cmd.ps -> Backup]
  BY <1>1, <1>6 DEF ManifestFits
<1>9. \A p \in cmd.ps : manifests[i].files[p] = [config |-> cfg[p], models |-> mdl[p]]
  BY <1>7, <1>8 DEF Backup
<1> QED
  BY <1>6, <1>8, <1>9 DEF Files

\* A setting is written only under a manifest that rollback accepts.
LEMMA WritesAreBacked == Base /\ [Next]_vars => WriteIsRevocable
<1> SUFFICES ASSUME Base, [Next]_vars, NEW p \in Profile, cfg[p] # cfg'[p] \/ mdl[p] # mdl'[p],
                    cmd.tool = "preset", cmd.pc = "write", cmd' # cmd
             PROVE  \E i \in DOMAIN manifests :
                      manifests[i].status \in ROLLBACKABLE /\ i = cmd.id /\ p \in DOMAIN manifests[i].files
  BY DEF WriteIsRevocable, At
<1>1. /\ ApplyFits /\ Types
  BY DEF Base, CmdFits
<1>2. /\ OnIts /\ Its.status = "applying" /\ \A pk \in cmd.todo : pk[1] \in cmd.ps /\ cmd.steps[pk].p = pk[1]
  BY <1>1 DEF ApplyFits, StepFits
<1>3. p \in cmd.ps
  <2>1. CASE ApplyWrite
    <3>1. PICK pk \in cmd.todo : WriteStep(cmd.steps[pk])
      BY <2>1 DEF ApplyWrite
    <3> DEFINE s == cmd.steps[pk]
    <3>2. s.p \in cmd.ps
      BY <1>2
    <3> HIDE DEF s
    <3>3. WriteStep(s) /\ cfg \in [Profile -> ConfigFile] /\ mdl \in [Profile -> {Nil} \cup ModelsFile]
      BY <1>1, <3>1 DEF s, Types
    <3>4. p = s.p
      BY <3>3 DEF WriteStep
    <3> QED
      BY <3>2, <3>4
  <2>2. CASE PresetsNext /\ ~ApplyWrite
    BY <2>2 DEF PresetsNext, ApplyPlan, ApplyBackup, ApplyReadback, ApplyCommit, ApplyRecord, RestoreFile, ApplyRestored,
                RollbackBegin, RollbackFails, RollbackRecord, RollbackStatus, At, Restoring
  <2>3. CASE RoutesNext
    BY <2>3 DEF RoutesNext, InstallBegin, InstallWrite, InstallUndo, InstallManifest, InstallService, InstallReadback,
                InstallRecover, RemoveBegin, RemoveStop, RevertPlan, RevertWrite, RevertRedo, RevertBlocked, RevertDone,
                RouteCleanup, Start, StopBegin, StopEnd, At
  <2>4. CASE SmolNext
    BY <2>4 DEF SmolNext, SmolSet, SmolStart, SmolCheck, SmolBlock, SmolLine, SmolSave, SmolRevert, SmolUnline, SmolUnblock,
                SmolHalt, SmolServer, At
  <2>5. CASE HandEdit \/ Death \/ UNCHANGED vars
    BY <2>5 DEF HandEdit, Death, vars, fileVars
  <2> QED
    BY <2>1, <2>2, <2>3, <2>4, <2>5 DEF Next
<1> QED
  BY <1>2, <1>3 DEF OnIts, Its, ROLLBACKABLE

\* A preset can be undone from before its first write on, and an undo puts
\* every file of it back.
THEOREM PresetsCanBeUndone == Spec => PresetsUndo
BY BaseInit, BaseNext, PutBackInit, PutBackNext, UndoIsExact, WritesAreBacked, PTL DEF Spec, PresetsUndo

(***************************************************************************)
(* The smol line and its block.                                            *)
(***************************************************************************)
\* No restore was forced over later changes, and no set recorded a line of
\* localbench's own as the one to go back to.
Sound == mishap \cap {"lossy", "forgot"} = {}

\* A smol line of localbench's has its block.
Resolves(c, m) == c.smol \in SmolModel => SmolIn(m) = c.smol

\* What revert goes back to needs no block.
Plain(record) == record.previous \notin SmolModel

RecordsFit ==
  Recorded => \A p \in Profile : SmolIn(mdl[p]) \in {Nil, smolState.model} /\ Plain(smolState.profiles[p])

BackupsFit ==
  \A i \in DOMAIN manifests : \A p \in DOMAIN manifests[i].files :
    Resolves(manifests[i].files[p].config, manifests[i].files[p].models)

StepsFit ==
  cmd.tool = "preset" =>
    \A pk \in DOMAIN cmd.steps :
      pk[2] = "modelRoles" /\ cmd.steps[pk].after.smol \in SmolModel
        => SmolIn(mdl[pk[1]]) = cmd.steps[pk].after.smol

Setting == cmd.tool = "smol" /\ cmd.pc \in {"start", "check", "next", "line"}
\* set has given p its block.
Set(p) == SmolIn(mdl[p]) = cmd.new.model /\ Plain(cmd.done[p])

SetFitsIn ==
  Setting =>
    /\ cmd.prior # Nil => \A p \in Profile : Plain(cmd.prior[p])
    /\ cmd.pc = "start" /\ smolState # Nil /\ smolState.model # cmd.new.model => server = Nil
    /\ cmd.pc # "start" /\ Recorded => smolState.model = cmd.new.model
    /\ \A p \in Profile \ cmd.left : Set(p)
    /\ cmd.pc = "line" => Set(cmd.at)

RevertFitsIn == At("smol", "unblock") => cfg[cmd.at].smol \notin SmolModel

Resolved ==
  Sound =>
    /\ \A p \in Profile : Resolves(cfg[p], mdl[p])
    /\ RecordsFit /\ BackupsFit /\ StepsFit /\ SetFitsIn /\ RevertFitsIn

LEMMA LikeMeans == \A a, b : Like(a, b) => SmolIn(a) = SmolIn(b)
BY DEF Like

\* A step of another tool, or of the world beside the command.
LEMMA ResolvedKeep ==
  ASSUME Base, Resolved, mishap \subseteq mishap', UNCHANGED <<manifests, smolState, server>>, StepsFit' \/ cmd' = cmd,
         Sound => \A p \in Profile :
           /\ SmolIn(mdl'[p]) = SmolIn(mdl[p])
           /\ \/ cfg'[p].smol \in {cfg[p].smol, HandSmol}
              \/ cmd'.tool # "smol" /\ Resolves(cfg'[p], mdl[p]),
         cmd'.tool = "smol" => cmd' = cmd
  PROVE  Resolved'
<1> SUFFICES ASSUME Sound'
             PROVE  /\ \A p \in Profile : Resolves(cfg'[p], mdl'[p])
                    /\ RecordsFit' /\ BackupsFit' /\ StepsFit' /\ SetFitsIn' /\ RevertFitsIn'
  BY DEF Resolved
<1>1. /\ Sound /\ (\A p \in Profile : Resolves(cfg[p], mdl[p]))
      /\ RecordsFit /\ BackupsFit /\ StepsFit /\ SetFitsIn /\ RevertFitsIn
  BY DEF Sound, Resolved
<1>2. HandSmol \notin SmolModel
  BY FilesAssumption
<1>3. \A p \in Profile : Resolves(cfg'[p], mdl'[p])
  BY <1>1, <1>2 DEF Resolves
<1>4. RecordsFit'
  BY <1>1 DEF RecordsFit, Recorded, Plain
<1>5. BackupsFit'
  BY <1>1 DEF BackupsFit
<1>6. CASE cmd'.tool = "smol"
  <2>1. cmd' = cmd
    BY <1>6
  <2>2. StepsFit'
    BY <1>6 DEF StepsFit
  <2>3. SetFitsIn'
    BY <1>1, <2>1 DEF Base, CmdFits, SmolFits, SetFitsIn, Setting, Set, Recorded, SetFields, RevertFields
  <2>4. RevertFitsIn'
    <3>1. At("smol", "unblock") => cmd.at \in Profile
      BY RevertWhere
    <3> QED
      BY <1>1, <1>2, <1>6, <2>1, <3>1 DEF RevertFitsIn, At
  <2> QED
    BY <1>3, <1>4, <1>5, <2>2, <2>3, <2>4
<1>7. CASE cmd'.tool # "smol"
  <2>1. SetFitsIn' /\ RevertFitsIn'
    BY <1>7 DEF SetFitsIn, Setting, RevertFitsIn, At
  <2>2. StepsFit'
    <3>1. CASE cmd' = cmd /\ cmd.tool = "preset"
      <4>1. DOMAIN cmd.steps \subseteq Profile \X Kind
        BY <3>1 DEF Base, CmdFits, ApplyFits
      <4> QED
        BY <1>1, <3>1, <4>1 DEF StepsFit
    <3> QED
      BY <3>1 DEF StepsFit
  <2> QED
    BY <1>3, <1>4, <1>5, <2>1, <2>2
<1> QED
  BY <1>6, <1>7

LEMMA ResolvedWorld ==
  ASSUME Base, Resolved, HandEdit \/ Death, UNCHANGED <<presetVars, routeVars, smolVars>>
  PROVE  Resolved'
<1>1. CASE HandEdit
  <2>1. \A p \in Profile : Like(mdl'[p], mdl[p]) /\ cfg'[p].smol \in {cfg[p].smol, HandSmol}
    BY <1>1, EditFits DEF Base
  <2>2. cmd' = cmd /\ mishap \subseteq mishap'
    BY <1>1 DEF HandEdit
  <2> QED
    BY <2>1, <2>2, LikeMeans, ResolvedKeep DEF presetVars, smolVars
<1>2. CASE Death
  <2>1. cmd' = Idle /\ mishap \subseteq mishap' /\ UNCHANGED <<cfg, mdl>>
    BY <1>2 DEF Death, Finish
  <2>2. StepsFit' /\ cmd'.tool # "smol"
    BY <2>1 DEF StepsFit, Idle
  <2> QED
    BY <2>1, <2>2, ResolvedKeep DEF presetVars, smolVars
<1> QED
  BY <1>1, <1>2

LEMMA ResolvedRoutes ==
  ASSUME Base, Resolved, RoutesNext, UNCHANGED <<presetVars, smolVars>>
  PROVE  Resolved'
<1>1. /\ mishap \subseteq mishap' /\ cfg' = cfg /\ (\A p \in Profile : SmolIn(mdl'[p]) = SmolIn(mdl[p]))
      /\ cmd'.tool \notin {"preset", "smol"}
  BY RoutesEdit DEF RouteEdit, Idle
<1>2. StepsFit'
  BY <1>1 DEF StepsFit
<1> QED
  BY <1>1, <1>2, ResolvedKeep DEF presetVars, smolVars

\* The presets leave the blocks alone, and put no line back without its block.
LEMMA ResolvedBackup ==
  ASSUME Base, Resolved, ApplyBackup, UNCHANGED smolVars
  PROVE  Resolved'
<1>1. PICK m :
        /\ manifests' = Append(manifests, m) /\ m.files = Files(cmd.ps)
        /\ cmd' = [cmd EXCEPT !.pc = "write", !.id = Len(manifests) + 1, !.state = applied]
  BY DEF ApplyBackup
<1>2. /\ cmd.tool = "preset" /\ UNCHANGED <<cfg, mdl, mishap, smolState, server>> /\ cmd.ps \subseteq Profile /\ DOMAIN cmd = ApplyFields
      /\ IsSeq(manifests) /\ Types
  BY DEF ApplyBackup, At, smolVars, Base, CmdFits, ApplyFits, Types
<1>3. cmd'.tool = "preset" /\ cmd'.steps = cmd.steps
  BY <1>1, <1>2 DEF ApplyFields
<1>4. DOMAIN manifests' = DOMAIN manifests \cup {Len(manifests')} /\ manifests'[Len(manifests')] = m
  BY <1>1, <1>2, SeqAppend
<1>5. \A i \in DOMAIN manifests : manifests'[i] = manifests[i]
  BY <1>1, <1>2, SeqAppend
<1> SUFFICES ASSUME Sound'
             PROVE  /\ \A p \in Profile : Resolves(cfg'[p], mdl'[p])
                    /\ RecordsFit' /\ BackupsFit' /\ StepsFit' /\ SetFitsIn' /\ RevertFitsIn'
  BY DEF Resolved
<1>6. /\ Sound /\ (\A p \in Profile : Resolves(cfg[p], mdl[p]))
      /\ RecordsFit /\ BackupsFit /\ StepsFit
  BY <1>2 DEF Sound, Resolved
<1>7. (\A p \in Profile : Resolves(cfg'[p], mdl'[p])) /\ RecordsFit'
  BY <1>2, <1>6 DEF RecordsFit, Recorded
<1>8. BackupsFit'
  BY <1>1, <1>2, <1>4, <1>5, <1>6 DEF BackupsFit, Files
<1>9. StepsFit' /\ SetFitsIn' /\ RevertFitsIn'
  BY <1>2, <1>3, <1>6 DEF StepsFit, SetFitsIn, Setting, RevertFitsIn, At
<1> QED
  BY <1>7, <1>8, <1>9

LEMMA ResolvedStatus ==
  ASSUME Base, Resolved, NEW id \in DOMAIN manifests, NEW m, manifests' = [manifests EXCEPT ![id] = m],
         m.files = manifests[id].files, UNCHANGED <<cfg, mdl, smolState, server>>, mishap \subseteq mishap', StepsFit', cmd'.tool # "smol"
  PROVE  Resolved'
<1> SUFFICES ASSUME Sound'
             PROVE  /\ \A p \in Profile : Resolves(cfg'[p], mdl'[p])
                    /\ RecordsFit' /\ BackupsFit' /\ StepsFit' /\ SetFitsIn' /\ RevertFitsIn'
  BY DEF Resolved
<1>1. /\ Sound /\ (\A p \in Profile : Resolves(cfg[p], mdl[p])) /\ RecordsFit /\ BackupsFit
  BY DEF Sound, Resolved
<1>2. DOMAIN manifests' = DOMAIN manifests /\ \A i \in DOMAIN manifests : manifests'[i].files = manifests[i].files
  BY DEF Base, Types
<1>3. BackupsFit'
  BY <1>1, <1>2 DEF BackupsFit
<1> QED
  BY <1>1, <1>3 DEF RecordsFit, Recorded, SetFitsIn, Setting, RevertFitsIn, At

LEMMA ResolvedWrite ==
  ASSUME Base, Resolved, ApplyWrite, UNCHANGED smolVars
  PROVE  Resolved'
<1>1. /\ ApplyFits /\ Types /\ cmd.tool = "preset" /\ cmd.pc = "write" /\ UNCHANGED <<mishap, manifests, smolState, server>>
      /\ DOMAIN cmd = ApplyFields /\ DOMAIN cmd.steps \subseteq Profile \X Kind
  BY DEF Base, CmdFits, ApplyWrite, At, presetVars, ApplyFits, smolVars
<1>2. PICK pk \in cmd.todo :
        \/ WriteStep(cmd.steps[pk]) /\ cmd' = [cmd EXCEPT !.todo = @ \ {pk}, !.on = cmd.steps[pk].p]
        \/ ToRestore /\ UNCHANGED <<cfg, mdl>>
  BY DEF ApplyWrite
<1> DEFINE s == cmd.steps[pk]
<1>3. pk \in DOMAIN cmd.steps /\ pk \in Profile \X Kind /\ StepFits(s, pk)
  BY <1>1 DEF ApplyFits
<1>4. cmd'.tool = "preset" /\ cmd'.steps = cmd.steps
  BY <1>1, <1>2 DEF ToRestore, ApplyFields
<1>5. CASE UNCHANGED <<cfg, mdl>>
  <2>1. Sound => StepsFit
    BY DEF Resolved
  <2>2. CASE Sound
    <3>1. StepsFit'
      BY <1>1, <1>4, <1>5, <2>1, <2>2 DEF StepsFit
    <3> QED
      BY <1>1, <1>4, <1>5, <3>1, ResolvedKeep
  <2> QED
    BY <1>1, <2>2 DEF Resolved, Sound
<1>6. CASE WriteStep(s) /\ Sound
  <2>1. \A p \in Profile : SmolIn(mdl'[p]) = SmolIn(mdl[p])
    BY <1>1, <1>3, <1>6, SettingFits, LikeMeans
  <2>2. StepsFit
    BY <1>6 DEF Resolved
  <2>3. StepsFit'
    BY <1>1, <1>4, <2>1, <2>2 DEF StepsFit
  <2>4. \A p \in Profile : cfg'[p].smol = cfg[p].smol \/ (p = pk[1] /\ s.kind = "modelRoles" /\ cfg'[p].smol = s.after.smol)
    BY <1>1, <1>3, <1>6, SettingFits
  <2>5. \A p \in Profile : cfg'[p].smol = cfg[p].smol \/ Resolves(cfg'[p], mdl[p])
    BY <1>1, <1>3, <2>2, <2>4 DEF StepsFit, StepFits, Resolves
  <2> QED
    BY <1>1, <1>4, <2>1, <2>3, <2>5, ResolvedKeep
<1> QED
  BY <1>1, <1>2, <1>5, <1>6 DEF Resolved, Sound

LEMMA ResolvedRestore ==
  ASSUME Base, Resolved, RestoreFile, UNCHANGED smolVars
  PROVE  Resolved'
<1>1. PICK pf \in cmd.left :
        /\ cmd' = [cmd EXCEPT !.left = @ \ {pf}]
        /\ pf[1] \in cmd.ps
        /\ \A p \in Profile :
             /\ cfg'[p] = cfg[p] \/ (p = pf[1] /\ cfg'[p] = Its.files[p].config)
             /\ mdl'[p] = mdl[p] \/ (p = pf[1] /\ mdl'[p] = Its.files[p].models)
  BY RestoredFits
<1>2. OnIts /\ cmd.ps \subseteq Profile
  BY RestoredFits
<1>3. /\ cmd.tool \in {"preset", "rollback"} /\ cmd.pc = "restore" /\ UNCHANGED <<mishap, manifests, smolState, server>>
  BY DEF RestoreFile, Restoring, presetVars, smolVars
<1>4. /\ cmd'.tool = cmd.tool /\ (cmd.tool = "preset" => cmd'.steps = cmd.steps)
  BY <1>1, <1>3 DEF Base, CmdFits, ApplyFits, RollbackFits, ApplyFields, RollbackFields
<1>5. CASE Sound
  <2>1. AsBackedUp /\ BackupsFit /\ StepsFit
    BY <1>3, <1>5 DEF Base, CmdFits, ApplyFits, RollbackFits, Resolved, Sound
  <2>2. \A p \in Profile : SmolIn(mdl'[p]) = SmolIn(mdl[p])
    BY <1>1, <1>2, <2>1, LikeMeans DEF AsBackedUp
  <2>3. \A p \in Profile : cfg'[p].smol = cfg[p].smol \/ Resolves(cfg'[p], mdl[p])
    BY <1>1, <1>2, <2>1, LikeMeans DEF AsBackedUp, BackupsFit, OnIts, Its, Resolves
  <2>4. StepsFit'
    <3>1. CASE cmd.tool = "preset"
      <4>1. DOMAIN cmd.steps \subseteq Profile \X Kind
        BY <3>1 DEF Base, CmdFits, ApplyFits
      <4> QED
        BY <1>4, <2>1, <2>2, <3>1, <4>1 DEF StepsFit
    <3> QED
      BY <1>4, <3>1 DEF StepsFit
  <2> QED
    BY <1>3, <1>4, <2>2, <2>3, <2>4, ResolvedKeep
<1> QED
  BY <1>3, <1>5 DEF Resolved, Sound

LEMMA ResolvedPlan ==
  ASSUME Base, Resolved, ApplyPlan, UNCHANGED smolVars
  PROVE  Resolved'
<1>1. PICK n \in DOMAIN Preset, ps \in SUBSET Profile :
        /\ cmd' = [tool |-> "preset", pc |-> "backup", name |-> n, ps |-> ps, steps |-> Plan(n, ps),
                   todo |-> Changed(Plan(n, ps)), on |-> Nil, id |-> Nil, state |-> Nil, left |-> {}]
        /\ UNCHANGED <<cfg, mdl, mishap, manifests>>
  BY DEF ApplyPlan, Begin
<1>2. cmd'.tool = "preset" /\ cmd'.steps = Plan(n, ps)
  <2> HIDE DEF Plan, Changed
  <2> QED
    BY <1>1
<1>3. DOMAIN Plan(n, ps) = ps \X KindsOf(n)
  BY DEF Plan
<1>4. \A pk \in ps \X KindsOf(n) : pk[2] = "modelRoles" => Plan(n, ps)[pk].after.smol = cfg[pk[1]].smol
  <2> SUFFICES ASSUME NEW pk \in ps \X KindsOf(n), pk[2] = "modelRoles"
               PROVE  Plan(n, ps)[pk].after.smol = cfg[pk[1]].smol
    OBVIOUS
  <2>1. Plan(n, ps)[pk] = StepFor(n, pk[1], pk[2])
    BY DEF Plan
  <2> QED
    BY <2>1 DEF StepFor, Roles
<1>5. Sound => StepsFit'
  <2> SUFFICES ASSUME Sound, NEW pk \in ps \X KindsOf(n), pk[2] = "modelRoles", Plan(n, ps)[pk].after.smol \in SmolModel
               PROVE  SmolIn(mdl[pk[1]]) = Plan(n, ps)[pk].after.smol
    BY <1>1, <1>2, <1>3 DEF StepsFit
  <2> QED
    BY <1>4 DEF Resolved, Resolves
<1>6. CASE Sound
  BY <1>1, <1>2, <1>5, <1>6, ResolvedKeep DEF smolVars
<1> QED
  BY <1>1, <1>6 DEF Resolved, Sound

LEMMA ResolvedPresets ==
  ASSUME Base, Resolved, PresetsNext, UNCHANGED smolVars
  PROVE  Resolved'
<1>1. CASE ApplyReadback
  <2>1. DOMAIN cmd = ApplyFields /\ cmd.tool = "preset"
    BY <1>1 DEF ApplyReadback, At, Base, CmdFits, ApplyFits
  <2>2. cmd'.tool = "preset" /\ cmd'.steps = cmd.steps /\ UNCHANGED <<cfg, mdl, mishap, manifests>>
    BY <1>1, <2>1 DEF ApplyReadback, Goto, ToRestore, ApplyFields, presetVars
  <2>3. CASE Sound
    <3>1. StepsFit'
      BY <2>1, <2>2, <2>3 DEF Resolved, StepsFit
    <3> QED
      BY <2>2, <3>1, ResolvedKeep DEF smolVars
  <2> QED
    BY <2>2, <2>3 DEF Resolved, Sound
<1>2. CASE ApplyRecord \/ RollbackBegin \/ RollbackFails \/ RollbackRecord
  <2>1. cmd'.tool \in {"none", "rollback"}
    <3>1. CASE ApplyRecord \/ RollbackFails
      BY <3>1 DEF ApplyRecord, RollbackFails, Finish, Idle
    <3>2. CASE RollbackBegin
      BY <3>2 DEF RollbackBegin, Begin
    <3>3. CASE RollbackRecord
      <4>1. cmd.tool = "rollback" /\ cmd' = [cmd EXCEPT !.pc = "status"]
        BY <3>3 DEF RollbackRecord, At, Goto
      <4>2. DOMAIN cmd = RollbackFields
        BY <4>1 DEF Base, CmdFits, RollbackFits
      <4> QED
        BY <4>1, <4>2 DEF RollbackFields
    <3> QED
      BY <1>2, <3>1, <3>2, <3>3
  <2>2. UNCHANGED <<cfg, mdl, manifests>> /\ mishap \subseteq mishap'
    BY <1>2 DEF ApplyRecord, RollbackBegin, RollbackFails, RollbackRecord, presetVars
  <2>3. StepsFit' /\ cmd'.tool # "smol"
    BY <2>1 DEF StepsFit
  <2> QED
    BY <2>2, <2>3, ResolvedKeep DEF smolVars
<1>3. CASE ApplyRestored \/ RollbackStatus
  <2>1. cmd' = Idle /\ cmd.id \in DOMAIN manifests /\ mishap \subseteq mishap' /\ UNCHANGED <<cfg, mdl>>
    BY <1>3 DEF ApplyRestored, RollbackStatus, Finish, At, Base, CmdFits, ApplyFits, RollbackFits, OnIts
  <2>2. PICK m : manifests' = [manifests EXCEPT ![cmd.id] = m] /\ m.files = manifests[cmd.id].files
    <3>1. PICK status : manifests' = [manifests EXCEPT ![cmd.id] = [manifests[cmd.id] EXCEPT !.status = status]]
      BY <1>3 DEF ApplyRestored, RollbackStatus, SetStatus
    <3>2. [manifests[cmd.id] EXCEPT !.status = status].files = manifests[cmd.id].files
      BY <2>1 DEF Base, Types, ManifestFits
    <3> QED
      BY <3>1, <3>2
  <2>3. StepsFit' /\ cmd'.tool # "smol"
    BY <2>1 DEF StepsFit, Idle
  <2> QED
    BY <2>1, <2>2, <2>3, ResolvedStatus DEF smolVars
<1>4. CASE ApplyCommit
  <2>1. DOMAIN cmd = ApplyFields /\ cmd.tool = "preset" /\ cmd.id \in DOMAIN manifests /\ UNCHANGED <<cfg, mdl, mishap>>
    BY <1>4 DEF ApplyCommit, At, Base, CmdFits, ApplyFits, OnIts
  <2>2. cmd'.tool = "preset" /\ cmd'.steps = cmd.steps
    BY <1>4, <2>1 DEF ApplyCommit, Goto, ApplyFields
  <2> DEFINE m == [manifests[cmd.id] EXCEPT !.status = "applied", !.sha = Files(cmd.ps)]
  <2>3. manifests' = [manifests EXCEPT ![cmd.id] = m]
    BY <1>4 DEF ApplyCommit
  <2>4. m.files = manifests[cmd.id].files
    BY <2>1 DEF Base, Types, ManifestFits
  <2> HIDE DEF m
  <2>5. CASE Sound
    <3>1. StepsFit'
      BY <2>1, <2>2, <2>5 DEF Resolved, StepsFit
    <3> QED
      BY <2>1, <2>2, <2>3, <2>4, <3>1, ResolvedStatus DEF smolVars
  <2> QED
    BY <2>1, <2>5 DEF Resolved, Sound
<1> QED
  BY <1>1, <1>2, <1>3, <1>4, ResolvedPlan, ResolvedBackup, ResolvedWrite, ResolvedRestore DEF PresetsNext

(***************************************************************************)
(* set and revert.                                                         *)
(***************************************************************************)
\* What a step of the smol role has to show.
LEMMA ResolvedBySmol ==
  ASSUME Resolved, mishap \subseteq mishap', UNCHANGED manifests, cmd'.tool # "preset",
         Sound' /\ Sound => /\ \A p \in Profile : Resolves(cfg'[p], mdl'[p])
                            /\ RecordsFit' /\ SetFitsIn' /\ RevertFitsIn'
  PROVE  Resolved'
BY DEF Resolved, Sound, BackupsFit, StepsFit

LEMMA ResolvedSet ==
  ASSUME Base, Resolved, SmolSet, UNCHANGED presetVars
  PROVE  Resolved'
<1>1. PICK m \in SmolModel :
        /\ cmd' = [tool |-> "smol", pc |-> "start", new |-> [model |-> m, profiles |-> Nil],
                   prior |-> IF Recorded THEN smolState.profiles ELSE Nil, done |-> [p \in Profile |-> Nil],
                   left |-> Profile, at |-> Nil]
        /\ server' = IF smolState # Nil /\ smolState.model # m THEN Nil ELSE server
        /\ UNCHANGED <<cfg, mdl, mishap, smolState, manifests>>
  BY DEF SmolSet, Begin, presetVars
<1>2. cmd'.tool = "smol" /\ cmd'.pc = "start" /\ cmd'.new.model = m /\ cmd'.prior = IF Recorded THEN smolState.profiles ELSE Nil
  BY <1>1
<1>3. Sound => SetFitsIn'
  <2>1. Sound => RecordsFit
    BY DEF Resolved
  <2>2. Sound /\ cmd'.prior # Nil => \A p \in Profile : Plain(cmd'.prior[p])
    BY <1>2, <2>1 DEF RecordsFit
  <2> QED
    BY <1>1, <1>2, <2>2 DEF SetFitsIn
<1>4. RevertFitsIn'
  BY <1>2 DEF RevertFitsIn, At
<1>5. Sound => RecordsFit' /\ \A p \in Profile : Resolves(cfg'[p], mdl'[p])
  BY <1>1 DEF Resolved, RecordsFit, Recorded
<1> QED
  BY <1>1, <1>2, <1>3, <1>4, <1>5, ResolvedBySmol

LEMMA ResolvedStart ==
  ASSUME Base, Resolved, SmolStart, UNCHANGED presetVars
  PROVE  Resolved'
<1>1. /\ cmd.tool = "smol" /\ DOMAIN cmd = SetFields /\ cmd.pc = "start" /\ UNCHANGED <<cfg, mdl, mishap, manifests>>
      /\ DOMAIN cmd.new = {"model", "profiles"} /\ cmd.new.profiles = Nil
  BY SetWhere DEF SmolStart, presetVars
<1>2. CASE StartServer(cmd.new) /\ Goto("check")
  <2>1. /\ cmd'.tool = "smol" /\ cmd'.pc = "check" /\ cmd'.prior = cmd.prior /\ cmd'.new = cmd.new /\ cmd'.left = cmd.left /\ cmd'.done = cmd.done
    BY <1>1, <1>2 DEF Goto, SetFields
  <2>2. (server # Nil /\ smolState' = smolState) \/ smolState' = cmd.new
    BY <1>2 DEF StartServer, smolVars
  <2>3. Recorded' => Recorded /\ smolState' = smolState /\ server # Nil
    BY <1>1, <2>2 DEF Recorded
  <2>4. Sound => RecordsFit' /\ SetFitsIn' /\ \A p \in Profile : Resolves(cfg'[p], mdl'[p])
    <3> SUFFICES ASSUME Sound
                 PROVE  RecordsFit' /\ SetFitsIn' /\ \A p \in Profile : Resolves(cfg'[p], mdl'[p])
      OBVIOUS
    <3>1. RecordsFit /\ SetFitsIn /\ \A p \in Profile : Resolves(cfg[p], mdl[p])
      BY DEF Resolved
    <3>2. RecordsFit'
      BY <1>1, <2>3, <3>1 DEF RecordsFit
    <3>3. Recorded' => smolState'.model = cmd.new.model
      BY <1>1, <2>3, <3>1 DEF SetFitsIn, Setting, Recorded
    <3>4. SetFitsIn'
      BY <1>1, <2>1, <3>1, <3>3 DEF SetFitsIn, Setting, Set
    <3> QED
      BY <1>1, <3>1, <3>2, <3>4
  <2>5. RevertFitsIn'
    BY <2>1 DEF RevertFitsIn, At
  <2> QED
    BY <1>1, <2>1, <2>4, <2>5, ResolvedBySmol
<1>3. CASE Finish /\ UNCHANGED smolVars
  <2>1. cmd'.tool = "none"
    BY <1>3 DEF Finish, Idle
  <2> QED
    BY <1>1, <1>3, <2>1, ResolvedBySmol DEF smolVars, Resolved, RecordsFit, Recorded, SetFitsIn, Setting, RevertFitsIn, At
<1> QED
  BY <1>2, <1>3 DEF SmolStart

LEMMA ResolvedCheck ==
  ASSUME Base, Resolved, SmolCheck, UNCHANGED presetVars
  PROVE  Resolved'
<1>1. /\ cmd.tool = "smol" /\ DOMAIN cmd = SetFields /\ cmd.pc = "check" /\ UNCHANGED <<cfg, mdl, mishap, manifests, smolState, server>>
  BY SetWhere DEF SmolCheck, presetVars, smolVars
<1>2. CASE Finish
  <2>1. cmd'.tool = "none"
    BY <1>2 DEF Finish, Idle
  <2> QED
    BY <1>1, <2>1, ResolvedBySmol DEF Resolved, RecordsFit, Recorded, SetFitsIn, Setting, RevertFitsIn, At
<1>3. CASE Goto("next")
  <2>1. /\ cmd'.tool = "smol" /\ cmd'.pc = "next" /\ cmd'.prior = cmd.prior /\ cmd'.new = cmd.new /\ cmd'.left = cmd.left
        /\ cmd'.done = cmd.done
    BY <1>1, <1>3 DEF Goto, SetFields
  <2> QED
    BY <1>1, <2>1, ResolvedBySmol DEF Resolved, RecordsFit, Recorded, SetFitsIn, Set, Setting, RevertFitsIn, At
<1> QED
  BY <1>2, <1>3 DEF SmolCheck

\* The block goes in before the line that names it.
LEMMA ResolvedBlock ==
  ASSUME Base, Resolved, SmolBlock, UNCHANGED presetVars
  PROVE  Resolved'
<1>1. /\ cmd.tool = "smol" /\ DOMAIN cmd = SetFields /\ cmd.pc = "next" /\ cmd.new.model \in SmolModel /\ cmd.left \subseteq Profile
      /\ UNCHANGED <<manifests, smolState, server>> /\ mishap \subseteq mishap'
  BY SetWhere DEF SmolBlock, presetVars, smolVars
<1>2. PICK p \in cmd.left :
        /\ cmd' = [cmd EXCEPT !.pc = "line", !.at = p, !.done[p] = Record(p)]
        /\ cmd'.at = p /\ cmd'.pc = "line" /\ cmd'.left = cmd.left /\ cmd'.new = cmd.new
        /\ cmd'.done[p] = Record(p) /\ (\A q \in Profile : q # p => cmd'.done[q] = cmd.done[q])
        /\ Record(p).previous \in SmolModel => "forgot" \in mishap'
        /\ cfg' = cfg /\ SmolIn(mdl'[p]) = cmd.new.model /\ (\A q \in Profile : q # p => mdl'[q] = mdl[q])
  BY BlockStep
<1>3. cmd'.tool = "smol" /\ cmd'.prior = cmd.prior
  BY <1>1, <1>2 DEF SetFields
<1> SUFFICES ASSUME Sound', Sound
             PROVE  /\ \A q \in Profile : Resolves(cfg'[q], mdl'[q])
                    /\ RecordsFit' /\ SetFitsIn' /\ RevertFitsIn'
  BY <1>1, <1>3, ResolvedBySmol
<1>4. RecordsFit /\ SetFitsIn /\ \A q \in Profile : Resolves(cfg[q], mdl[q])
  BY DEF Resolved
<1>5. Plain(Record(p))
  BY <1>2 DEF Sound, Plain
<1>6. Resolves(cfg'[p], mdl'[p])
  <2>1. cfg[p].smol = cmd.new.model \/ Record(p).previous = cfg[p].smol
    BY DEF Record, Selector
  <2> QED
    BY <1>2, <1>5, <2>1 DEF Plain, Resolves
<1>7. \A q \in Profile : Resolves(cfg'[q], mdl'[q])
  BY <1>2, <1>4, <1>6 DEF Resolves
<1>8. Recorded => smolState.model = cmd.new.model
  BY <1>1, <1>4 DEF SetFitsIn, Setting
<1>9. RecordsFit'
  BY <1>1, <1>2, <1>4, <1>8 DEF RecordsFit, Recorded
<1>10. SetFitsIn'
  <2>1. \A q \in Profile \ cmd.left : Set(q)'
    BY <1>1, <1>2, <1>4 DEF SetFitsIn, Setting, Set
  <2>2. Set(p)'
    BY <1>2, <1>5 DEF Set
  <2>3. Set(cmd.at)'
    BY <1>2, <2>2 DEF Set
  <2>4. cmd.prior # Nil => \A q \in Profile : Plain(cmd.prior[q])
    BY <1>1, <1>4 DEF SetFitsIn, Setting
  <2> QED
    BY <1>1, <1>2, <1>3, <1>8, <2>1, <2>3, <2>4 DEF SetFitsIn, Recorded
<1>11. RevertFitsIn'
  BY <1>2 DEF RevertFitsIn, At
<1> QED
  BY <1>7, <1>9, <1>10, <1>11

LEMMA ResolvedLine ==
  ASSUME Base, Resolved, SmolLine, UNCHANGED presetVars
  PROVE  Resolved'
<1>1. /\ cmd.tool = "smol" /\ DOMAIN cmd = SetFields /\ cmd.pc = "line" /\ cmd.left \subseteq Profile
      /\ UNCHANGED <<manifests, smolState, server>>
  BY SetWhere DEF SmolLine, presetVars, smolVars
<1>2. /\ mishap' = mishap /\ mdl' = mdl /\ cmd.at \in Profile /\ cfg'[cmd.at].smol = cmd.new.model
      /\ cmd'.pc = "next" /\ cmd'.left = cmd.left \ {cmd.at} /\ cmd'.new = cmd.new /\ cmd'.done = cmd.done
      /\ \A q \in Profile : q # cmd.at => cfg'[q] = cfg[q]
  BY LineStep
<1>3. cmd'.tool = "smol" /\ cmd'.prior = cmd.prior
  BY <1>1 DEF SetFields, SmolLine
<1> SUFFICES ASSUME Sound
             PROVE  /\ \A q \in Profile : Resolves(cfg'[q], mdl'[q])
                    /\ RecordsFit' /\ SetFitsIn' /\ RevertFitsIn'
  BY <1>1, <1>2, <1>3, ResolvedBySmol
<1>4. RecordsFit /\ SetFitsIn /\ \A q \in Profile : Resolves(cfg[q], mdl[q])
  BY DEF Resolved
<1>5. Set(cmd.at)
  BY <1>1, <1>4 DEF SetFitsIn, Setting
<1>6. \A q \in Profile : Resolves(cfg'[q], mdl'[q])
  BY <1>2, <1>4, <1>5 DEF Resolves, Set
<1>7. RecordsFit'
  BY <1>1, <1>2, <1>4 DEF RecordsFit, Recorded
<1>8. \A q \in Profile \ cmd'.left : Set(q)'
  BY <1>1, <1>2, <1>4, <1>5 DEF SetFitsIn, Setting, Set
<1>9. SetFitsIn'
  BY <1>1, <1>2, <1>3, <1>4, <1>8 DEF SetFitsIn, Setting, Recorded
<1>10. RevertFitsIn'
  BY <1>2 DEF RevertFitsIn, At
<1> QED
  BY <1>6, <1>7, <1>9, <1>10

LEMMA ResolvedSave ==
  ASSUME Base, Resolved, SmolSave, UNCHANGED presetVars
  PROVE  Resolved'
<1>1. /\ cmd.tool = "smol" /\ DOMAIN cmd = SetFields /\ cmd.pc = "next" /\ cmd.left = {}
      /\ UNCHANGED <<cfg, mdl, mishap, manifests>> /\ cmd'.tool = "none"
  BY SetWhere DEF SmolSave, presetVars, Finish, Idle
<1>2. smolState' # Nil => smolState'.model = cmd.new.model /\ smolState'.profiles = cmd.done
  BY SaveStep
<1> SUFFICES ASSUME Sound
             PROVE  /\ \A q \in Profile : Resolves(cfg'[q], mdl'[q])
                    /\ RecordsFit' /\ SetFitsIn' /\ RevertFitsIn'
  BY <1>1, ResolvedBySmol
<1>3. SetFitsIn /\ \A q \in Profile : Resolves(cfg[q], mdl[q])
  BY DEF Resolved
<1>4. \A q \in Profile : Set(q)
  BY <1>1, <1>3 DEF SetFitsIn, Setting
<1>5. RecordsFit'
  BY <1>1, <1>2, <1>4 DEF RecordsFit, Recorded, Set
<1> QED
  BY <1>1, <1>3, <1>5 DEF SetFitsIn, Setting, RevertFitsIn, At

\* A line goes back before its block goes.
LEMMA ResolvedUnline ==
  ASSUME Base, Resolved, SmolUnline, UNCHANGED presetVars
  PROVE  Resolved'
<1>1. /\ cmd.tool = "smol" /\ DOMAIN cmd = RevertFields /\ cmd.pc = "unline" /\ Recorded
      /\ UNCHANGED <<mishap, manifests, smolState>>
  BY RevertWhere DEF SmolUnline, presetVars, smolVars
<1>2. PICK p \in cmd.left :
        /\ p \in Profile /\ cmd'.pc = "unblock" /\ cmd'.at = p /\ mdl' = mdl
        /\ \/ cfg[p].smol # smolState.model /\ cfg' = cfg
           \/ cfg'[p].smol = smolState.profiles[p].previous
        /\ \A q \in Profile : q # p => cfg'[q] = cfg[q]
  BY UnlineStep
<1>3. cmd'.tool = "smol"
  BY <1>1 DEF SmolUnline, RevertFields
<1> SUFFICES ASSUME Sound
             PROVE  /\ \A q \in Profile : Resolves(cfg'[q], mdl'[q])
                    /\ RecordsFit' /\ SetFitsIn' /\ RevertFitsIn'
  BY <1>1, <1>3, ResolvedBySmol
<1>4. RecordsFit /\ \A q \in Profile : Resolves(cfg[q], mdl[q])
  BY DEF Resolved
<1>5. cfg'[p].smol \notin SmolModel
  <2>1. SmolIn(mdl[p]) \in {Nil, smolState.model} /\ Plain(smolState.profiles[p]) /\ Nil \notin SmolModel
    BY <1>1, <1>2, <1>4, FilesAssumption DEF RecordsFit
  <2> QED
    BY <1>2, <1>4, <2>1 DEF Resolves, Plain
<1>6. \A q \in Profile : Resolves(cfg'[q], mdl'[q])
  BY <1>2, <1>4, <1>5 DEF Resolves
<1>7. RecordsFit'
  BY <1>1, <1>2, <1>4 DEF RecordsFit, Recorded
<1> QED
  BY <1>2, <1>3, <1>5, <1>6, <1>7 DEF SetFitsIn, Setting, RevertFitsIn, At

LEMMA ResolvedUnblock ==
  ASSUME Base, Resolved, SmolUnblock, UNCHANGED presetVars
  PROVE  Resolved'
<1>1. /\ cmd.tool = "smol" /\ DOMAIN cmd = RevertFields /\ cmd.pc = "unblock" /\ At("smol", "unblock")
      /\ UNCHANGED <<manifests, smolState>>
  BY RevertWhere DEF SmolUnblock, presetVars, smolVars
<1>2. /\ mishap' = mishap /\ cfg' = cfg /\ cmd.at \in Profile /\ cmd'.pc \in {"halt", "unline"} /\ SmolIn(mdl'[cmd.at]) = Nil
      /\ \A q \in Profile : q # cmd.at => mdl'[q] = mdl[q]
  BY UnblockStep
<1>3. cmd'.tool = "smol"
  BY <1>1 DEF SmolUnblock, RevertFields
<1> SUFFICES ASSUME Sound
             PROVE  /\ \A q \in Profile : Resolves(cfg'[q], mdl'[q])
                    /\ RecordsFit' /\ SetFitsIn' /\ RevertFitsIn'
  BY <1>1, <1>2, <1>3, ResolvedBySmol
<1>4. RecordsFit /\ RevertFitsIn /\ \A q \in Profile : Resolves(cfg[q], mdl[q])
  BY DEF Resolved
<1>5. \A q \in Profile : Resolves(cfg'[q], mdl'[q])
  BY <1>1, <1>2, <1>4 DEF Resolves, RevertFitsIn
<1>6. RecordsFit'
  BY <1>1, <1>2, <1>4 DEF RecordsFit, Recorded
<1> QED
  BY <1>2, <1>5, <1>6 DEF SetFitsIn, Setting, RevertFitsIn, At

LEMMA ResolvedSmol ==
  ASSUME Base, Resolved, SmolNext, UNCHANGED presetVars
  PROVE  Resolved'
<1>1. CASE SmolRevert
  <2>1. /\ cmd'.tool = "smol" /\ cmd'.pc = "unline" /\ UNCHANGED <<cfg, mdl, mishap, manifests, smolState>>
    BY <1>1 DEF SmolRevert, Begin, presetVars, smolVars
  <2> QED
    BY <2>1, ResolvedBySmol DEF Resolved, RecordsFit, Recorded, SetFitsIn, Setting, RevertFitsIn, At
<1>2. CASE SmolHalt \/ SmolServer
  <2>1. cmd'.tool = "none" /\ UNCHANGED <<cfg, mdl, mishap, manifests>> /\ (smolState' = smolState \/ smolState' = Nil)
    BY <1>2, HaltStep, ServerStep DEF SmolHalt, SmolServer, presetVars, Idle
  <2> QED
    BY <2>1, ResolvedBySmol DEF Resolved, RecordsFit, Recorded, SetFitsIn, Setting, RevertFitsIn, At
<1> QED
  BY <1>1, <1>2, ResolvedSet, ResolvedStart, ResolvedCheck, ResolvedBlock, ResolvedLine, ResolvedSave, ResolvedUnline,
     ResolvedUnblock DEF SmolNext

LEMMA ResolvedInit == Init => Resolved
<1> SUFFICES ASSUME Init
             PROVE  Resolved
  OBVIOUS
<1>1. cmd = Idle /\ DOMAIN manifests = {} /\ ~Recorded /\ \A p \in Profile : cfg[p].smol = OrigSmol
  BY DEF Init, FilesInit, PresetsInit, SmolInit, Recorded
<1>2. OrigSmol \notin SmolModel
  BY FilesAssumption
<1> QED
  BY <1>1, <1>2 DEF Resolved, Resolves, RecordsFit, BackupsFit, StepsFit, SetFitsIn, Setting, RevertFitsIn, At, Idle

LEMMA ResolvedNext == Base /\ Resolved /\ [Next]_vars => Resolved'
<1> SUFFICES ASSUME Base, Resolved, [Next]_vars
             PROVE  Resolved'
  OBVIOUS
<1>1. CASE PresetsNext /\ UNCHANGED <<routeVars, smolVars>>
  BY <1>1, ResolvedPresets
<1>2. CASE RoutesNext /\ UNCHANGED <<presetVars, smolVars>>
  BY <1>2, ResolvedRoutes
<1>3. CASE SmolNext /\ UNCHANGED <<presetVars, routeVars>>
  BY <1>3, ResolvedSmol
<1>4. CASE (HandEdit \/ Death) /\ UNCHANGED <<presetVars, routeVars, smolVars>>
  BY <1>4, ResolvedWorld
<1>5. CASE UNCHANGED vars
  BY <1>5, ResolvedKeep DEF vars, fileVars, presetVars, smolVars
<1> QED
  BY <1>1, <1>2, <1>3, <1>4, <1>5 DEF Next

\* A smol line of localbench's names a block that is in models.yml, at every
\* moment of set, revert, apply and rollback, dead or alive.
THEOREM LinesResolve == Spec => []SmolResolves
<1>1. Base /\ Resolved => SmolResolves
  BY FilesAssumption DEF Base, Types, Resolved, Sound, Resolves, SmolIn, SmolResolves
<1> QED
  BY <1>1, BaseInit, BaseNext, ResolvedInit, ResolvedNext, PTL DEF Spec

(***************************************************************************)
(* The routes.                                                             *)
(***************************************************************************)
\* The routes are in every profile when there is a manifest, in none when not.
Agree ==
  /\ routes = Nil => \A p \in Profile : ~RoutedIn(mdl[p])
  /\ routes # Nil => \A p \in Profile : RoutedIn(mdl[p])

\* Which edits an install or a remove has made so far.
Writing ==
  /\ routes = Nil
  /\ \A p \in Profile :
       /\ ~RoutedIn(cmd.snap[p])
       /\ mdl[p] = IF p \in cmd.done THEN WithBlock(ModelsOf(cmd.snap, p)) ELSE cmd.snap[p]

Reverting ==
  /\ routes # Nil
  /\ \A p \in Profile :
       mdl[p] = IF p \in cmd.done THEN Stripped(p, cmd.snap[p], routes[p]) ELSE cmd.snap[p]

Standing == {"service", "readback", "recover", "stop", "plan", "blocked"}

Routing ==
  mishap = {} =>
    /\ cmd.tool # "route" \/ cmd.pc \in {"halt", "cleanup"} \cup Standing => Agree
    /\ cmd.tool = "route" /\ cmd.pc \in {"write", "undo"} => Writing
    /\ cmd.tool = "route" /\ cmd.pc \in {"revert", "redo"} => Reverting
    /\ cmd.tool = "route" /\ cmd.pc \in Standing => routes # Nil
    /\ cmd.tool = "route" /\ cmd.pc = "cleanup" => routes = Nil

\* A running gateway is open; behind a closed gate it is down, or will be
\* opened again with the state it had before.
Open(s) == s.loaded => s.accepting

ServiceFields == {"plist", "loaded", "accepting", "stored"}

Serving ==
  /\ DOMAIN service = ServiceFields
  /\ cmd.tool = "route" /\ cmd.pc \in {"write", "undo", "service", "readback", "recover"} => cmd.op = "install"
  /\ "death" \notin mishap =>
       /\ cmd.tool # "route" \/ cmd.pc \in {"write", "undo", "service", "readback", "recover"} => Open(service)
       /\ cmd.tool = "route" /\ cmd.op = "install" =>
            /\ Open(cmd.before)
            /\ cmd.pc \in {"plan", "revert", "redo", "cleanup"} => (service.loaded => cmd.before.loaded)
       /\ cmd.tool = "route" /\ cmd.op = "remove" /\ cmd.pc \in {"plan", "revert", "redo", "cleanup"} => ~service.loaded

LEMMA AgreeKeeps ==
  ASSUME Agree, routes' = routes, \A p \in Profile : RoutedIn(mdl'[p]) <=> RoutedIn(mdl[p])
  PROVE  Agree'
BY DEF Agree

\* Steps that are not of the routes: they keep every profile's routes.
LEMMA RoutingBeside ==
  ASSUME Routing, mishap \subseteq mishap', routes' = routes, cmd'.tool # "route", cmd.tool # "route",
         mishap' = {} => \A p \in Profile : RoutedIn(mdl'[p]) <=> RoutedIn(mdl[p])
  PROVE  Routing'
BY AgreeKeeps DEF Routing

LEMMA PresetsRouted ==
  ASSUME Base, PresetsNext, UNCHANGED smolVars
  PROVE  /\ cmd.tool # "route" /\ cmd'.tool # "route" /\ mishap \subseteq mishap'
         /\ mishap' = {} => \A p \in Profile : RoutedIn(mdl'[p]) <=> RoutedIn(mdl[p])
<1>1. mishap \subseteq mishap'
  BY DEF PresetsNext, ApplyPlan, ApplyBackup, ApplyWrite, ApplyReadback, ApplyCommit, ApplyRecord, RestoreFile, ApplyRestored,
         RollbackBegin, RollbackFails, RollbackRecord, RollbackStatus
<1>2. CASE ApplyPlan \/ RollbackBegin
  BY <1>1, <1>2 DEF ApplyPlan, RollbackBegin, Begin, Idle
<1>3. CASE ApplyBackup \/ ApplyCommit \/ ApplyReadback
  <2>1. cmd.tool = "preset" /\ DOMAIN cmd = ApplyFields /\ UNCHANGED mdl
    BY <1>3 DEF ApplyBackup, ApplyCommit, ApplyReadback, At, Base, CmdFits, ApplyFits
  <2>2. cmd'.tool = "preset"
    BY <1>3, <2>1 DEF ApplyBackup, ApplyCommit, ApplyReadback, Goto, ToRestore, ApplyFields
  <2> QED
    BY <1>1, <2>1, <2>2
<1>4. CASE ApplyRecord \/ ApplyRestored \/ RollbackFails \/ RollbackStatus
  BY <1>1, <1>4 DEF ApplyRecord, ApplyRestored, RollbackFails, RollbackStatus, Finish, Idle, At
<1>5. CASE RollbackRecord
  <2>1. cmd.tool = "rollback" /\ DOMAIN cmd = RollbackFields /\ UNCHANGED mdl
    BY <1>5 DEF RollbackRecord, At, Base, CmdFits, RollbackFits
  <2>2. cmd'.tool = "rollback"
    BY <1>5, <2>1 DEF RollbackRecord, Goto, RollbackFields
  <2> QED
    BY <1>1, <2>1, <2>2
<1>6. CASE ApplyWrite
  <2>1. cmd.tool = "preset" /\ DOMAIN cmd = ApplyFields /\ Types /\ ApplyFits
    BY <1>6 DEF ApplyWrite, At, Base, CmdFits, ApplyFits
  <2>2. PICK pk \in cmd.todo :
          \/ WriteStep(cmd.steps[pk]) /\ cmd' = [cmd EXCEPT !.todo = @ \ {pk}, !.on = cmd.steps[pk].p]
          \/ ToRestore /\ UNCHANGED mdl
    BY <1>6 DEF ApplyWrite
  <2>3. pk \in Profile \X Kind /\ StepFits(cmd.steps[pk], pk)
    BY <2>1 DEF ApplyFits
  <2>4. cmd'.tool = "preset"
    BY <2>1, <2>2 DEF ToRestore, ApplyFields
  <2>5. \A p \in Profile : Like(mdl'[p], mdl[p])
    BY <2>1, <2>2, <2>3, SettingFits, LikeAlways
  <2> QED
    BY <1>1, <2>1, <2>4, <2>5 DEF Like
<1>7. CASE RestoreFile
  <2>1. cmd.tool \in {"preset", "rollback"} /\ cmd.pc = "restore" /\ UNCHANGED mishap
    BY <1>7 DEF RestoreFile, Restoring
  <2>2. PICK pf \in cmd.left :
          /\ cmd' = [cmd EXCEPT !.left = @ \ {pf}]
          /\ pf[1] \in cmd.ps
          /\ \A p \in Profile : mdl'[p] = mdl[p] \/ (p = pf[1] /\ mdl'[p] = Its.files[p].models)
    BY <1>7, RestoredFits
  <2>3. cmd'.tool = cmd.tool
    BY <2>1, <2>2 DEF Base, CmdFits, ApplyFits, RollbackFits, ApplyFields, RollbackFields
  <2>4. mishap = {} => AsBackedUp
    BY <2>1 DEF Base, CmdFits, ApplyFits, RollbackFits
  <2> QED
    BY <2>1, <2>2, <2>3, <2>4 DEF AsBackedUp, Like
<1> QED
  BY <1>2, <1>3, <1>4, <1>5, <1>6, <1>7 DEF PresetsNext

LEMMA SmolRouted ==
  ASSUME Base, SmolNext, UNCHANGED presetVars
  PROVE  /\ cmd.tool # "route" /\ cmd'.tool # "route" /\ mishap \subseteq mishap'
         /\ \A p \in Profile : RoutedIn(mdl'[p]) <=> RoutedIn(mdl[p])
<1>1. mishap \subseteq mishap' /\ \A p \in Profile : RoutedIn(mdl'[p]) <=> RoutedIn(mdl[p])
  BY SmolStep DEF SmolEdit
<1>2. cmd'.tool # "route"
  BY SmolTool DEF Idle
<1>3. cmd.tool # "route"
  <2>1. CASE SmolSet \/ SmolRevert \/ SmolServer
    BY <2>1 DEF SmolSet, SmolRevert, SmolServer, Begin, Idle
  <2>2. CASE SmolStart \/ SmolCheck \/ SmolBlock \/ SmolLine \/ SmolSave
    BY <2>2 DEF SmolStart, SmolCheck, SmolBlock, SmolLine, SmolSave, At
  <2>3. CASE SmolUnline \/ SmolUnblock \/ SmolHalt
    BY <2>3 DEF SmolUnline, SmolUnblock, SmolHalt, At
  <2> QED
    BY <2>1, <2>2, <2>3 DEF SmolNext
<1> QED
  BY <1>1, <1>2, <1>3

LEMMA RoutingWorld ==
  ASSUME Base, Routing, HandEdit \/ Death, UNCHANGED routeVars
  PROVE  Routing'
<1>1. CASE Death
  BY <1>1 DEF Death, Routing
<1>2. CASE HandEdit /\ cmd # Idle
  BY <1>2 DEF HandEdit, Routing
<1>3. CASE HandEdit /\ cmd = Idle
  <2>1. cmd' = Idle /\ mishap' = mishap
    BY <1>3 DEF HandEdit
  <2>2. \A p \in Profile : Like(mdl'[p], mdl[p])
    BY <1>3, EditFits DEF Base
  <2> QED
    BY <1>3, <2>1, <2>2, RoutingBeside DEF Like, Idle, routeVars
<1> QED
  BY <1>1, <1>2, <1>3

\* What a step inside an install or a remove does to its locals.
LEMMA RouteMoves ==
  ASSUME RouteShape, cmd.tool = "route"
  PROVE  /\ \A pc : Goto(pc) =>
              cmd'.tool = "route" /\ cmd'.pc = pc /\ cmd'.snap = cmd.snap /\ cmd'.done = cmd.done /\ cmd'.op = cmd.op /\ cmd'.before = cmd.before
         /\ \A d : cmd' = [cmd EXCEPT !.done = d] =>
              cmd'.tool = "route" /\ cmd'.pc = cmd.pc /\ cmd'.snap = cmd.snap /\ cmd'.done = d /\ cmd'.op = cmd.op /\ cmd'.before = cmd.before
         /\ \A pc, s, d : cmd' = [cmd EXCEPT !.pc = pc, !.snap = s, !.done = d] =>
              cmd'.tool = "route" /\ cmd'.pc = pc /\ cmd'.snap = s /\ cmd'.done = d /\ cmd'.op = cmd.op /\ cmd'.before = cmd.before
BY DEF RouteShape, RouteFields, Goto

LEMMA RoutingInstall ==
  ASSUME Base, Routing, InstallBegin \/ InstallWrite \/ InstallUndo \/ InstallManifest
  PROVE  Routing'
<1>1. Types /\ mdl \in [Profile -> {Nil} \cup ModelsFile]
  BY DEF Base, Types
<1>2. CASE InstallBegin
  <2>1. /\ cmd = Idle /\ UNCHANGED <<mdl, mishap, routes>> /\ (routes # Nil => Routed = Profile)
        /\ cmd' = [tool |-> "route", op |-> "install", pc |-> IF routes = Nil THEN "write" ELSE "service",
                   existed |-> routes # Nil, before |-> service, snap |-> mdl, done |-> {}]
    BY <1>2 DEF InstallBegin, Begin, routeVars
  <2>2. cmd'.tool = "route" /\ cmd'.pc = (IF routes = Nil THEN "write" ELSE "service") /\ cmd'.snap = mdl /\ cmd'.done = {}
    BY <2>1
  <2>3. routes # Nil => \A p \in Profile : RoutedIn(mdl[p])
    BY <2>1 DEF Routed, RoutedIn
  <2>4. mishap = {} => Agree
    BY <2>1 DEF Routing, Idle
  <2>5. mishap = {} /\ routes = Nil => Writing'
    BY <2>1, <2>2, <2>4 DEF Agree, Writing
  <2>6. mishap = {} /\ routes # Nil => Agree'
    BY <2>1, <2>3 DEF Agree
  <2> QED
    BY <2>1, <2>2, <2>5, <2>6 DEF Routing, Standing
<1>3. CASE InstallWrite \/ InstallUndo \/ InstallManifest
  <2>1. /\ cmd.tool = "route" /\ cmd.pc \in {"write", "undo"} /\ RouteShape /\ mishap \subseteq mishap'
        /\ cmd.snap \in [Profile -> {Nil} \cup ModelsFile] /\ cmd.done \subseteq Profile
    BY <1>3, RouteWhere DEF InstallWrite, InstallUndo, InstallManifest, At, RouteShape
  <2> SUFFICES ASSUME mishap' = {}, mishap = {}, Writing
               PROVE  Routing'
    BY <2>1 DEF Routing
  <2>2. CASE UNCHANGED <<mdl, routes>> /\ Goto("undo")
    <3>1. Writing' /\ cmd'.tool = "route" /\ cmd'.pc = "undo"
      BY <2>1, <2>2, RouteMoves DEF Writing
    <3> QED
      BY <3>1 DEF Routing, Standing
  <2>3. ASSUME UNCHANGED routes, NEW p \in Profile, p \notin cmd.done, mdl' = [mdl EXCEPT ![p] = WithBlock(ModelsOf(mdl, p))],
               mdl[p] = cmd.snap[p], cmd' = [cmd EXCEPT !.done = @ \cup {p}], cmd.pc = "write"
        PROVE  Routing'
    <3>1. cmd'.tool = "route" /\ cmd'.pc = "write" /\ cmd'.snap = cmd.snap /\ cmd'.done = cmd.done \cup {p}
      BY <2>1, <2>3, RouteMoves
    <3>2. ModelsOf(mdl, p) = ModelsOf(cmd.snap, p)
      BY <2>3 DEF ModelsOf
    <3>3. Writing'
      <4> DEFINE n == WithBlock(ModelsOf(cmd.snap, p))
      <4>1. mdl' = [mdl EXCEPT ![p] = n]
        BY <2>3, <3>2
      <4>2. \A q \in Profile : mdl'[q] = IF q = p THEN n ELSE mdl[q]
        <5> HIDE DEF n
        <5> QED
          BY <1>1, <4>1
      <4>3. \A q \in Profile : mdl'[q] = IF q \in cmd'.done THEN WithBlock(ModelsOf(cmd.snap, q)) ELSE cmd.snap[q]
        <5> SUFFICES ASSUME NEW q \in Profile
                     PROVE  mdl'[q] = IF q \in cmd'.done THEN WithBlock(ModelsOf(cmd.snap, q)) ELSE cmd.snap[q]
          OBVIOUS
        <5>1. CASE q = p
          BY <3>1, <4>2, <5>1
        <5>2. CASE q # p
          BY <3>1, <4>2, <5>2 DEF Writing
        <5> QED
          BY <5>1, <5>2
      <4> QED
        BY <2>3, <3>1, <4>3 DEF Writing
    <3> QED
      BY <3>1, <3>3 DEF Routing, Standing
  <2>4. CASE InstallWrite
    <3>1. UNCHANGED routes
      BY <2>4 DEF InstallWrite, routeVars
    <3> QED
      BY <2>2, <2>3, <2>4, <3>1 DEF InstallWrite, At
  <2>5. ASSUME UNCHANGED routes, NEW p \in cmd.done, cmd' = [cmd EXCEPT !.done = @ \ {p}], cmd.pc = "undo",
               mdl' = IF mdl[p] = WithBlock(ModelsOf(cmd.snap, p)) THEN [mdl EXCEPT ![p] = cmd.snap[p]] ELSE mdl
        PROVE  Routing'
    <3>1. cmd'.tool = "route" /\ cmd'.pc = "undo" /\ cmd'.snap = cmd.snap /\ cmd'.done = cmd.done \ {p}
      BY <2>1, <2>5, RouteMoves
    <3>2. mdl' = [mdl EXCEPT ![p] = cmd.snap[p]]
      BY <2>1, <2>5 DEF Writing
    <3>3. \A q \in Profile : mdl'[q] = IF q = p THEN cmd.snap[p] ELSE mdl[q]
      BY <1>1, <3>2
    <3>4. Writing'
      BY <2>5, <3>1, <3>3 DEF Writing
    <3> QED
      BY <3>1, <3>4 DEF Routing, Standing
  <2>6. CASE InstallUndo
    <3>1. UNCHANGED routes /\ cmd.pc = "undo"
      BY <2>6 DEF InstallUndo, routeVars, At
    <3>2. CASE cmd.done = {} /\ Finish /\ UNCHANGED mdl
      <4>1. Agree' /\ cmd'.tool # "route"
        BY <3>1, <3>2 DEF Finish, Idle, Writing, Agree
      <4> QED
        BY <4>1 DEF Routing
    <3> QED
      BY <2>5, <2>6, <3>1, <3>2 DEF InstallUndo
  <2>7. CASE InstallManifest
    <3>1. CASE routes' = [p \in Profile |-> cmd.snap[p] = Nil] /\ Goto("service")
      <4>1. routes' # Nil
        <5>1. [p \in Profile |-> cmd.snap[p] = Nil] \in [Profile -> BOOLEAN]
          OBVIOUS
        <5> QED
          BY <3>1, <5>1, FilesAssumption, Zenon
      <4>2. cmd.done = Profile /\ UNCHANGED mdl
        BY <2>7 DEF InstallManifest
      <4>3. \A p \in Profile : RoutedIn(mdl[p])
        BY <2>1, <4>2, BlockFits DEF Writing
      <4>4. Agree' /\ cmd'.tool = "route" /\ cmd'.pc = "service"
        BY <2>1, <3>1, <4>1, <4>2, <4>3, RouteMoves DEF Agree
      <4> QED
        BY <4>1, <4>4 DEF Routing, Standing
    <3> QED
      BY <2>2, <2>7, <3>1 DEF InstallManifest
  <2> QED
    BY <1>3, <2>4, <2>6, <2>7
<1> QED
  BY <1>2, <1>3

LEMMA RoutingRevert ==
  ASSUME Base, Routing, RevertPlan \/ RevertWrite \/ RevertRedo \/ RevertDone
  PROVE  Routing'
<1>1. Types /\ mdl \in [Profile -> {Nil} \cup ModelsFile]
  BY DEF Base, Types
<1>2. CASE RevertPlan
  <2>1. cmd.tool = "route" /\ cmd.pc = "plan" /\ RouteShape /\ UNCHANGED <<mdl, mishap, routes>>
    BY <1>2, RouteWhere DEF RevertPlan, At, routeVars
  <2>2. mishap = {} => Agree /\ routes # Nil
    BY <2>1 DEF Routing, Standing
  <2>3. CASE Goto("blocked")
    <3>1. cmd'.tool = "route" /\ cmd'.pc = "blocked"
      BY <2>1, <2>3, RouteMoves
    <3> QED
      BY <2>1, <2>2, <3>1 DEF Routing, Agree, Standing
  <2>4. CASE cmd' = [cmd EXCEPT !.pc = "revert", !.snap = mdl, !.done = {}]
    <3>1. cmd'.tool = "route" /\ cmd'.pc = "revert" /\ cmd'.snap = mdl /\ cmd'.done = {}
      BY <2>1, <2>4 DEF RouteShape, RouteFields
    <3>2. mishap = {} => Reverting'
      BY <2>1, <2>2, <3>1 DEF Reverting
    <3> QED
      BY <2>1, <3>1, <3>2 DEF Routing, Standing
  <2> QED
    BY <1>2, <2>3, <2>4 DEF RevertPlan
<1>3. CASE RevertWrite \/ RevertRedo \/ RevertDone
  <2>1. /\ cmd.tool = "route" /\ cmd.pc \in {"revert", "redo"} /\ RouteShape /\ mishap \subseteq mishap'
        /\ cmd.snap \in [Profile -> {Nil} \cup ModelsFile] /\ cmd.done \subseteq Profile
        /\ \A p \in Profile : RoutedIn(cmd.snap[p])
    BY <1>3, RouteWhere DEF RevertWrite, RevertRedo, RevertDone, At, RouteShape
  <2> SUFFICES ASSUME mishap' = {}, mishap = {}, Reverting
               PROVE  Routing'
    BY <2>1 DEF Routing
  <2>2. CASE UNCHANGED <<mdl, routes>> /\ Goto("redo")
    <3>1. Reverting' /\ cmd'.tool = "route" /\ cmd'.pc = "redo"
      BY <2>1, <2>2, RouteMoves DEF Reverting
    <3> QED
      BY <3>1 DEF Routing, Standing
  <2>3. ASSUME UNCHANGED routes, NEW p \in Profile, p \notin cmd.done, mdl' = [mdl EXCEPT ![p] = Stripped(p, mdl[p], routes[p])],
               mdl[p] = cmd.snap[p], cmd' = [cmd EXCEPT !.done = @ \cup {p}], cmd.pc = "revert"
        PROVE  Routing'
    <3>1. cmd'.tool = "route" /\ cmd'.pc = "revert" /\ cmd'.snap = cmd.snap /\ cmd'.done = cmd.done \cup {p}
      BY <2>1, <2>3, RouteMoves
    <3> DEFINE n == Stripped(p, cmd.snap[p], routes[p])
    <3>2. mdl' = [mdl EXCEPT ![p] = n]
      BY <2>3
    <3>3. \A q \in Profile : mdl'[q] = IF q = p THEN n ELSE mdl[q]
      <4> HIDE DEF n
      <4> QED
        BY <1>1, <3>2
    <3>4. ASSUME NEW q \in Profile
          PROVE  mdl'[q] = IF q \in cmd'.done THEN Stripped(q, cmd.snap[q], routes[q]) ELSE cmd.snap[q]
      <4>1. CASE q = p
        BY <3>1, <3>3, <4>1
      <4>2. CASE q # p
        BY <3>1, <3>3, <4>2 DEF Reverting
      <4> QED
        BY <4>1, <4>2
    <3>5. Reverting'
      BY <2>3, <3>1, <3>4 DEF Reverting
    <3> QED
      BY <3>1, <3>5 DEF Routing, Standing
  <2>4. CASE RevertWrite
    <3>1. UNCHANGED routes
      BY <2>4 DEF RevertWrite, routeVars
    <3> QED
      BY <2>2, <2>3, <2>4, <3>1 DEF RevertWrite, At
  <2>5. ASSUME UNCHANGED routes, NEW p \in cmd.done, cmd' = [cmd EXCEPT !.done = @ \ {p}], cmd.pc = "redo",
               mdl' = IF mdl[p] = Stripped(p, cmd.snap[p], routes[p]) THEN [mdl EXCEPT ![p] = cmd.snap[p]] ELSE mdl
        PROVE  Routing'
    <3>1. cmd'.tool = "route" /\ cmd'.pc = "redo" /\ cmd'.snap = cmd.snap /\ cmd'.done = cmd.done \ {p}
      BY <2>1, <2>5, RouteMoves
    <3>2. mdl' = [mdl EXCEPT ![p] = cmd.snap[p]]
      BY <2>1, <2>5 DEF Reverting
    <3>3. \A q \in Profile : mdl'[q] = IF q = p THEN cmd.snap[p] ELSE mdl[q]
      BY <1>1, <3>2
    <3>4. Reverting'
      BY <2>5, <3>1, <3>3 DEF Reverting
    <3> QED
      BY <3>1, <3>4 DEF Routing, Standing
  <2>6. CASE RevertRedo
    <3>1. UNCHANGED routes /\ cmd.pc = "redo"
      BY <2>6 DEF RevertRedo, routeVars, At
    <3>2. CASE cmd.done = {} /\ Goto("blocked") /\ UNCHANGED mdl
      <4>1. cmd'.tool = "route" /\ cmd'.pc = "blocked"
        BY <2>1, <3>2, RouteMoves
      <4>2. Agree' /\ routes' # Nil
        BY <2>1, <3>1, <3>2 DEF Reverting, Agree
      <4> QED
        BY <4>1, <4>2 DEF Routing, Standing
    <3> QED
      BY <2>5, <2>6, <3>1, <3>2 DEF RevertRedo
  <2>7. CASE RevertDone
    <3>1. cmd.done = Profile /\ UNCHANGED mdl /\ routes' = Nil /\ Goto("cleanup")
      BY <2>7 DEF RevertDone
    <3>2. \A p \in Profile : ~RoutedIn(mdl[p])
      <4> SUFFICES ASSUME NEW p \in Profile
                   PROVE  ~RoutedIn(mdl[p])
        OBVIOUS
      <4>1. cmd.snap[p] \in ModelsFile
        BY <2>1, NoModels
      <4>2. mdl[p] = Stripped(p, cmd.snap[p], routes[p])
        BY <3>1 DEF Reverting
      <4> QED
        BY <4>1, <4>2, StrippedFits
    <3>3. Agree' /\ cmd'.tool = "route" /\ cmd'.pc = "cleanup"
      BY <2>1, <3>1, <3>2, RouteMoves DEF Agree
    <3> QED
      BY <3>1, <3>3 DEF Routing, Standing
  <2> QED
    BY <1>3, <2>4, <2>6, <2>7
<1> QED
  BY <1>2, <1>3

\* The service's steps leave routes and profiles alone.
LEMMA RoutingService ==
  ASSUME Base, Routing, \/ InstallService \/ InstallReadback \/ InstallRecover \/ RemoveBegin \/ RemoveStop \/ RevertBlocked
                        \/ RouteCleanup \/ Start \/ StopBegin \/ StopEnd
  PROVE  Routing'
<1>1. UNCHANGED <<mdl, mishap, routes>>
  BY DEF InstallService, InstallReadback, InstallRecover, RemoveBegin, RemoveStop, RevertBlocked, RouteCleanup, Start, StopBegin,
         StopEnd, routeVars
<1>2. CASE InstallService \/ InstallReadback \/ InstallRecover \/ RemoveStop \/ RevertBlocked
  <2>1. cmd.tool = "route" /\ cmd.pc \in Standing /\ RouteShape
    BY <1>2, RouteWhere DEF InstallService, InstallReadback, InstallRecover, RemoveStop, RevertBlocked, At, Standing
  <2>2. Finish \/ Goto("readback") \/ Goto("recover") \/ Goto("plan")
    BY <1>2 DEF InstallService, InstallReadback, InstallRecover, RemoveStop, RevertBlocked
  <2>3. cmd'.tool = "none" \/ (cmd'.tool = "route" /\ cmd'.pc \in Standing)
    <3>1. CASE Finish
      BY <3>1 DEF Finish, Idle
    <3>2. ASSUME NEW pc \in {"readback", "recover", "plan"}, Goto(pc)
          PROVE  cmd'.tool = "route" /\ cmd'.pc \in Standing
      BY <2>1, <3>2, RouteMoves DEF Standing
    <3> QED
      BY <2>2, <3>1, <3>2
  <2> QED
    BY <1>1, <2>1, <2>3 DEF Routing, Agree, Standing
<1>3. CASE RemoveBegin
  <2>1. cmd'.tool = "route" /\ cmd'.pc = "stop" /\ cmd = Idle /\ routes # Nil
    BY <1>3 DEF RemoveBegin, Begin
  <2> QED
    BY <1>1, <2>1 DEF Routing, Agree, Standing, Idle
<1>4. CASE RouteCleanup \/ StopEnd
  <2>1. cmd.tool = "route" /\ cmd.pc \in {"cleanup", "halt"} /\ cmd'.tool = "none"
    BY <1>4 DEF RouteCleanup, StopEnd, At, Finish, Idle
  <2> QED
    BY <1>1, <2>1 DEF Routing, Agree
<1>5. CASE Start
  <2>1. cmd.tool = "none" /\ cmd' = cmd
    BY <1>5 DEF Start, Idle
  <2> QED
    BY <1>1, <2>1 DEF Routing, Agree
<1>6. CASE StopBegin
  <2>1. cmd.tool = "none" /\ cmd'.tool = "route" /\ cmd'.pc = "halt"
    BY <1>6 DEF StopBegin, Begin, Idle
  <2> QED
    BY <1>1, <2>1 DEF Routing, Agree, Standing
<1> QED
  BY <1>2, <1>3, <1>4, <1>5, <1>6

\* The fields of the service after a step.
LEMMA ServiceEdits ==
  ASSUME DOMAIN service = ServiceFields
  PROVE  /\ \A s : service' = [service EXCEPT !.stored = s] =>
              DOMAIN service' = ServiceFields /\ service'.loaded = service.loaded /\ service'.accepting = service.accepting
         /\ service' = [service EXCEPT !.accepting = TRUE] =>
              DOMAIN service' = ServiceFields /\ service'.loaded = service.loaded /\ service'.accepting = TRUE
         /\ service' = [service EXCEPT !.accepting = FALSE] =>
              DOMAIN service' = ServiceFields /\ service'.loaded = service.loaded
         /\ service' = [service EXCEPT !.loaded = FALSE] =>
              DOMAIN service' = ServiceFields /\ service'.loaded = FALSE
         /\ \A b : service' = [service EXCEPT !.accepting = FALSE, !.loaded = b] =>
              DOMAIN service' = ServiceFields /\ service'.loaded = b
         /\ \A b : service' = Served(b) => DOMAIN service' = ServiceFields /\ service'.accepting = TRUE
         /\ \A b, s : service' = [Served(b) EXCEPT !.stored = s] => DOMAIN service' = ServiceFields /\ service'.accepting = TRUE
         /\ \A s, a, b : service' = [service EXCEPT !.stored = s, !.accepting = a, !.plist = b] =>
              DOMAIN service' = ServiceFields /\ service'.loaded = service.loaded /\ service'.accepting = a
         /\ \A s, b : service' = [service EXCEPT !.stored = s, !.plist = b] =>
              DOMAIN service' = ServiceFields /\ service'.loaded = service.loaded
         /\ \A s : service' = [service EXCEPT !.accepting = TRUE, !.stored = s] =>
              DOMAIN service' = ServiceFields /\ service'.accepting = TRUE
         /\ \A s : service' = [[service EXCEPT !.accepting = TRUE, !.stored = s] EXCEPT !.loaded = TRUE] =>
              DOMAIN service' = ServiceFields /\ service'.accepting = TRUE
<1>1. \A s : service' = [service EXCEPT !.stored = s] =>
              DOMAIN service' = ServiceFields /\ service'.loaded = service.loaded /\ service'.accepting = service.accepting
  BY DEF ServiceFields
<1>2. service' = [service EXCEPT !.accepting = TRUE] =>
              DOMAIN service' = ServiceFields /\ service'.loaded = service.loaded /\ service'.accepting = TRUE
  BY DEF ServiceFields
<1>3. service' = [service EXCEPT !.accepting = FALSE] => DOMAIN service' = ServiceFields /\ service'.loaded = service.loaded
  BY DEF ServiceFields
<1>4. service' = [service EXCEPT !.loaded = FALSE] => DOMAIN service' = ServiceFields /\ service'.loaded = FALSE
  BY DEF ServiceFields
<1>5. \A b : service' = [service EXCEPT !.accepting = FALSE, !.loaded = b] => DOMAIN service' = ServiceFields /\ service'.loaded = b
  BY DEF ServiceFields
<1>6. \A b : service' = Served(b) => DOMAIN service' = ServiceFields /\ service'.accepting = TRUE
  BY DEF ServiceFields, Served
<1>7. \A b, s : service' = [Served(b) EXCEPT !.stored = s] => DOMAIN service' = ServiceFields /\ service'.accepting = TRUE
  BY DEF ServiceFields, Served
<1>8. \A s, a, b : service' = [service EXCEPT !.stored = s, !.accepting = a, !.plist = b] =>
              DOMAIN service' = ServiceFields /\ service'.loaded = service.loaded /\ service'.accepting = a
  BY DEF ServiceFields
<1>9. \A s, b : service' = [service EXCEPT !.stored = s, !.plist = b] =>
              DOMAIN service' = ServiceFields /\ service'.loaded = service.loaded
  BY DEF ServiceFields
<1>10. \A s : service' = [service EXCEPT !.accepting = TRUE, !.stored = s] =>
              DOMAIN service' = ServiceFields /\ service'.accepting = TRUE
  BY DEF ServiceFields
<1>11. \A s : service' = [[service EXCEPT !.accepting = TRUE, !.stored = s] EXCEPT !.loaded = TRUE] =>
              DOMAIN service' = ServiceFields /\ service'.accepting = TRUE
  BY DEF ServiceFields
<1> QED
  BY <1>1, <1>2, <1>3, <1>4, <1>5, <1>6, <1>7, <1>8, <1>9, <1>10, <1>11

\* How the next state follows for the steps of an install or a remove.
LEMMA ServingStays ==
  ASSUME Serving, cmd.tool = "route", cmd'.tool = "route", cmd'.op = cmd.op, cmd'.before = cmd.before,
         mishap \subseteq mishap', service' = service,
         cmd'.pc = cmd.pc \/ (cmd.pc \in {"write", "undo", "service", "readback"} /\ cmd'.pc \in {"write", "undo", "service", "readback", "recover"})
           \/ (cmd.pc \in {"plan", "revert", "redo"} /\ cmd'.pc \in {"revert", "redo", "cleanup", "blocked"})
  PROVE  Serving'
BY DEF Serving, Open

LEMMA ServingEnds ==
  ASSUME DOMAIN service' = ServiceFields, cmd'.tool # "route", "death" \notin mishap' => Open(service')
  PROVE  Serving'
BY DEF Serving

LEMMA ServingRoutes ==
  ASSUME Base, Serving, RoutesNext
  PROVE  Serving'
<1>1. DOMAIN service = ServiceFields /\ mishap \subseteq mishap'
  BY RoutesEdit DEF Serving
<1>2. CASE InstallBegin
  <2>1. /\ cmd = Idle /\ service' = service
        /\ cmd' = [tool |-> "route", op |-> "install", pc |-> IF routes = Nil THEN "write" ELSE "service",
                   existed |-> routes # Nil, before |-> service, snap |-> mdl, done |-> {}]
    BY <1>2 DEF InstallBegin, Begin, routeVars
  <2>2. cmd'.tool = "route" /\ cmd'.pc \in {"write", "service"} /\ cmd'.op = "install" /\ cmd'.before = service
    BY <2>1
  <2>3. "death" \notin mishap => Open(service)
    BY <2>1 DEF Serving, Idle
  <2> QED
    BY <1>1, <2>1, <2>2, <2>3 DEF Serving, Open
<1>3. CASE InstallWrite \/ InstallUndo \/ InstallManifest
  <2>1. RouteShape /\ cmd.tool = "route" /\ cmd.pc \in {"write", "undo"} /\ service' = service
    BY <1>3, RouteWhere DEF InstallWrite, InstallUndo, InstallManifest, At, routeVars
  <2>2. CASE Finish
    <3>1. cmd'.tool = "none"
      BY <2>2 DEF Finish, Idle
    <3> QED
      BY <1>1, <2>1, <3>1 DEF Serving
  <2>3. CASE \E d : cmd' = [cmd EXCEPT !.done = d]
    <3>1. cmd'.tool = "route" /\ cmd'.op = cmd.op /\ cmd'.before = cmd.before /\ cmd'.pc = cmd.pc
      BY <2>1, <2>3 DEF RouteShape, RouteFields
    <3> QED
      BY <1>1, <2>1, <3>1, ServingStays
  <2>4. ASSUME NEW pc \in {"undo", "service"}, Goto(pc)
        PROVE  Serving'
    <3>1. cmd'.tool = "route" /\ cmd'.op = cmd.op /\ cmd'.before = cmd.before /\ cmd'.pc = pc
      BY <2>1, <2>4, RouteMoves
    <3> QED
      BY <1>1, <2>1, <3>1, ServingStays
  <2> QED
    BY <1>3, <2>2, <2>3, <2>4 DEF InstallWrite, InstallUndo, InstallManifest
<1>4. CASE RevertPlan \/ RevertWrite \/ RevertRedo \/ RevertDone
  <2>1. RouteShape /\ cmd.tool = "route" /\ cmd.pc \in {"plan", "revert", "redo"} /\ service' = service
    BY <1>4, RouteWhere DEF RevertPlan, RevertWrite, RevertRedo, RevertDone, At, routeVars
  <2>2. CASE \E d : cmd' = [cmd EXCEPT !.done = d]
    <3>1. cmd'.tool = "route" /\ cmd'.op = cmd.op /\ cmd'.before = cmd.before /\ cmd'.pc = cmd.pc
      BY <2>1, <2>2 DEF RouteShape, RouteFields
    <3> QED
      BY <1>1, <2>1, <3>1, ServingStays
  <2>3. CASE cmd' = [cmd EXCEPT !.pc = "revert", !.snap = mdl, !.done = {}]
    <3>1. cmd'.tool = "route" /\ cmd'.op = cmd.op /\ cmd'.before = cmd.before /\ cmd'.pc = "revert"
      BY <2>1, <2>3 DEF RouteShape, RouteFields
    <3> QED
      BY <1>1, <2>1, <3>1, ServingStays
  <2>4. ASSUME NEW pc \in {"redo", "cleanup", "blocked"}, Goto(pc)
        PROVE  Serving'
    <3>1. cmd'.tool = "route" /\ cmd'.op = cmd.op /\ cmd'.before = cmd.before /\ cmd'.pc = pc
      BY <2>1, <2>4, RouteMoves
    <3> QED
      BY <1>1, <2>1, <3>1, ServingStays
  <2> QED
    BY <1>4, <2>2, <2>3, <2>4 DEF RevertPlan, RevertWrite, RevertRedo, RevertDone
<1>5. CASE InstallService
  <2>1. RouteShape /\ cmd.tool = "route" /\ cmd.pc = "service"
    BY <1>5, RouteWhere DEF InstallService, At
  <2>2. CASE service' = [Served(TRUE) EXCEPT !.stored = Profile] /\ Goto("readback")
    <3>1. DOMAIN service' = ServiceFields /\ service'.accepting = TRUE
      BY <1>1, <2>2, ServiceEdits
    <3>2. cmd'.tool = "route" /\ cmd'.op = cmd.op /\ cmd'.before = cmd.before /\ cmd'.pc = "readback"
      BY <2>1, <2>2, RouteMoves
    <3> QED
      BY <1>1, <2>1, <3>1, <3>2 DEF Serving, Open
  <2>3. CASE Goto("recover") /\ service' = [service EXCEPT !.stored = Profile]
    <3>1. DOMAIN service' = ServiceFields /\ service'.loaded = service.loaded /\ service'.accepting = service.accepting
      BY <1>1, <2>3, ServiceEdits
    <3>2. cmd'.tool = "route" /\ cmd'.op = cmd.op /\ cmd'.before = cmd.before /\ cmd'.pc = "recover"
      BY <2>1, <2>3, RouteMoves
    <3> QED
      BY <1>1, <2>1, <3>1, <3>2 DEF Serving, Open
  <2> QED
    BY <1>5, <2>2, <2>3 DEF InstallService
<1>6. CASE InstallReadback
  <2>1. RouteShape /\ cmd.tool = "route" /\ cmd.pc = "readback" /\ service' = service
    BY <1>6, RouteWhere DEF InstallReadback, At, routeVars
  <2>2. CASE Finish
    <3>1. cmd'.tool = "none"
      BY <2>2 DEF Finish, Idle
    <3> QED
      BY <1>1, <2>1, <3>1 DEF Serving
  <2>3. CASE Goto("recover")
    <3>1. cmd'.tool = "route" /\ cmd'.op = cmd.op /\ cmd'.before = cmd.before /\ cmd'.pc = "recover"
      BY <2>1, <2>3, RouteMoves
    <3> QED
      BY <1>1, <2>1, <3>1, ServingStays
  <2> QED
    BY <1>6, <2>2, <2>3 DEF InstallReadback
<1>7. CASE InstallRecover
  <2>1. RouteShape /\ cmd.tool = "route" /\ cmd.pc = "recover"
    BY <1>7, RouteWhere DEF InstallRecover, At
  <2>2. \/ service' = [service EXCEPT !.accepting = TRUE] /\ Finish
        \/ service' = [service EXCEPT !.accepting = FALSE, !.loaded = cmd.before.loaded] /\ Goto("plan")
    BY <1>7, Zenon DEF InstallRecover
  <2>3. CASE service' = [service EXCEPT !.accepting = TRUE] /\ Finish
    <3>1. DOMAIN service' = ServiceFields /\ service'.accepting = TRUE
      BY <1>1, <2>3, ServiceEdits
    <3>2. cmd'.tool # "route"
      BY <2>3 DEF Finish, Idle
    <3> QED
      BY <3>1, <3>2, ServingEnds DEF Open
  <2>4. CASE service' = [service EXCEPT !.accepting = FALSE, !.loaded = cmd.before.loaded] /\ Goto("plan")
    <3>1. DOMAIN service' = ServiceFields /\ service'.loaded = cmd.before.loaded
      BY <1>1, <2>4, ServiceEdits
    <3>2. cmd'.tool = "route" /\ cmd'.op = cmd.op /\ cmd'.before = cmd.before /\ cmd'.pc = "plan"
      BY <2>1, <2>4, RouteMoves
    <3>3. cmd.op = "install"
      BY <2>1 DEF Serving
    <3> QED
      BY <1>1, <2>1, <3>1, <3>2, <3>3 DEF Serving
  <2> QED
    BY <2>2, <2>3, <2>4
<1>8. CASE RemoveBegin \/ StopBegin
  <2>1. /\ service' = [service EXCEPT !.accepting = FALSE] /\ cmd'.tool = "route" /\ cmd'.op \in {"remove", "stop"}
        /\ cmd'.pc \in {"stop", "halt"}
    BY <1>8 DEF RemoveBegin, StopBegin, Begin
  <2>2. DOMAIN service' = ServiceFields
    BY <1>1, <2>1, ServiceEdits
  <2> QED
    BY <2>1, <2>2 DEF Serving
<1>9. CASE RemoveStop
  <2>1. RouteShape /\ cmd.tool = "route" /\ cmd.pc = "stop"
    BY <1>9, RouteWhere DEF RemoveStop, At
  <2>2. CASE service' = [service EXCEPT !.loaded = FALSE] /\ Goto("plan")
    <3>1. DOMAIN service' = ServiceFields /\ service'.loaded = FALSE
      BY <1>1, <2>2, ServiceEdits
    <3>2. cmd'.tool = "route" /\ cmd'.op = cmd.op /\ cmd'.before = cmd.before /\ cmd'.pc = "plan"
      BY <2>1, <2>2, RouteMoves
    <3> QED
      BY <1>1, <2>1, <3>1, <3>2 DEF Serving
  <2>3. CASE service' = [service EXCEPT !.accepting = TRUE] /\ Finish
    <3>1. DOMAIN service' = ServiceFields /\ service'.accepting = TRUE
      BY <1>1, <2>3, ServiceEdits
    <3>2. cmd'.tool # "route"
      BY <2>3 DEF Finish, Idle
    <3> QED
      BY <3>1, <3>2, ServingEnds DEF Open
  <2> QED
    BY <1>9, <2>2, <2>3 DEF RemoveStop
<1>10. CASE RevertBlocked
  <2>1. cmd'.tool # "route"
    BY <1>10 DEF RevertBlocked, Finish, Idle
  <2>2. PICK s : \/ service' = [service EXCEPT !.accepting = TRUE, !.stored = s]
                 \/ service' = [[service EXCEPT !.accepting = TRUE, !.stored = s] EXCEPT !.loaded = TRUE]
    BY <1>10 DEF RevertBlocked
  <2>3. DOMAIN service' = ServiceFields /\ service'.accepting = TRUE
    BY <1>1, <2>2, ServiceEdits
  <2> QED
    BY <2>1, <2>3, ServingEnds DEF Open
<1>11. CASE RouteCleanup
  <2>1. RouteShape /\ cmd.tool = "route" /\ cmd.pc = "cleanup" /\ cmd'.tool # "route"
    BY <1>11, RouteWhere DEF RouteCleanup, At, Finish, Idle
  <2>2. CASE cmd.op = "remove"
    <3>1. service' = [service EXCEPT !.stored = {}, !.plist = FALSE]
      BY <1>11, <2>2 DEF RouteCleanup
    <3>2. DOMAIN service' = ServiceFields /\ service'.loaded = service.loaded
      BY <1>1, <3>1, ServiceEdits
    <3>3. "death" \notin mishap => ~service.loaded
      BY <2>1, <2>2 DEF Serving
    <3> QED
      BY <1>1, <2>1, <3>2, <3>3, ServingEnds DEF Open
  <2>3. CASE cmd.op # "remove"
    <3>1. service' = [service EXCEPT !.stored = cmd.before.stored, !.accepting = cmd.before.accepting, !.plist = cmd.before.plist]
      BY <1>11, <2>3 DEF RouteCleanup
    <3>2. DOMAIN service' = ServiceFields /\ service'.loaded = service.loaded /\ service'.accepting = cmd.before.accepting
      BY <1>1, <3>1, ServiceEdits
    <3>3. cmd.op = "install"
      BY <2>1, <2>3 DEF RouteShape
    <3>4. "death" \notin mishap => (service.loaded => cmd.before.accepting)
      BY <2>1, <3>3 DEF Serving, Open
    <3> QED
      BY <1>1, <2>1, <3>2, <3>4, ServingEnds DEF Open
  <2> QED
    BY <2>2, <2>3
<1>12. CASE Start
  <2>1. service' = Served(TRUE) /\ cmd'.tool # "route"
    BY <1>12 DEF Start, Idle
  <2>2. DOMAIN service' = ServiceFields /\ service'.accepting = TRUE
    BY <1>1, <2>1, ServiceEdits
  <2> QED
    BY <2>1, <2>2, ServingEnds DEF Open
<1>13. CASE StopEnd
  <2>1. cmd'.tool # "route" /\ (service' = [service EXCEPT !.loaded = FALSE] \/ service' = [service EXCEPT !.accepting = TRUE])
    BY <1>13 DEF StopEnd, Finish, Idle
  <2>2. DOMAIN service' = ServiceFields /\ (service'.loaded = FALSE \/ service'.accepting = TRUE)
    BY <1>1, <2>1, ServiceEdits
  <2> QED
    BY <2>1, <2>2, ServingEnds DEF Open
<1> QED
  BY <1>2, <1>3, <1>4, <1>5, <1>6, <1>7, <1>8, <1>9, <1>10, <1>11, <1>12, <1>13 DEF RoutesNext

LEMMA RouteInit == Init => Routing /\ Serving
<1> SUFFICES ASSUME Init
             PROVE  Routing /\ Serving
  OBVIOUS
<1>1. /\ cmd = Idle /\ routes = Nil /\ \A p \in Profile : ~RoutedIn(mdl[p])
      /\ service = [plist |-> FALSE, loaded |-> FALSE, accepting |-> TRUE, stored |-> {}]
  BY DEF Init, FilesInit, RoutesInit, RoutedIn, EmptyModels
<1>2. Routing
  BY <1>1 DEF Routing, Agree, Idle
<1>3. DOMAIN service = ServiceFields /\ service.accepting
  BY <1>1 DEF ServiceFields
<1>4. Serving
  BY <1>1, <1>3 DEF Serving, Open, Idle
<1> QED
  BY <1>2, <1>4

LEMMA RouteNext == Base /\ Routing /\ Serving /\ [Next]_vars => Routing' /\ Serving'
<1> SUFFICES ASSUME Base, Routing, Serving, [Next]_vars
             PROVE  Routing' /\ Serving'
  OBVIOUS
<1>1. CASE PresetsNext /\ UNCHANGED <<routeVars, smolVars>>
  <2>1. /\ cmd.tool # "route" /\ cmd'.tool # "route" /\ mishap \subseteq mishap' /\ UNCHANGED <<routes, service>>
        /\ mishap' = {} => \A p \in Profile : RoutedIn(mdl'[p]) <=> RoutedIn(mdl[p])
    BY <1>1, PresetsRouted DEF routeVars
  <2> QED
    BY <2>1, RoutingBeside DEF Serving
<1>2. CASE RoutesNext
  BY <1>2, RoutingInstall, RoutingRevert, RoutingService, ServingRoutes DEF RoutesNext
<1>3. CASE SmolNext /\ UNCHANGED <<presetVars, routeVars>>
  <2>1. /\ cmd.tool # "route" /\ cmd'.tool # "route" /\ mishap \subseteq mishap' /\ UNCHANGED <<routes, service>>
        /\ \A p \in Profile : RoutedIn(mdl'[p]) <=> RoutedIn(mdl[p])
    BY <1>3, SmolRouted DEF routeVars
  <2> QED
    BY <2>1, RoutingBeside DEF Serving
<1>4. CASE (HandEdit \/ Death) /\ UNCHANGED routeVars
  <2>1. CASE Death
    BY <1>4, <2>1, RoutingWorld DEF Death, Finish, Idle, Serving, routeVars
  <2>2. CASE HandEdit
    <3>1. cmd' = cmd /\ service' = service /\ ("death" \in mishap' <=> "death" \in mishap)
      BY <1>4, <2>2 DEF HandEdit, routeVars
    <3> QED
      BY <1>4, <3>1, RoutingWorld DEF Serving
  <2> QED
    BY <1>4, <2>1, <2>2
<1>5. CASE UNCHANGED vars
  BY <1>5 DEF vars, fileVars, routeVars, Routing, Agree, Writing, Reverting, Standing, Serving, Open
<1> QED
  BY <1>1, <1>2, <1>3, <1>4, <1>5 DEF Next

\* Between commands the routes are in every profile or in none, as the
\* manifest says, and a running gateway is open.
THEOREM RoutesHold == Spec => []RouteHolds
<1>1. Routing => RouteAllOrNone
  BY DEF Routing, Agree, Idle, RouteAllOrNone, Routed, RoutedIn
<1>2. Serving => AdmissionReopens
  BY DEF Serving, Open, Idle, AdmissionReopens
<1> QED
  BY <1>1, <1>2, BaseInit, BaseNext, RouteInit, RouteNext, PTL DEF Spec, RouteHolds

(***************************************************************************)
(* What applied.json says holds.  The standing applies of a profile are a  *)
(* stack: what an apply backed up, and the record it found, are the files  *)
(* and the record of those below it.                                       *)
(***************************************************************************)
\* Presets of different families name different settings, as those of the
\* registry do (registries/presets.json); load() does not look.
FamiliesApart ==
  \A n, o \in DOMAIN Preset : Preset[n].family # Preset[o].family => KindsOf(n) \cap KindsOf(o) = {}

\* The settings of a profile that presets own, in its files or in a backup.
Sys1In(m) == IF m = Nil THEN Nil ELSE m.sys1
PartOf(c, m) == [provider |-> Sys1In(m), modelRoles |-> c.judge, level |-> c.level]
PartNow(p) == PartOf(cfg[p], mdl[p])
PartThen(ms, i, p) == PartOf(ms[i].files[p].config, ms[i].files[p].models)

Wanted(n) == [provider |-> Preset[n].sys1, modelRoles |-> Preset[n].judge, level |-> Preset[n].level]
Meets(n, part) == \A k \in KindsOf(n) : part[k] = Wanted(n)[k]
KeepsOthers(n, part, old) == \A k \in Kind \ KindsOf(n) : part[k] = old[k]

FamilyIn(ms, i) == Preset[ms[i].name].family
StandingOn(ms, p) == {i \in DOMAIN ms : ms[i].status = "applied" /\ p \in DOMAIN ms[i].files}
Below(S, i) == {j \in S : j < i}

\* x is the last apply of family f in S, or Nil when S has none.
IsLatest(ms, x, S, f) ==
  \/ x = Nil /\ \A j \in S : FamilyIn(ms, j) # f
  \/ x \in S /\ FamilyIn(ms, x) = f /\ \A j \in S : FamilyIn(ms, j) = f => j <= x

\* The settings meet the last preset of every family in S.
MeetsAll(ms, S, part) ==
  \A i \in S : (\A j \in S : FamilyIn(ms, j) = FamilyIn(ms, i) => j <= i) => Meets(ms[i].name, part)

Records(ms, S, row) == \A f \in Family : IsLatest(ms, row[f], S, f)
Supports(ms, S, i, p) == IsLatest(ms, ms[i].previous[p], S, FamilyIn(ms, i)) /\ MeetsAll(ms, S, PartThen(ms, i, p))
Stacked(ms, p) == \A i \in StandingOn(ms, p) : Supports(ms, Below(StandingOn(ms, p), i), i, p)
Holds(p) == Records(manifests, StandingOn(manifests, p), applied[p]) /\ MeetsAll(manifests, StandingOn(manifests, p), PartNow(p))

Applying == cmd.tool = "preset" /\ cmd.pc # "backup"
RollingBack == cmd.tool = "rollback"
\* The profiles the running command leaves alone, or has not touched yet.
Untouched(p) == (~Applying /\ ~RollingBack) \/ p \notin cmd.ps
Restored(p) ==
  /\ <<p, "config">> \notin cmd.left => cfg[p].judge = Its.files[p].config.judge /\ cfg[p].level = Its.files[p].config.level
  /\ <<p, "models">> \notin cmd.left => Sys1In(mdl[p]) = Sys1In(Its.files[p].models)

\* The plan of an apply is what its preset wants.
PlanStands ==
  cmd.tool = "preset" =>
    /\ cmd.name \in DOMAIN Preset
    /\ DOMAIN cmd.steps = cmd.ps \X KindsOf(cmd.name)
    /\ \A pk \in DOMAIN cmd.steps :
         /\ pk[2] = "modelRoles" => cmd.steps[pk].after.judge = Preset[cmd.name].judge
         /\ pk[2] = "provider" => cmd.steps[pk].after = Preset[cmd.name].sys1
         /\ pk[2] = "level" => cmd.steps[pk].after = Preset[cmd.name].level

Others(p) == StandingOn(manifests, p) \ {cmd.id}
ApplyStandsAt(p) ==
  /\ Supports(manifests, Others(p), cmd.id, p)
  /\ Records(manifests, Others(p), applied[p])
  /\ cmd.pc \in {"write", "commit", "record"} => KeepsOthers(cmd.name, PartNow(p), PartThen(manifests, cmd.id, p))
  /\ cmd.pc \in {"commit", "record"} => Meets(cmd.name, PartNow(p))
  /\ cmd.pc = "restore" => Restored(p)
ApplyStands ==
  Applying =>
    /\ cmd.state = applied /\ Its.name = cmd.name /\ cmd.id = Len(manifests)
    /\ cmd.pc = "record" => Its.status = "applied"
    /\ \A p \in cmd.ps : ApplyStandsAt(p)

RollbackStandsAt(p) ==
  /\ \A j \in StandingOn(manifests, p) : j <= cmd.id
  /\ Restored(p)
  /\ cmd.pc = "restore" => Records(manifests, StandingOn(manifests, p), applied[p])
  /\ cmd.pc = "status" => cmd.left = {} /\ Records(manifests, Others(p), applied[p])
RollbackStands == RollingBack => Its.status = "applied" /\ \A p \in cmd.ps : RollbackStandsAt(p)

Rowed == \A p \in Profile : DOMAIN applied[p] = Family
StackedUp ==
  /\ \A i \in DOMAIN manifests : manifests[i].name \in DOMAIN Preset
  /\ \A p \in Profile : Stacked(manifests, p)
Telling ==
  /\ Rowed /\ StackedUp
  /\ \A p \in Profile : Untouched(p) => Holds(p)
  /\ PlanStands /\ ApplyStands /\ RollbackStands

Undisturbed == mishap = {} /\ used.edit = 0
RecordsIInv == Undisturbed => Telling

LEMMA SeqDomain ==
  ASSUME NEW s, IsSeq(s)
  PROVE  Len(s) \in Nat /\ DOMAIN s = 1..Len(s)
<1> DEFINE S == {s[k] : k \in DOMAIN s}
<1>1. s \in Seq(S)
  BY DEF IsSeq
<1> HIDE DEF S
<1> QED
  BY <1>1

LEMMA PartKinds ==
  ASSUME NEW c, NEW m
  PROVE  /\ PartOf(c, m)["provider"] = Sys1In(m) /\ PartOf(c, m)["modelRoles"] = c.judge /\ PartOf(c, m)["level"] = c.level
         /\ \A n \in DOMAIN Preset : /\ KindsOf(n) \subseteq Kind
                                     /\ Wanted(n)["provider"] = Preset[n].sys1
                                     /\ Wanted(n)["modelRoles"] = Preset[n].judge /\ Wanted(n)["level"] = Preset[n].level
BY DEF PartOf, KindsOf, Kind, Wanted

\* Two manifest lists that tell the same of the applies in S.
Tells(m1, m2, S) ==
  \A i \in S : m2[i].name = m1[i].name /\ m2[i].files = m1[i].files /\ m2[i].previous = m1[i].previous

LEMMA SameStory ==
  ASSUME NEW m1, NEW m2, NEW S, Tells(m1, m2, S)
  PROVE  /\ \A x, f : IsLatest(m1, x, S, f) => IsLatest(m2, x, S, f)
         /\ \A part : MeetsAll(m1, S, part) => MeetsAll(m2, S, part)
         /\ \A row : Records(m1, S, row) => Records(m2, S, row)
<1>1. \A i \in S : FamilyIn(m2, i) = FamilyIn(m1, i)
  BY DEF FamilyIn, Tells
<1>2. \A x, f : IsLatest(m1, x, S, f) => IsLatest(m2, x, S, f)
  BY <1>1 DEF IsLatest
<1>3. \A part : MeetsAll(m1, S, part) => MeetsAll(m2, S, part)
  BY <1>1 DEF MeetsAll, Tells
<1> QED
  BY <1>2, <1>3 DEF Records

LEMMA SameSupport ==
  ASSUME NEW m1, NEW m2, NEW S, NEW i, NEW p, Tells(m1, m2, S \cup {i}), Supports(m1, S, i, p)
  PROVE  Supports(m2, S, i, p)
<1>1. Tells(m1, m2, S) /\ FamilyIn(m2, i) = FamilyIn(m1, i) /\ m2[i].previous = m1[i].previous
  BY DEF Tells, FamilyIn
<1>2. PartThen(m2, i, p) = PartThen(m1, i, p)
  BY DEF Tells, PartThen
<1> QED
  BY <1>1, <1>2, SameStory DEF Supports

LEMMA SameStack ==
  ASSUME NEW m1, NEW m2, NEW p, StandingOn(m2, p) = StandingOn(m1, p), Tells(m1, m2, StandingOn(m1, p)), Stacked(m1, p)
  PROVE  Stacked(m2, p)
<1> SUFFICES ASSUME NEW i \in StandingOn(m1, p)
             PROVE  Supports(m2, Below(StandingOn(m1, p), i), i, p)
  BY DEF Stacked
<1>1. Supports(m1, Below(StandingOn(m1, p), i), i, p)
  BY DEF Stacked
<1>2. Tells(m1, m2, Below(StandingOn(m1, p), i) \cup {i})
  BY DEF Tells, Below
<1> QED
  BY <1>1, <1>2, SameSupport

\* The settings of an apply on top of a stack it found met.
LEMMA Push ==
  ASSUME FamiliesApart, NEW ms, NEW S \in SUBSET Int, NEW i \in Int, \A j \in S : j < i,
         \A j \in S \cup {i} : ms[j].name \in DOMAIN Preset, NEW old, NEW part,
         MeetsAll(ms, S, old), Meets(ms[i].name, part), KeepsOthers(ms[i].name, part, old)
  PROVE  MeetsAll(ms, S \cup {i}, part)
<1> SUFFICES ASSUME NEW j \in S \cup {i}, \A k \in S \cup {i} : FamilyIn(ms, k) = FamilyIn(ms, j) => k <= j
             PROVE  Meets(ms[j].name, part)
  BY DEF MeetsAll
<1>1. CASE j = i
  BY <1>1
<1>2. CASE j # i
  <2>0. j \in S
    BY <1>2
  <2>1. j \in S /\ j < i /\ ~(i <= j)
    <3>1. j \in Int /\ i \in Int /\ j < i
      BY <2>0
    <3> QED
      BY <2>0, <3>1
  <2>2. FamilyIn(ms, i) # FamilyIn(ms, j)
    BY <2>1
  <2>3. KindsOf(ms[j].name) \cap KindsOf(ms[i].name) = {}
    BY <2>2 DEF FamiliesApart, FamilyIn
  <2>4. Meets(ms[j].name, old)
    BY <2>1 DEF MeetsAll
  <2>5. KindsOf(ms[j].name) \subseteq Kind
    BY PartKinds
  <2> QED
    BY <2>3, <2>4, <2>5 DEF Meets, KeepsOthers
<1> QED
  BY <1>1, <1>2

LEMMA PushRecord ==
  ASSUME NEW ms, NEW S \in SUBSET Int, NEW i \in Int, \A j \in S : j < i, NEW row, NEW next, Records(ms, S, row),
         \A f \in Family : next[f] = IF f = FamilyIn(ms, i) THEN i ELSE row[f]
  PROVE  Records(ms, S \cup {i}, next)
<1> SUFFICES ASSUME NEW f \in Family
             PROVE  IsLatest(ms, next[f], S \cup {i}, f)
  BY DEF Records
<1>1. IsLatest(ms, row[f], S, f)
  BY DEF Records
<1>2. CASE f = FamilyIn(ms, i)
  BY <1>2 DEF IsLatest
<1>3. CASE f # FamilyIn(ms, i)
  BY <1>1, <1>3 DEF IsLatest
<1> QED
  BY <1>2, <1>3

\* The last apply of a stack is taken off it.
LEMMA Pop ==
  ASSUME NEW ms, NEW T \in SUBSET Int, NEW i \in T, \A j \in T : j <= i, NEW p, NEW row, NEW next,
         Records(ms, T, row), Supports(ms, Below(T, i), i, p), FamilyIn(ms, i) \in Family,
         \A f \in Family : next[f] = IF f = FamilyIn(ms, i) /\ row[f] = i THEN ms[i].previous[p] ELSE row[f]
  PROVE  Records(ms, T \ {i}, next)
<1>0. \A j \in T : j < i <=> j # i
  <2> SUFFICES ASSUME NEW j \in T
               PROVE  j < i <=> j # i
    OBVIOUS
  <2>1. j \in Int /\ i \in Int /\ j <= i
    OBVIOUS
  <2> QED
    BY <2>1
<1>1. Below(T, i) = T \ {i}
  BY <1>0 DEF Below
<1> SUFFICES ASSUME NEW f \in Family
             PROVE  IsLatest(ms, next[f], T \ {i}, f)
  BY DEF Records
<1>2. IsLatest(ms, row[f], T, f)
  BY DEF Records
<1>3. CASE f = FamilyIn(ms, i)
  <2>1. row[f] = i
    <3>1. row[f] \in T /\ i <= row[f]
      BY <1>2, <1>3 DEF IsLatest
    <3>2. row[f] \in Int /\ i \in Int /\ row[f] <= i
      BY <3>1
    <3> QED
      BY <3>1, <3>2
  <2> QED
    BY <1>1, <1>3, <2>1 DEF Supports
<1>4. CASE f # FamilyIn(ms, i)
  BY <1>2, <1>4 DEF IsLatest
<1> QED
  BY <1>3, <1>4

\* What holds of a profile whose settings, records and standing applies stay.
LEMMA SameHolds ==
  ASSUME NEW p, Holds(p), PartNow(p)' = PartNow(p), applied'[p] = applied[p],
         StandingOn(manifests', p) = StandingOn(manifests, p), Tells(manifests, manifests', StandingOn(manifests, p))
  PROVE  Holds(p)'
<1>1. /\ Records(manifests, StandingOn(manifests, p), applied[p])
      /\ MeetsAll(manifests, StandingOn(manifests, p), PartNow(p))
  BY DEF Holds
<1>2. /\ Records(manifests', StandingOn(manifests, p), applied[p])
      /\ MeetsAll(manifests', StandingOn(manifests, p), PartNow(p))
  BY <1>1, SameStory
<1> QED
  BY <1>2 DEF Holds

(***************************************************************************)
(* Routes and smol lines are not the settings of presets.                  *)
(***************************************************************************)
SameParts ==
  \A p \in Profile : /\ Sys1In(mdl'[p]) = Sys1In(mdl[p])
                     /\ cfg'[p].judge = cfg[p].judge /\ cfg'[p].level = cfg[p].level

LEMMA Sys1Opened ==
  /\ \A m : Opened(m).sys1 = Sys1In(m)
  /\ \A n \in ModelsFile : Sys1In(n) = n.sys1
BY RealModels DEF Opened, Sys1In, EmptyModels

LEMMA Sys1Edit ==
  ASSUME NEW m \in {Nil} \cup ModelsFile
  PROVE  /\ \A b \in BOOLEAN : Sys1In([Opened(m) EXCEPT !.ollama = b]) = Sys1In(m)
         /\ \A v \in {Nil} \cup SmolModel : Sys1In([Opened(m) EXCEPT !.smol = v]) = Sys1In(m)
<1>1. Opened(m) \in ModelsFile /\ Opened(m).sys1 = Sys1In(m)
  BY OpenedFits, Sys1Opened
<1>2. \A b \in BOOLEAN : [Opened(m) EXCEPT !.ollama = b] \in ModelsFile
  BY EditRoute
<1>3. \A v \in {Nil} \cup SmolModel : [Opened(m) EXCEPT !.smol = v] \in ModelsFile
  BY EditSmol
<1>4. \A b \in BOOLEAN : [Opened(m) EXCEPT !.ollama = b].sys1 = Opened(m).sys1
  BY <1>1 DEF ModelsFile
<1>5. \A v \in {Nil} \cup SmolModel : [Opened(m) EXCEPT !.smol = v].sys1 = Opened(m).sys1
  BY <1>1 DEF ModelsFile
<1> HIDE DEF Opened
<1> QED
  BY <1>1, <1>2, <1>3, <1>4, <1>5, Sys1Opened

LEMMA Sys1Stripped ==
  ASSUME NEW m \in ModelsFile, NEW p, NEW created
  PROVE  Sys1In(Stripped(p, m, created)) = Sys1In(m)
<1> DEFINE rest == [Opened(m) EXCEPT !.ollama = FALSE]
<1>1. rest \in ModelsFile /\ Sys1In(rest) = Sys1In(m)
  BY EditRoute, Sys1Edit
<1>2. rest = [m EXCEPT !.ollama = FALSE]
  BY RealModels DEF Opened
<1>3. Stripped(p, m, created) = rest \/ (Stripped(p, m, created) = Nil /\ Blank(rest))
  BY <1>2 DEF Stripped
<1> HIDE DEF rest
<1>4. Blank(rest) => Sys1In(rest) = Nil
  BY <1>1, Sys1Opened DEF Blank
<1> QED
  BY <1>1, <1>3, <1>4 DEF Sys1In

LEMMA OnePart ==
  ASSUME Types, cfg' = cfg, NEW p \in Profile, NEW n, mdl' = [mdl EXCEPT ![p] = n], Sys1In(n) = Sys1In(mdl[p])
  PROVE  SameParts
<1>1. \A q \in Profile : mdl'[q] = IF q = p THEN n ELSE mdl[q]
  BY DEF Types
<1> QED
  BY <1>1 DEF SameParts

LEMMA RouteParts ==
  ASSUME Base, RoutesNext
  PROVE  SameParts
<1>1. Types /\ cfg' = cfg /\ mdl \in [Profile -> {Nil} \cup ModelsFile]
  BY RoutesEdit DEF Base, Types, RouteEdit
<1>2. CASE UNCHANGED mdl
  BY <1>1, <1>2 DEF SameParts
<1>3. ASSUME NEW p \in Profile, mdl' = [mdl EXCEPT ![p] = WithBlock(ModelsOf(mdl, p))]
      PROVE  SameParts
  <2>1. WithBlock(ModelsOf(mdl, p)) = [Opened(mdl[p]) EXCEPT !.ollama = TRUE]
    BY DEF WithBlock, ModelsOf, Opened
  <2>2. Sys1In(WithBlock(ModelsOf(mdl, p))) = Sys1In(mdl[p])
    BY <1>1, <2>1, Sys1Edit
  <2> QED
    BY <1>1, <1>3, <2>2, OnePart
<1>4. CASE InstallUndo
  <2>1. RouteShape
    BY <1>4, RouteWhere DEF InstallUndo
  <2>2. ASSUME NEW p \in cmd.done, mdl[p] = WithBlock(ModelsOf(cmd.snap, p)), mdl' = [mdl EXCEPT ![p] = cmd.snap[p]]
        PROVE  SameParts
    <3>1. p \in Profile /\ cmd.snap[p] \in {Nil} \cup ModelsFile
      BY <2>1 DEF RouteShape
    <3>2. WithBlock(ModelsOf(cmd.snap, p)) = [Opened(cmd.snap[p]) EXCEPT !.ollama = TRUE]
      BY DEF WithBlock, ModelsOf, Opened
    <3>3. Sys1In(mdl[p]) = Sys1In(cmd.snap[p])
      BY <2>2, <3>1, <3>2, Sys1Edit
    <3> QED
      BY <1>1, <2>2, <3>1, <3>3, OnePart
  <2> QED
    BY <1>2, <1>4, <2>2 DEF InstallUndo
<1>5. CASE RevertWrite \/ RevertRedo
  <2>1. RouteShape /\ \A p \in Profile : cmd.snap[p] \in ModelsFile
    BY <1>5, RouteWhere, NoModels DEF RevertWrite, RevertRedo, At, RouteShape
  <2>2. ASSUME NEW p \in Profile, mdl[p] = cmd.snap[p], mdl' = [mdl EXCEPT ![p] = Stripped(p, mdl[p], routes[p])]
        PROVE  SameParts
    BY <1>1, <2>1, <2>2, Sys1Stripped, OnePart
  <2>3. ASSUME NEW p \in cmd.done, mdl[p] = Stripped(p, cmd.snap[p], routes[p]), mdl' = [mdl EXCEPT ![p] = cmd.snap[p]]
        PROVE  SameParts
    <3>1. p \in Profile
      BY <2>1 DEF RouteShape
    <3>2. Sys1In(cmd.snap[p]) = Sys1In(mdl[p])
      BY <2>1, <2>3, <3>1, Sys1Stripped
    <3> QED
      BY <1>1, <2>3, <3>1, <3>2, OnePart
  <2>4. CASE RevertWrite
    BY <1>2, <2>2, <2>4 DEF RevertWrite
  <2>5. CASE RevertRedo
    BY <1>2, <2>3, <2>5 DEF RevertRedo
  <2> QED
    BY <1>5, <2>4, <2>5
<1>6. CASE InstallWrite
  BY <1>2, <1>3, <1>6 DEF InstallWrite
<1>7. ~(InstallWrite \/ InstallUndo \/ RevertWrite \/ RevertRedo) => UNCHANGED mdl
  BY DEF RoutesNext, InstallBegin, InstallManifest, InstallService, InstallReadback, InstallRecover,
         RemoveBegin, RemoveStop, RevertPlan, RevertBlocked, RevertDone, RouteCleanup, Start, StopBegin, StopEnd
<1> QED
  BY <1>2, <1>4, <1>5, <1>6, <1>7

LEMMA SmolParts ==
  ASSUME Base, SmolNext, UNCHANGED presetVars
  PROVE  SameParts
<1>1. Types /\ cfg \in [Profile -> ConfigFile] /\ mdl \in [Profile -> {Nil} \cup ModelsFile]
  BY DEF Base, Types
<1>2. CASE UNCHANGED <<cfg, mdl>>
  BY <1>2 DEF SameParts
<1>3. ASSUME NEW p \in Profile, NEW v, cfg' = [cfg EXCEPT ![p].smol = v], mdl' = mdl
      PROVE  SameParts
  <2>1. \A q \in Profile : cfg'[q].judge = cfg[q].judge /\ cfg'[q].level = cfg[q].level
    BY <1>1, <1>3 DEF ConfigFile
  <2> QED
    BY <1>3, <2>1 DEF SameParts
<1>4. CASE SmolBlock
  <2>1. cfg' = cfg /\ cmd.left \subseteq Profile /\ cmd.new.model \in SmolModel
    BY <1>4, SetWhere DEF SmolBlock
  <2>2. PICK p \in cmd.left : mdl' = [mdl EXCEPT ![p] = [ModelsOf(mdl, p) EXCEPT !.smol = cmd.new.model]]
    BY <1>4 DEF SmolBlock
  <2>3. mdl' = [mdl EXCEPT ![p] = [Opened(mdl[p]) EXCEPT !.smol = cmd.new.model]]
    BY <2>2 DEF ModelsOf, Opened
  <2>4. p \in Profile /\ Sys1In([Opened(mdl[p]) EXCEPT !.smol = cmd.new.model]) = Sys1In(mdl[p])
    BY <1>1, <2>1, <2>2, Sys1Edit
  <2> QED
    BY <1>1, <2>1, <2>3, <2>4, OnePart
<1>5. CASE SmolLine
  <2>1. cmd.at \in Profile
    BY <1>5, SetWhere DEF SmolLine, At
  <2> QED
    BY <1>3, <1>5, <2>1 DEF SmolLine
<1>6. CASE SmolUnline
  <2>1. cmd.left \subseteq Profile
    BY <1>6, RevertWhere DEF SmolUnline
  <2> QED
    BY <1>2, <1>3, <1>6, <2>1 DEF SmolUnline
<1>7. CASE SmolUnblock
  <2> DEFINE p == cmd.at
             rest == [Opened(mdl[p]) EXCEPT !.smol = Nil]
             n == IF mdl[p] = Nil \/ (smolState.profiles[p].created /\ Blank(rest)) THEN Nil ELSE rest
  <2>1. mdl' = [mdl EXCEPT ![p] = n] /\ cfg' = cfg
    BY <1>7 DEF SmolUnblock, ModelsOf, Opened
  <2>2. p \in Profile /\ mdl[p] \in {Nil} \cup ModelsFile
    BY <1>1, <1>7, RevertWhere DEF SmolUnblock, At
  <2>3. rest \in ModelsFile /\ Sys1In(rest) = Sys1In(mdl[p])
    BY <2>2, EditSmol, Sys1Edit
  <2>4. n = rest \/ (n = Nil /\ mdl[p] = Nil) \/ (n = Nil /\ Blank(rest))
    <3> HIDE DEF rest
    <3> QED
      OBVIOUS
  <2> HIDE DEF n, rest
  <2>5. Blank(rest) => Sys1In(rest) = Nil
    BY <2>3, Sys1Opened DEF Blank
  <2>6. Sys1In(n) = Sys1In(mdl[p])
    BY <2>3, <2>4, <2>5 DEF Sys1In
  <2> HIDE DEF p
  <2> QED
    BY <1>1, <2>1, <2>2, <2>6, OnePart
<1>8. ~(SmolBlock \/ SmolLine \/ SmolUnline \/ SmolUnblock) => UNCHANGED <<cfg, mdl>>
  BY DEF SmolNext, SmolSet, SmolStart, SmolCheck, SmolSave, SmolRevert, SmolHalt, SmolServer
<1> QED
  BY <1>2, <1>4, <1>5, <1>6, <1>7, <1>8

\* Commands that are not about presets leave what is told as it is.
LEMMA TellingBeside ==
  ASSUME Telling, SameParts, UNCHANGED presetVars, cmd.tool \notin {"preset", "rollback"}, cmd'.tool \notin {"preset", "rollback"}
  PROVE  Telling'
<1>1. UNCHANGED <<manifests, applied>> /\ \A p \in Profile : PartNow(p)' = PartNow(p)
  BY DEF presetVars, SameParts, PartNow, PartOf
<1>2. \A p \in Profile : Holds(p)
  BY DEF Telling, Untouched, Applying, RollingBack
<1>3. \A p \in Profile : Holds(p)'
  BY <1>1, <1>2 DEF Holds
<1>4. Rowed' /\ StackedUp'
  BY <1>1 DEF Telling, Rowed, StackedUp
<1>5. PlanStands' /\ ApplyStands' /\ RollbackStands'
  BY DEF PlanStands, ApplyStands, RollbackStands, Applying, RollingBack
<1> QED
  BY <1>3, <1>4, <1>5 DEF Telling

LEMMA RoutesTell ==
  ASSUME Base, Telling, RoutesNext, UNCHANGED <<presetVars, smolVars>>
  PROVE  Telling'
<1>1. cmd = Idle \/ cmd.tool = "route"
  BY DEF RoutesNext, InstallBegin, InstallWrite, InstallUndo, InstallManifest, InstallService, InstallReadback, InstallRecover,
         RemoveBegin, RemoveStop, RevertPlan, RevertWrite, RevertRedo, RevertBlocked, RevertDone, RouteCleanup, Start, StopBegin,
         StopEnd, Begin, At
<1>2. cmd'.tool \notin {"preset", "rollback"}
  BY RoutesEdit DEF Idle
<1>3. cmd.tool \notin {"preset", "rollback"}
  BY <1>1 DEF Idle
<1> QED
  BY <1>2, <1>3, RouteParts, TellingBeside

LEMMA SmolTells ==
  ASSUME Base, Telling, SmolNext, UNCHANGED <<presetVars, routeVars>>
  PROVE  Telling'
<1>1. cmd = Idle \/ cmd.tool = "smol"
  BY DEF SmolNext, SmolSet, SmolStart, SmolCheck, SmolBlock, SmolLine, SmolSave, SmolRevert, SmolUnline, SmolUnblock,
         SmolHalt, SmolServer, Begin, At
<1>2. cmd'.tool \notin {"preset", "rollback"}
  BY SmolTool DEF Idle
<1>3. cmd.tool \notin {"preset", "rollback"}
  BY <1>1 DEF Idle
<1> QED
  BY <1>2, <1>3, SmolParts, TellingBeside

(***************************************************************************)
(* Apply.                                                                  *)
(***************************************************************************)
LEMMA FilesStay ==
  ASSUME Telling, UNCHANGED <<cfg, mdl, manifests, applied>>
  PROVE  /\ Rowed' /\ StackedUp' /\ \A p \in Profile : Holds(p) => Holds(p)'
         /\ \A p \in Profile : PartNow(p)' = PartNow(p)
BY DEF Telling, Rowed, StackedUp, Holds, PartNow

LEMMA TellPlan ==
  ASSUME Base, Telling, ApplyPlan
  PROVE  Telling'
<1>1. PICK n \in DOMAIN Preset, ps \in SUBSET Profile :
        cmd' = [tool |-> "preset", pc |-> "backup", name |-> n, ps |-> ps, steps |-> Plan(n, ps),
                todo |-> Changed(Plan(n, ps)), on |-> Nil, id |-> Nil, state |-> Nil, left |-> {}]
  BY DEF ApplyPlan, Begin
<1>2. cmd = Idle /\ UNCHANGED <<cfg, mdl, manifests, applied>>
  BY DEF ApplyPlan, Begin
<1>3. \A p \in Profile : Holds(p)
  BY <1>2 DEF Telling, Untouched, Applying, RollingBack, Idle
<1>4. cmd'.tool = "preset" /\ cmd'.pc = "backup" /\ cmd'.name = n /\ cmd'.ps = ps /\ cmd'.steps = Plan(n, ps)
  BY <1>1
<1>5. DOMAIN Plan(n, ps) = ps \X KindsOf(n)
  BY DEF Plan
<1>6. ASSUME NEW pk \in ps \X KindsOf(n)
      PROVE  /\ pk[2] = "modelRoles" => Plan(n, ps)[pk].after.judge = Preset[n].judge
             /\ pk[2] = "provider" => Plan(n, ps)[pk].after = Preset[n].sys1
             /\ pk[2] = "level" => Plan(n, ps)[pk].after = Preset[n].level
  BY DEF Plan, StepFor, Roles
<1>7. PlanStands'
  BY <1>4, <1>5, <1>6 DEF PlanStands
<1>8. ApplyStands' /\ RollbackStands'
  BY <1>4 DEF ApplyStands, Applying, RollbackStands, RollingBack
<1> QED
  BY <1>2, <1>3, <1>7, <1>8, FilesStay DEF Telling

\* An apply and what it found at its backup.
LEMMA TellBackup ==
  ASSUME Base, Telling, ApplyBackup
  PROVE  Telling'
<1>1. cmd.tool = "preset" /\ cmd.pc = "backup" /\ DOMAIN cmd = ApplyFields /\ cmd.ps \subseteq Profile /\ IsSeq(manifests)
  BY DEF ApplyBackup, At, Base, CmdFits, ApplyFits, Types
<1> DEFINE m == [name |-> cmd.name, status |-> "applying", files |-> Files(cmd.ps), sha |-> Nil,
                 previous |-> [p \in cmd.ps |-> applied[p][Preset[cmd.name].family]]]
<1>2. /\ manifests' = Append(manifests, m) /\ m.name = cmd.name /\ m.status = "applying" /\ m.files = Files(cmd.ps)
      /\ m.previous = [p \in cmd.ps |-> applied[p][Preset[cmd.name].family]]
  BY DEF ApplyBackup
<1> HIDE DEF m
<1>3. cmd' = [cmd EXCEPT !.pc = "write", !.id = Len(manifests) + 1, !.state = applied] /\ UNCHANGED <<cfg, mdl, applied>>
  BY DEF ApplyBackup
<1> DEFINE i == Len(manifests')
<1>4. /\ DOMAIN manifests' = DOMAIN manifests \cup {i} /\ manifests'[i] = m /\ i = Len(manifests) + 1
      /\ i \notin DOMAIN manifests /\ \A j \in DOMAIN manifests : manifests'[j] = manifests[j]
  BY <1>1, <1>2, SeqAppend
<1>5. /\ cmd'.tool = "preset" /\ cmd'.pc = "write" /\ cmd'.id = i /\ cmd'.state = applied /\ cmd'.name = cmd.name
      /\ cmd'.ps = cmd.ps /\ cmd'.steps = cmd.steps
  BY <1>1, <1>3, <1>4 DEF ApplyFields
<1> HIDE DEF i
<1>6. \A p : StandingOn(manifests', p) = StandingOn(manifests, p)
  BY <1>2, <1>4 DEF StandingOn
<1>7. Tells(manifests, manifests', DOMAIN manifests) /\ \A p : Tells(manifests, manifests', StandingOn(manifests, p))
  BY <1>4 DEF Tells, StandingOn
<1>8. \A p \in Profile : Holds(p)
  BY <1>1 DEF Telling, Untouched, Applying, RollingBack
<1>9. \A p \in Profile : PartNow(p)' = PartNow(p)
  BY <1>3 DEF PartNow
<1>10. \A p \in Profile : Holds(p)'
  BY <1>3, <1>6, <1>7, <1>8, <1>9, SameHolds
<1>11. PlanStands' /\ cmd.name \in DOMAIN Preset
  BY <1>1, <1>5 DEF Telling, PlanStands
<1>12. StackedUp'
  <2>1. \A j \in DOMAIN manifests' : manifests'[j].name \in DOMAIN Preset
    BY <1>2, <1>4, <1>11 DEF Telling, StackedUp
  <2>2. \A p \in Profile : Stacked(manifests', p)
    BY <1>6, <1>7, SameStack DEF Telling, StackedUp
  <2> QED
    BY <2>1, <2>2 DEF StackedUp
<1>13. ASSUME NEW p \in cmd.ps
       PROVE  ApplyStandsAt(p)'
  <2> DEFINE T == StandingOn(manifests, p)
  <2>1. p \in Profile /\ T \subseteq DOMAIN manifests
    BY <1>1 DEF StandingOn
  <2>2. Others(p)' = T
    BY <1>4, <1>5, <1>6, <2>1 DEF Others
  <2>3. Records(manifests, T, applied[p]) /\ MeetsAll(manifests, T, PartNow(p))
    BY <1>8, <2>1 DEF Holds
  <2>4. Records(manifests', T, applied[p]) /\ MeetsAll(manifests', T, PartNow(p))
    BY <1>7, <2>3, SameStory
  <2>5. PartThen(manifests', i, p) = PartNow(p)
    BY <1>2, <1>4 DEF PartThen, PartNow, Files
  <2>6. FamilyIn(manifests', i) \in Family /\ manifests'[i].previous[p] = applied[p][FamilyIn(manifests', i)]
    BY <1>2, <1>4, <1>11 DEF FamilyIn, Family
  <2>7. Supports(manifests', T, i, p)
    BY <2>4, <2>5, <2>6 DEF Supports, Records
  <2> HIDE DEF T
  <2>8. Supports(manifests', Others(p)', cmd'.id, p) /\ Records(manifests', Others(p)', applied'[p])
    BY <1>3, <1>5, <2>2, <2>4, <2>7
  <2>9. KeepsOthers(cmd'.name, PartNow(p)', PartThen(manifests', cmd'.id, p))
    BY <1>5, <1>9, <2>1, <2>5 DEF KeepsOthers
  <2> QED
    BY <1>5, <2>8, <2>9 DEF ApplyStandsAt
<1>14. ApplyStands'
  BY <1>2, <1>3, <1>4, <1>5, <1>13 DEF ApplyStands, Its, i
<1>15. RollbackStands' /\ Rowed'
  BY <1>3, <1>5 DEF RollbackStands, RollingBack, Rowed, Telling
<1> QED
  BY <1>10, <1>11, <1>12, <1>14, <1>15 DEF Telling

\* A step of an apply that changes no manifest.
LEMMA ApplyGoesOn ==
  ASSUME Telling, Applying, UNCHANGED presetVars, cmd'.tool = "preset", cmd'.pc \in {"write", "commit", "restore"},
         cmd'.name = cmd.name, cmd'.ps = cmd.ps, cmd'.steps = cmd.steps, cmd'.id = cmd.id, cmd'.state = cmd.state,
         \A p \in Profile \ cmd.ps : PartNow(p)' = PartNow(p),
         \A p \in cmd.ps :
           /\ cmd'.pc \in {"write", "commit"} => KeepsOthers(cmd.name, PartNow(p)', PartThen(manifests, cmd.id, p))
           /\ cmd'.pc = "commit" => Meets(cmd.name, PartNow(p)')
           /\ cmd'.pc = "restore" => Restored(p)'
  PROVE  Telling'
<1>1. UNCHANGED <<manifests, applied>> /\ cmd.tool = "preset"
  BY DEF presetVars, Applying
<1>2. Rowed' /\ StackedUp'
  BY <1>1 DEF Telling, Rowed, StackedUp
<1>3. ASSUME NEW p \in Profile, Untouched(p)'
      PROVE  Holds(p)'
  <2>1. p \notin cmd.ps
    BY <1>3 DEF Untouched, Applying
  <2>2. Holds(p) /\ PartNow(p)' = PartNow(p)
    BY <2>1 DEF Telling, Untouched
  <2> QED
    BY <1>1, <2>2 DEF Holds
<1>4. PlanStands'
  BY <1>1 DEF Telling, PlanStands
<1>5. ApplyStands /\ Its' = Its
  BY <1>1 DEF Telling, Its
<1>6. ASSUME NEW p \in cmd.ps
      PROVE  ApplyStandsAt(p)'
  <2>1. Others(p)' = Others(p) /\ ApplyStandsAt(p)
    BY <1>1, <1>5 DEF ApplyStands, Others
  <2> QED
    BY <1>1, <2>1 DEF ApplyStandsAt
<1>7. ApplyStands'
  BY <1>1, <1>5, <1>6 DEF ApplyStands
<1>8. RollbackStands'
  BY DEF RollbackStands, RollingBack
<1> QED
  BY <1>2, <1>3, <1>4, <1>7, <1>8 DEF Telling

LEMMA InApply ==
  ASSUME Base, NEW pc, pc # "backup", At("preset", pc)
  PROVE  /\ Types /\ Applying /\ cmd.tool = "preset" /\ cmd.pc = pc /\ DOMAIN cmd = ApplyFields /\ OnIts
         /\ cmd.ps \subseteq Profile /\ cmd.left \subseteq AllFiles(cmd.ps) /\ cmd.todo \subseteq DOMAIN cmd.steps
         /\ pc \in {"write", "commit", "restore"} => Its.status = "applying"
         /\ \A pk \in DOMAIN cmd.steps : cmd.steps[pk].p = pk[1] /\ cmd.steps[pk].kind = pk[2]
BY DEF Base, CmdFits, ApplyFits, At, Applying, StepFits

LEMMA ToRestoreTells ==
  ASSUME Base, Telling, NEW pc \in {"write", "commit"}, At("preset", pc), ToRestore, UNCHANGED <<cfg, mdl>>, UNCHANGED presetVars
  PROVE  Telling'
<1>1. Applying /\ cmd.tool = "preset" /\ DOMAIN cmd = ApplyFields /\ OnIts /\ cmd.ps \subseteq Profile
  BY InApply
<1>2. /\ cmd'.tool = "preset" /\ cmd'.pc = "restore" /\ cmd'.left = AllFiles(cmd.ps) /\ cmd'.name = cmd.name
      /\ cmd'.ps = cmd.ps /\ cmd'.steps = cmd.steps /\ cmd'.id = cmd.id /\ cmd'.state = cmd.state
  BY <1>1 DEF ToRestore, ApplyFields
<1>3. \A p \in cmd.ps : Restored(p)'
  BY <1>2 DEF Restored, AllFiles
<1>4. \A p \in Profile : PartNow(p)' = PartNow(p)
  BY DEF PartNow
<1> QED
  BY <1>1, <1>2, <1>3, <1>4, ApplyGoesOn

LEMMA TellWrite ==
  ASSUME Base, Telling, ApplyWrite
  PROVE  Telling'
<1>1. At("preset", "write") /\ UNCHANGED presetVars
  BY DEF ApplyWrite
<1>2. /\ Types /\ Applying /\ cmd.tool = "preset" /\ cmd.pc = "write" /\ DOMAIN cmd = ApplyFields /\ cmd.ps \subseteq Profile
      /\ \A pk \in DOMAIN cmd.steps : cmd.steps[pk].p = pk[1] /\ cmd.steps[pk].kind = pk[2]
      /\ cmd.todo \subseteq DOMAIN cmd.steps
  BY <1>1, InApply
<1>3. cmd.name \in DOMAIN Preset /\ DOMAIN cmd.steps = cmd.ps \X KindsOf(cmd.name)
  BY <1>2 DEF Telling, PlanStands
<1>4. CASE ToRestore /\ UNCHANGED <<cfg, mdl>>
  BY <1>1, <1>4, ToRestoreTells
<1>5. ASSUME NEW pk \in cmd.todo, WriteStep(cmd.steps[pk]), cmd' = [cmd EXCEPT !.todo = @ \ {pk}, !.on = cmd.steps[pk].p]
      PROVE  Telling'
  <2> DEFINE s == cmd.steps[pk]
  <2>1. PICK q, d, v : q = s.p /\ d = s.kind /\ v = s.after
    OBVIOUS
  <2>2. /\ cmd'.tool = "preset" /\ cmd'.pc = "write" /\ cmd'.name = cmd.name
        /\ cmd'.ps = cmd.ps /\ cmd'.steps = cmd.steps /\ cmd'.id = cmd.id /\ cmd'.state = cmd.state
    BY <1>2, <1>5 DEF ApplyFields
  <2>3. \/ d = "provider" /\ mdl' = [mdl EXCEPT ![q] = [ModelsOf(mdl, q) EXCEPT !.sys1 = v]] /\ UNCHANGED cfg
        \/ /\ d = "modelRoles"
           /\ cfg' = [cfg EXCEPT ![q] = [@ EXCEPT !.judge = v.judge, !.smol = v.smol]] /\ UNCHANGED mdl
        \/ d = "level" /\ cfg' = [cfg EXCEPT ![q].level = v] /\ UNCHANGED mdl
    BY <1>5, <2>1 DEF WriteStep
  <2>4. q \in cmd.ps /\ q \in Profile /\ d \in KindsOf(cmd.name)
    BY <1>2, <1>3, <2>1
  <2> HIDE DEF s
  <2>5. cfg \in [Profile -> ConfigFile] /\ mdl \in [Profile -> {Nil} \cup ModelsFile]
    BY <1>2 DEF Types
  <2>6. \A p \in Profile \ {q} : PartNow(p)' = PartNow(p)
    <3>1. \A p \in Profile \ {q} : cfg'[p] = cfg[p] /\ mdl'[p] = mdl[p]
      BY <2>3, <2>4, <2>5
    <3> QED
      BY <3>1 DEF PartNow
  <2>7. \A k \in Kind \ {d} : PartNow(q)'[k] = PartNow(q)[k]
    <3>1. CASE d = "provider" /\ UNCHANGED cfg
      BY <3>1, PartKinds DEF PartNow, Kind
    <3>2. CASE d = "modelRoles" /\ UNCHANGED mdl
      <4>1. cfg'[q] = [cfg[q] EXCEPT !.judge = v.judge, !.smol = v.smol]
        BY <2>3, <2>4, <2>5, <3>2
      <4>2. cfg'[q].level = cfg[q].level
        BY <2>4, <2>5, <4>1 DEF ConfigFile
      <4> QED
        BY <3>2, <4>2, PartKinds DEF PartNow, Kind
    <3>3. CASE d = "level" /\ UNCHANGED mdl
      <4>1. cfg'[q] = [cfg[q] EXCEPT !.level = v]
        BY <2>3, <2>4, <2>5, <3>3
      <4>2. cfg'[q].judge = cfg[q].judge
        BY <2>4, <2>5, <4>1 DEF ConfigFile
      <4> QED
        BY <3>3, <4>2, PartKinds DEF PartNow, Kind
    <3> QED
      BY <2>3, <3>1, <3>2, <3>3
  <2>8. ASSUME NEW p \in cmd.ps
        PROVE  KeepsOthers(cmd.name, PartNow(p)', PartThen(manifests, cmd.id, p))
    <3>1. KeepsOthers(cmd.name, PartNow(p), PartThen(manifests, cmd.id, p))
      BY <1>2 DEF Telling, ApplyStands, ApplyStandsAt
    <3>2. \A k \in Kind \ KindsOf(cmd.name) : PartNow(p)'[k] = PartNow(p)[k]
      BY <1>2, <2>4, <2>6, <2>7
    <3> QED
      BY <3>1, <3>2 DEF KeepsOthers
  <2> QED
    BY <1>1, <1>2, <2>2, <2>4, <2>6, <2>8, ApplyGoesOn
<1> QED
  BY <1>4, <1>5 DEF ApplyWrite

LEMMA TellReadback ==
  ASSUME Base, Telling, ApplyReadback
  PROVE  Telling'
<1>1. At("preset", "write") /\ UNCHANGED <<cfg, mdl>> /\ UNCHANGED presetVars
  BY DEF ApplyReadback
<1>2. /\ Applying /\ cmd.tool = "preset" /\ cmd.pc = "write" /\ DOMAIN cmd = ApplyFields /\ cmd.ps \subseteq Profile
      /\ \A pk \in DOMAIN cmd.steps : cmd.steps[pk].p = pk[1] /\ cmd.steps[pk].kind = pk[2]
  BY <1>1, InApply
<1>3. CASE ToRestore
  BY <1>1, <1>3, ToRestoreTells
<1>4. CASE Readback(cmd.steps) /\ Goto("commit")
  <2>1. /\ cmd'.tool = "preset" /\ cmd'.pc = "commit" /\ cmd'.name = cmd.name
        /\ cmd'.ps = cmd.ps /\ cmd'.steps = cmd.steps /\ cmd'.id = cmd.id /\ cmd'.state = cmd.state
    BY <1>2, <1>4 DEF ApplyFields, Goto
  <2>2. PlanStands /\ cmd.name \in DOMAIN Preset /\ DOMAIN cmd.steps = cmd.ps \X KindsOf(cmd.name)
    BY <1>2 DEF Telling, PlanStands
  <2>3. \A p \in Profile : PartNow(p)' = PartNow(p)
    BY <1>1 DEF PartNow
  <2>4. ASSUME NEW p \in cmd.ps, NEW k \in KindsOf(cmd.name)
        PROVE  PartNow(p)[k] = Wanted(cmd.name)[k]
    <3> DEFINE pk == <<p, k>>
    <3>1. pk \in DOMAIN cmd.steps /\ pk[1] = p /\ pk[2] = k
      BY <2>2
    <3>2. Current(p, k) = cmd.steps[pk].after
      BY <1>2, <1>4, <3>1 DEF Readback
    <3>3. /\ k = "modelRoles" => cmd.steps[pk].after.judge = Preset[cmd.name].judge
          /\ k = "provider" => cmd.steps[pk].after = Preset[cmd.name].sys1
          /\ k = "level" => cmd.steps[pk].after = Preset[cmd.name].level
      BY <1>2, <2>2, <3>1 DEF PlanStands
    <3> HIDE DEF pk
    <3>4. k \in Kind
      BY <2>2, PartKinds
    <3>5. CASE k = "modelRoles"
      <4>1. cfg[p].judge = cmd.steps[pk].after.judge
        BY <3>2, <3>5 DEF Current, Roles
      <4> QED
        BY <2>2, <3>3, <3>5, <4>1, PartKinds DEF PartNow
    <3>6. CASE k = "provider"
      <4>1. Sys1In(mdl[p]) = cmd.steps[pk].after
        BY <3>2, <3>6 DEF Current, ModelsOf, Sys1In, EmptyModels
      <4> QED
        BY <2>2, <3>3, <3>6, <4>1, PartKinds DEF PartNow
    <3>7. CASE k = "level"
      <4>1. cfg[p].level = cmd.steps[pk].after
        BY <3>2, <3>7 DEF Current
      <4> QED
        BY <2>2, <3>3, <3>7, <4>1, PartKinds DEF PartNow
    <3> QED
      BY <3>4, <3>5, <3>6, <3>7 DEF Kind
  <2>5. \A p \in cmd.ps : Meets(cmd.name, PartNow(p)')
    BY <1>2, <2>3, <2>4 DEF Meets
  <2>6. \A p \in cmd.ps : KeepsOthers(cmd.name, PartNow(p)', PartThen(manifests, cmd.id, p))
    BY <1>2, <2>3 DEF Telling, ApplyStands, ApplyStandsAt
  <2> QED
    BY <1>1, <1>2, <2>1, <2>3, <2>5, <2>6, ApplyGoesOn
<1> QED
  BY <1>3, <1>4 DEF ApplyReadback

\* The manifest that stands from the commit on is the last of its profiles.
LEMMA TellCommit ==
  ASSUME Base, Telling, ApplyCommit
  PROVE  Telling'
<1>1. At("preset", "commit") /\ UNCHANGED <<cfg, mdl, applied>>
  BY DEF ApplyCommit
<1>2. /\ Types /\ Applying /\ cmd.tool = "preset" /\ cmd.pc = "commit" /\ DOMAIN cmd = ApplyFields /\ OnIts /\ cmd.ps \subseteq Profile
      /\ Its.status = "applying"
  BY <1>1, InApply
<1> DEFINE i == cmd.id
           m == [manifests[i] EXCEPT !.status = "applied", !.sha = Files(cmd.ps)]
<1>3. /\ i \in DOMAIN manifests /\ IsSeq(manifests) /\ DOMAIN manifests = 1..Len(manifests) /\ Len(manifests) \in Nat
      /\ ManifestFits(manifests[i]) /\ DOMAIN manifests[i].files = cmd.ps
  BY <1>2, SeqDomain DEF OnIts, Types, Its
<1>4. manifests' = [manifests EXCEPT ![i] = m]
  BY <1>3 DEF ApplyCommit
<1>5. m.status = "applied" /\ m.name = manifests[i].name /\ m.files = manifests[i].files /\ m.previous = manifests[i].previous
  BY <1>3 DEF ManifestFits
<1> HIDE DEF m
<1>6. /\ DOMAIN manifests' = DOMAIN manifests /\ manifests'[i] = m /\ Len(manifests') = Len(manifests)
      /\ \A j \in DOMAIN manifests : j # i => manifests'[j] = manifests[j]
  BY <1>3, <1>4, SeqExcept
<1>7. Tells(manifests, manifests', DOMAIN manifests)
  BY <1>5, <1>6 DEF Tells
<1>8. /\ cmd'.tool = "preset" /\ cmd'.pc = "record" /\ cmd'.name = cmd.name
      /\ cmd'.ps = cmd.ps /\ cmd'.steps = cmd.steps /\ cmd'.id = cmd.id /\ cmd'.state = cmd.state
  BY <1>2 DEF ApplyFields, ApplyCommit, Goto
<1>9. ApplyStands /\ Its.name = cmd.name /\ i = Len(manifests) /\ cmd.state = applied
  BY <1>2 DEF Telling, ApplyStands
<1>10. \A p : i \notin StandingOn(manifests, p) /\ StandingOn(manifests, p) \subseteq DOMAIN manifests
  BY <1>2 DEF StandingOn, Its
<1>11. \A p \in Profile \ cmd.ps : StandingOn(manifests', p) = StandingOn(manifests, p)
  BY <1>3, <1>5, <1>6, <1>10 DEF StandingOn
<1>12. \A p \in cmd.ps : StandingOn(manifests', p) = StandingOn(manifests, p) \cup {i}
  BY <1>3, <1>5, <1>6, <1>10 DEF StandingOn
<1>13. \A p \in cmd.ps : Others(p)' = StandingOn(manifests, p) /\ Others(p) = StandingOn(manifests, p)
  BY <1>8, <1>10, <1>12 DEF Others
<1>14. \A p \in cmd.ps : ApplyStandsAt(p)
  BY <1>2 DEF Telling, ApplyStands
<1>15. ASSUME NEW p \in cmd.ps
       PROVE  Supports(manifests', StandingOn(manifests, p), i, p)
  <2>1. Tells(manifests, manifests', StandingOn(manifests, p) \cup {i})
    BY <1>3, <1>7, <1>10 DEF Tells
  <2>2. Supports(manifests, StandingOn(manifests, p), i, p)
    BY <1>13, <1>14 DEF ApplyStandsAt
  <2> QED
    BY <2>1, <2>2, SameSupport
<1>16. StackedUp'
  <2>1. \A j \in DOMAIN manifests' : manifests'[j].name \in DOMAIN Preset
    BY <1>5, <1>6 DEF Telling, StackedUp
  <2>2. ASSUME NEW p \in Profile
        PROVE  Stacked(manifests', p)
    <3>1. Stacked(manifests, p) /\ Tells(manifests, manifests', StandingOn(manifests, p))
      BY <1>7, <1>10 DEF Telling, StackedUp, Tells
    <3>2. CASE p \notin cmd.ps
      BY <1>11, <3>1, <3>2, SameStack
    <3>3. CASE p \in cmd.ps
      <4> DEFINE T == StandingOn(manifests, p)
                 U == T \cup {i}
      <4>1. \A j \in T : j < i
        BY <1>3, <1>9, <1>10
      <4>2. \A j \in T : Below(U, j) = Below(T, j)
        BY <1>3, <1>10, <4>1 DEF Below
      <4>3. Below(U, i) = T
        BY <1>3, <4>1 DEF Below
      <4>4. ASSUME NEW j \in T
            PROVE  Supports(manifests', Below(U, j), j, p)
        <5>1. Supports(manifests, Below(T, j), j, p)
          BY <3>1 DEF Stacked
        <5>2. Tells(manifests, manifests', Below(T, j) \cup {j})
          BY <3>1 DEF Tells, Below
        <5> QED
          BY <4>2, <5>1, <5>2, SameSupport
      <4>5. Supports(manifests', Below(U, i), i, p)
        BY <1>15, <3>3, <4>3
      <4>6. StandingOn(manifests', p) = U
        BY <1>12, <3>3
      <4> HIDE DEF T
      <4> QED
        BY <4>4, <4>5, <4>6 DEF Stacked
    <3> QED
      BY <3>2, <3>3
  <2> QED
    BY <2>1, <2>2 DEF StackedUp
<1>17. ASSUME NEW p \in Profile, Untouched(p)'
       PROVE  Holds(p)'
  <2>1. p \notin cmd.ps
    BY <1>8, <1>17 DEF Untouched, Applying
  <2>2. Holds(p) /\ PartNow(p)' = PartNow(p)
    BY <1>1, <2>1 DEF Telling, Untouched, PartNow
  <2>3. Tells(manifests, manifests', StandingOn(manifests, p))
    BY <1>7, <1>10 DEF Tells
  <2> QED
    BY <1>1, <1>11, <2>1, <2>2, <2>3, SameHolds
<1>18. ASSUME NEW p \in cmd.ps
       PROVE  ApplyStandsAt(p)'
  <2>1. PartNow(p)' = PartNow(p) /\ PartThen(manifests', i, p) = PartThen(manifests, i, p)
    BY <1>1, <1>5, <1>6 DEF PartNow, PartThen
  <2>2. KeepsOthers(cmd.name, PartNow(p), PartThen(manifests, i, p)) /\ Meets(cmd.name, PartNow(p))
    BY <1>2, <1>14 DEF ApplyStandsAt
  <2>3. Records(manifests, StandingOn(manifests, p), applied[p])
    BY <1>13, <1>14 DEF ApplyStandsAt
  <2>4. Tells(manifests, manifests', StandingOn(manifests, p))
    BY <1>7, <1>10 DEF Tells
  <2>5. Records(manifests', StandingOn(manifests, p), applied[p])
    BY <2>3, <2>4, SameStory
  <2> QED
    BY <1>1, <1>8, <1>13, <1>15, <2>1, <2>2, <2>5 DEF ApplyStandsAt
<1>19. ApplyStands'
  BY <1>1, <1>5, <1>6, <1>8, <1>9, <1>18 DEF ApplyStands, Its
<1>20. PlanStands' /\ Rowed' /\ RollbackStands'
  BY <1>1, <1>2, <1>8 DEF Telling, PlanStands, Rowed, RollbackStands, RollingBack
<1> QED
  BY <1>16, <1>17, <1>19, <1>20 DEF Telling

\* The record of an apply that has written what it wants.
LEMMA TellRecord ==
  ASSUME Base, Telling, FamiliesApart, ApplyRecord
  PROVE  Telling'
<1>1. At("preset", "record") /\ UNCHANGED <<cfg, mdl, manifests>> /\ cmd' = Idle
  BY DEF ApplyRecord, Finish
<1>2. /\ Types /\ Applying /\ cmd.tool = "preset" /\ cmd.pc = "record" /\ OnIts /\ cmd.ps \subseteq Profile
  BY <1>1, InApply
<1> DEFINE i == cmd.id
<1>3. i \in DOMAIN manifests /\ DOMAIN manifests = 1..Len(manifests) /\ Len(manifests) \in Nat /\ DOMAIN manifests[i].files = cmd.ps
  BY <1>2, SeqDomain DEF OnIts, Types, Its
<1>4. /\ ApplyStands /\ Its.name = cmd.name /\ Its.status = "applied" /\ i = Len(manifests) /\ cmd.state = applied
      /\ \A p \in cmd.ps : ApplyStandsAt(p)
  BY <1>2 DEF Telling, ApplyStands
<1>5. applied' = [p \in Profile |-> [f \in Family |->
        IF p \in cmd.ps /\ f = Preset[cmd.name].family THEN i ELSE applied[p][f]]]
  BY <1>4 DEF ApplyRecord
<1>6. cmd.name \in DOMAIN Preset /\ FamilyIn(manifests, i) = Preset[cmd.name].family
  BY <1>2, <1>4 DEF Telling, PlanStands, FamilyIn, Its
<1>7. \A p \in Profile : PartNow(p)' = PartNow(p)
  BY <1>1 DEF PartNow
<1>8. ASSUME NEW p \in cmd.ps
      PROVE  Holds(p)'
  <2> DEFINE S == StandingOn(manifests, p) \ {i}
  <2>1. /\ p \in Profile /\ S \subseteq DOMAIN manifests /\ S \in SUBSET Int /\ i \in Int /\ (\A j \in S : j < i)
        /\ StandingOn(manifests, p) = S \cup {i}
    BY <1>2, <1>3, <1>4 DEF StandingOn, Its
  <2>2. Supports(manifests, S, i, p) /\ Records(manifests, S, applied[p])
    BY <1>4 DEF ApplyStandsAt, Others
  <2>3. KeepsOthers(manifests[i].name, PartNow(p), PartThen(manifests, i, p)) /\ Meets(manifests[i].name, PartNow(p))
    BY <1>2, <1>4 DEF ApplyStandsAt, Its
  <2>4. \A j \in S \cup {i} : manifests[j].name \in DOMAIN Preset
    BY <1>3, <2>1 DEF Telling, StackedUp
  <2>5. MeetsAll(manifests, S, PartThen(manifests, i, p))
    BY <2>2 DEF Supports
  <2>6. \A f \in Family : applied'[p][f] = IF f = FamilyIn(manifests, i) THEN i ELSE applied[p][f]
    BY <1>5, <1>6, <2>1
  <2> HIDE DEF S, i
  <2>7. MeetsAll(manifests, S \cup {i}, PartNow(p))
    BY <2>1, <2>3, <2>4, <2>5, Push
  <2>8. Records(manifests, S \cup {i}, applied'[p])
    BY <2>1, <2>2, <2>6, PushRecord
  <2> QED
    BY <1>1, <1>7, <2>1, <2>7, <2>8 DEF Holds
<1>9. ASSUME NEW p \in Profile \ cmd.ps
      PROVE  Holds(p)'
  <2>1. Holds(p) /\ \A f \in Family : applied'[p][f] = applied[p][f]
    BY <1>5 DEF Telling, Untouched
  <2>2. Records(manifests, StandingOn(manifests, p), applied'[p])
    BY <2>1 DEF Holds, Records
  <2> QED
    BY <1>1, <1>7, <2>1, <2>2 DEF Holds
<1>10. StackedUp' /\ Rowed'
  BY <1>1, <1>5 DEF Telling, StackedUp, Rowed
<1>11. PlanStands' /\ ApplyStands' /\ RollbackStands'
  BY <1>1 DEF PlanStands, ApplyStands, RollbackStands, Applying, RollingBack, Idle
<1> QED
  BY <1>8, <1>9, <1>10, <1>11 DEF Telling

(***************************************************************************)
(* Restore and rollback.                                                   *)
(***************************************************************************)
LEMMA InRollback ==
  ASSUME Base, cmd.tool = "rollback"
  PROVE  /\ Types /\ RollingBack /\ DOMAIN cmd = RollbackFields /\ OnIts
         /\ cmd.ps \subseteq Profile /\ cmd.left \subseteq AllFiles(cmd.ps) /\ cmd.pc \in {"restore", "status"}
BY DEF Base, CmdFits, RollbackFits, RollingBack

LEMMA RestoredMore ==
  ASSUME Types, OnIts, RestoreFile, cmd.ps \subseteq Profile, cmd.left \subseteq AllFiles(cmd.ps), DOMAIN cmd \in {ApplyFields, RollbackFields},
         \A p \in cmd.ps : Restored(p)
  PROVE  /\ \A p \in cmd.ps : Restored(p)'
         /\ \A p \in Profile \ cmd.ps : PartNow(p)' = PartNow(p)
         /\ \E l \in SUBSET cmd.left : cmd' = [cmd EXCEPT !.left = l]
<1>1. PICK pf \in cmd.left :
        /\ IF pf[2] = "config" THEN cfg' = [cfg EXCEPT ![pf[1]] = manifests[cmd.id].files[pf[1]][pf[2]]] /\ UNCHANGED mdl
                               ELSE mdl' = [mdl EXCEPT ![pf[1]] = manifests[cmd.id].files[pf[1]][pf[2]]] /\ UNCHANGED cfg
        /\ cmd' = [cmd EXCEPT !.left = @ \ {pf}]
  BY DEF RestoreFile
<1>2. PICK q \in cmd.ps, d \in {"config", "models"} : pf = <<q, d>>
  BY DEF AllFiles
<1>3. /\ cfg \in [Profile -> ConfigFile] /\ mdl \in [Profile -> {Nil} \cup ModelsFile] /\ q \in Profile
  BY DEF Types
<1>4. cmd'.left = cmd.left \ {<<q, d>>} /\ cmd'.id = cmd.id
  BY <1>1, <1>2 DEF ApplyFields, RollbackFields
<1>5. Its' = Its
  BY <1>4 DEF Its, RestoreFile, presetVars
<1>6. \/ d = "config" /\ cfg' = [cfg EXCEPT ![q] = Its.files[q].config] /\ mdl' = mdl
      \/ d = "models" /\ mdl' = [mdl EXCEPT ![q] = Its.files[q].models] /\ cfg' = cfg
  BY <1>1, <1>2 DEF Its
<1>7. \A p \in Profile \ {q} : cfg'[p] = cfg[p] /\ mdl'[p] = mdl[p]
  BY <1>3, <1>6
<1>8. \A p \in Profile \ cmd.ps : PartNow(p)' = PartNow(p)
  BY <1>7 DEF PartNow
<1>9. ASSUME NEW p \in cmd.ps \ {q}
      PROVE  Restored(p)'
  BY <1>4, <1>5, <1>7, <1>9 DEF Restored
<1>10. Restored(q)'
  <2>1. CASE d = "config"
    <3>1. cfg'[q] = Its.files[q].config /\ mdl' = mdl /\ (<<q, "models">> \notin cmd'.left => <<q, "models">> \notin cmd.left)
      BY <1>3, <1>4, <1>6, <2>1
    <3> QED
      BY <1>5, <3>1 DEF Restored
  <2>2. CASE d = "models"
    <3>1. mdl'[q] = Its.files[q].models /\ cfg' = cfg /\ (<<q, "config">> \notin cmd'.left => <<q, "config">> \notin cmd.left)
      BY <1>3, <1>4, <1>6, <2>2
    <3> QED
      BY <1>5, <3>1 DEF Restored
  <2> QED
    BY <2>1, <2>2
<1>11. \A p \in cmd.ps : Restored(p)'
  BY <1>9, <1>10
<1>12. \E l \in SUBSET cmd.left : cmd' = [cmd EXCEPT !.left = l]
  BY <1>1
<1> QED
  BY <1>8, <1>11, <1>12

LEMMA TellRestore ==
  ASSUME Base, Telling, RestoreFile
  PROVE  Telling'
<1>1. cmd.pc = "restore" /\ cmd.tool \in {"preset", "rollback"} /\ UNCHANGED presetVars /\ UNCHANGED <<manifests, applied>>
  BY DEF RestoreFile, Restoring, presetVars
<1>2. CASE cmd.tool = "preset"
  <2>1. /\ Types /\ Applying /\ DOMAIN cmd = ApplyFields /\ OnIts /\ cmd.ps \subseteq Profile /\ cmd.left \subseteq AllFiles(cmd.ps)
    BY <1>1, <1>2, InApply DEF At
  <2>2. \A p \in cmd.ps : Restored(p)
    BY <1>1, <2>1 DEF Telling, ApplyStands, ApplyStandsAt
  <2>3. PICK l : cmd' = [cmd EXCEPT !.left = l]
    BY <2>1, <2>2, RestoredMore
  <2>4. /\ cmd'.tool = "preset" /\ cmd'.pc = "restore" /\ cmd'.name = cmd.name
        /\ cmd'.ps = cmd.ps /\ cmd'.steps = cmd.steps /\ cmd'.id = cmd.id /\ cmd'.state = cmd.state
    BY <1>1, <1>2, <2>1, <2>3 DEF ApplyFields
  <2>5. (\A p \in cmd.ps : Restored(p)') /\ (\A p \in Profile \ cmd.ps : PartNow(p)' = PartNow(p))
    BY <2>1, <2>2, RestoredMore
  <2> QED
    BY <1>1, <2>1, <2>4, <2>5, ApplyGoesOn
<1>3. CASE cmd.tool = "rollback"
  <2>1. /\ Types /\ RollingBack /\ DOMAIN cmd = RollbackFields /\ OnIts /\ cmd.ps \subseteq Profile /\ cmd.left \subseteq AllFiles(cmd.ps)
    BY <1>3, InRollback
  <2>2. RollbackStands /\ \A p \in cmd.ps : RollbackStandsAt(p)
    BY <2>1 DEF Telling, RollbackStands
  <2>3. \A p \in cmd.ps : Restored(p)
    BY <2>2 DEF RollbackStandsAt
  <2>4. PICK l : cmd' = [cmd EXCEPT !.left = l]
    BY <2>1, <2>3, RestoredMore
  <2>5. cmd'.tool = "rollback" /\ cmd'.pc = "restore" /\ cmd'.ps = cmd.ps /\ cmd'.id = cmd.id
    BY <1>1, <1>3, <2>1, <2>4 DEF RollbackFields
  <2>6. (\A p \in cmd.ps : Restored(p)') /\ (\A p \in Profile \ cmd.ps : PartNow(p)' = PartNow(p))
    BY <2>1, <2>3, RestoredMore
  <2>7. Rowed' /\ StackedUp' /\ PlanStands' /\ ApplyStands'
    BY <1>1, <2>5 DEF Telling, Rowed, StackedUp, PlanStands, ApplyStands, Applying
  <2>8. ASSUME NEW p \in Profile, Untouched(p)'
        PROVE  Holds(p)'
    <3>1. p \notin cmd.ps
      BY <2>5, <2>8 DEF Untouched, RollingBack
    <3>2. Holds(p) /\ PartNow(p)' = PartNow(p)
      BY <2>6, <3>1 DEF Telling, Untouched
    <3> QED
      BY <1>1, <3>2 DEF Holds
  <2>9. RollbackStands'
    <3>1. ASSUME NEW p \in cmd.ps
          PROVE  RollbackStandsAt(p)'
      BY <1>1, <2>2, <2>5, <2>6 DEF RollbackStandsAt
    <3> QED
      BY <1>1, <2>1, <2>2, <2>5, <3>1 DEF RollbackStands, Its
  <2> QED
    BY <2>7, <2>8, <2>9 DEF Telling
<1> QED
  BY <1>1, <1>2, <1>3

\* An apply or a rollback that ends leaves its manifest out of the stack.
LEMMA StatusDown ==
  ASSUME Types, NEW i \in DOMAIN manifests, SetStatus(i, "rolled-back")
  PROVE  /\ DOMAIN manifests' = DOMAIN manifests /\ Tells(manifests, manifests', DOMAIN manifests)
         /\ \A p : /\ StandingOn(manifests', p) = StandingOn(manifests, p) \ {i}
                   /\ StandingOn(manifests, p) \subseteq DOMAIN manifests
<1> DEFINE m == [manifests[i] EXCEPT !.status = "rolled-back"]
<1>1. manifests' = [manifests EXCEPT ![i] = m] /\ IsSeq(manifests) /\ ManifestFits(manifests[i])
  BY DEF SetStatus, Types
<1>2. m.status = "rolled-back" /\ m.name = manifests[i].name /\ m.files = manifests[i].files /\ m.previous = manifests[i].previous
  BY <1>1 DEF ManifestFits
<1> HIDE DEF m
<1>3. /\ DOMAIN manifests' = DOMAIN manifests /\ manifests'[i] = m
      /\ \A j \in DOMAIN manifests : j # i => manifests'[j] = manifests[j]
  BY <1>1, SeqExcept
<1>4. Tells(manifests, manifests', DOMAIN manifests)
  BY <1>2, <1>3 DEF Tells
<1> QED
  BY <1>2, <1>3, <1>4 DEF StandingOn

LEMMA TellsLess ==
  ASSUME NEW m1, NEW m2, NEW S, NEW T \in SUBSET S, Tells(m1, m2, S)
  PROVE  Tells(m1, m2, T)
BY DEF Tells

\* A failed apply that is back where it started.
LEMMA TellRestored ==
  ASSUME Base, Telling, ApplyRestored, "undo" \notin mishap'
  PROVE  Telling'
<1>1. /\ At("preset", "restore") /\ cmd.left = {} /\ SetStatus(cmd.id, "rolled-back") /\ cmd' = Idle
      /\ UNCHANGED <<cfg, mdl, applied>>
  BY DEF ApplyRestored, Finish
<1>2. /\ Types /\ Applying /\ cmd.pc = "restore" /\ OnIts /\ cmd.ps \subseteq Profile /\ Its.status = "applying"
  BY <1>1, InApply
<1>3. cmd.id \in DOMAIN manifests
  BY <1>2 DEF OnIts
<1>4. DOMAIN manifests' = DOMAIN manifests /\ Tells(manifests, manifests', DOMAIN manifests)
  BY <1>1, <1>2, <1>3, StatusDown
<1>5. \A p : /\ StandingOn(manifests', p) = StandingOn(manifests, p) /\ Others(p) = StandingOn(manifests, p)
             /\ StandingOn(manifests, p) \subseteq DOMAIN manifests
  <2>1. \A p : cmd.id \notin StandingOn(manifests, p)
    BY <1>2 DEF StandingOn, Its
  <2> QED
    BY <1>1, <1>2, <1>3, <2>1, StatusDown DEF Others
<1>6. \A p : Tells(manifests, manifests', StandingOn(manifests, p))
  BY <1>4, <1>5, TellsLess
<1>7. \A p \in cmd.ps : ApplyStandsAt(p)
  BY <1>2 DEF Telling, ApplyStands
<1>8. \A p \in Profile : PartNow(p)' = PartNow(p)
  BY <1>1 DEF PartNow
<1>9. ASSUME NEW p \in cmd.ps
      PROVE  Holds(p)
  <2>1. Restored(p) /\ Supports(manifests, StandingOn(manifests, p), cmd.id, p) /\ Records(manifests, StandingOn(manifests, p), applied[p])
    BY <1>2, <1>5, <1>7 DEF ApplyStandsAt
  <2>2. PartNow(p) = PartThen(manifests, cmd.id, p)
    BY <1>1, <2>1 DEF Restored, PartNow, PartThen, PartOf, Its
  <2> QED
    BY <2>1, <2>2 DEF Supports, Holds
<1>10. \A p \in Profile : Holds(p)
  BY <1>9 DEF Telling, Untouched
<1>11. \A p \in Profile : Holds(p)'
  BY <1>1, <1>5, <1>6, <1>8, <1>10, SameHolds
<1>12. StackedUp'
  <2>1. \A j \in DOMAIN manifests' : manifests'[j].name \in DOMAIN Preset
    BY <1>4 DEF Telling, StackedUp, Tells
  <2>2. \A p \in Profile : Stacked(manifests', p)
    BY <1>5, <1>6, SameStack DEF Telling, StackedUp
  <2> QED
    BY <2>1, <2>2 DEF StackedUp
<1>13. Rowed' /\ PlanStands' /\ ApplyStands' /\ RollbackStands'
  BY <1>1 DEF Telling, Rowed, PlanStands, ApplyStands, RollbackStands, Applying, RollingBack, Idle
<1> QED
  BY <1>11, <1>12, <1>13 DEF Telling

\* A rollback that is neither forced nor out of order takes back the last
\* apply of each of its profiles.
LEMMA TellRollback ==
  ASSUME Base, Telling, RollbackBegin, mishap' = {}
  PROVE  Telling'
<1>1. PICK i \in DOMAIN manifests :
        /\ manifests[i].status = "applied" /\ ~Overtaken(i)
        /\ cmd' = [tool |-> "rollback", pc |-> "restore", id |-> i, ps |-> DOMAIN manifests[i].files,
                   left |-> AllFiles(DOMAIN manifests[i].files)]
        /\ cmd = Idle /\ UNCHANGED <<cfg, mdl, manifests, applied>>
  BY DEF RollbackBegin, Begin, presetVars
<1>2. DOMAIN manifests = 1..Len(manifests) /\ Len(manifests) \in Nat /\ DOMAIN manifests[i].files \subseteq Profile
  BY SeqDomain DEF Base, Types, ManifestFits
<1>3. cmd'.tool = "rollback" /\ cmd'.pc = "restore" /\ cmd'.id = i /\ cmd'.ps = DOMAIN manifests[i].files /\ cmd'.left = AllFiles(cmd'.ps)
  BY <1>1
<1>4. (\A p \in Profile : Holds(p)) /\ (\A p \in Profile : Holds(p)')
  BY <1>1, FilesStay DEF Telling, Untouched, Applying, RollingBack, Idle
<1>5. ASSUME NEW p \in DOMAIN manifests[i].files
      PROVE  RollbackStandsAt(p)'
  <2>1. ASSUME NEW j \in StandingOn(manifests, p)
        PROVE  j <= i
    <3>1. ~(j > i)
      BY <1>1 DEF Overtaken, StandingOn
    <3>2. j \in Int /\ i \in Int
      BY <1>2 DEF StandingOn
    <3> QED
      BY <3>1, <3>2
  <2>2. Restored(p)'
    BY <1>3 DEF Restored, AllFiles
  <2>3. Records(manifests', StandingOn(manifests', p), applied'[p])
    BY <1>1, <1>2, <1>4 DEF Holds
  <2> QED
    BY <1>1, <1>3, <2>1, <2>2, <2>3 DEF RollbackStandsAt
<1>6. RollbackStands'
  BY <1>1, <1>3, <1>5 DEF RollbackStands, Its
<1>7. PlanStands' /\ ApplyStands'
  BY <1>3 DEF PlanStands, ApplyStands, Applying
<1> QED
  BY <1>1, <1>4, <1>6, <1>7, FilesStay DEF Telling

\* The record a rollback leaves is that of the applies below it.
LEMMA TellRollbackRecord ==
  ASSUME Base, Telling, RollbackRecord
  PROVE  Telling'
<1>1. /\ cmd.tool = "rollback" /\ cmd.pc = "restore" /\ cmd.left = {} /\ UNCHANGED <<cfg, mdl, manifests>>
      /\ cmd' = [cmd EXCEPT !.pc = "status"]
  BY DEF RollbackRecord, At, Goto
<1>2. /\ Types /\ RollingBack /\ DOMAIN cmd = RollbackFields /\ OnIts /\ cmd.ps \subseteq Profile
  BY <1>1, InRollback
<1> DEFINE i == cmd.id
           f == FamilyIn(manifests, i)
<1>3. /\ i \in DOMAIN manifests /\ DOMAIN manifests = 1..Len(manifests) /\ Len(manifests) \in Nat /\ DOMAIN manifests[i].files = cmd.ps
      /\ manifests[i].name \in DOMAIN Preset
  BY <1>2, SeqDomain DEF OnIts, Types, Its, Telling, StackedUp
<1>4. /\ cmd'.tool = "rollback" /\ cmd'.pc = "status" /\ cmd'.ps = cmd.ps /\ cmd'.id = i /\ cmd'.left = {}
  BY <1>1, <1>2 DEF RollbackFields
<1>5. /\ RollbackStands /\ Its.status = "applied" /\ \A p \in cmd.ps : RollbackStandsAt(p)
  BY <1>2 DEF Telling, RollbackStands
<1>6. applied' = [p \in Profile |->
        IF p \in cmd.ps /\ applied[p][f] = i THEN [applied[p] EXCEPT ![f] = manifests[i].previous[p]] ELSE applied[p]]
  BY DEF RollbackRecord, FamilyIn
<1>7. f \in Family /\ Rowed
  BY <1>3 DEF FamilyIn, Family, Telling
<1> HIDE DEF i, f
<1>8. Rowed'
  BY <1>6, <1>7 DEF Rowed
<1>9. \A p \in Profile \ cmd.ps : applied'[p] = applied[p]
  BY <1>6
<1>10. ASSUME NEW p \in cmd.ps, NEW g \in Family
       PROVE  applied'[p][g] = IF g = f /\ applied[p][g] = i THEN manifests[i].previous[p] ELSE applied[p][g]
  <2>1. p \in Profile /\ DOMAIN applied[p] = Family
    BY <1>2, <1>7 DEF Rowed
  <2>2. CASE applied[p][f] = i
    BY <1>6, <2>1, <2>2
  <2>3. CASE applied[p][f] # i
    BY <1>6, <2>1, <2>3
  <2> QED
    BY <2>2, <2>3
<1>11. \A p \in Profile : PartNow(p)' = PartNow(p)
  BY <1>1 DEF PartNow
<1>12. ASSUME NEW p \in cmd.ps
       PROVE  RollbackStandsAt(p)'
  <2> DEFINE T == StandingOn(manifests, p)
  <2>1. p \in Profile /\ T \in SUBSET Int /\ i \in T
    BY <1>2, <1>3, <1>5 DEF StandingOn, Its, i
  <2>2. (\A j \in T : j <= i) /\ Restored(p) /\ Records(manifests, T, applied[p])
    BY <1>1, <1>5 DEF RollbackStandsAt, i
  <2>3. Supports(manifests, Below(T, i), i, p)
    BY <2>1 DEF Telling, StackedUp, Stacked
  <2>4. FamilyIn(manifests, i) \in Family
    BY <1>7 DEF f
  <2>5. \A g \in Family : applied'[p][g] = IF g = FamilyIn(manifests, i) /\ applied[p][g] = i THEN manifests[i].previous[p] ELSE applied[p][g]
    BY <1>10 DEF f
  <2>6. Records(manifests, T \ {i}, applied'[p])
    <3> HIDE DEF T
    <3>1. PICK next : next = applied'[p]
      OBVIOUS
    <3> QED
      BY <2>1, <2>2, <2>3, <2>4, <2>5, <3>1, Pop
  <2>7. Restored(p)'
    <3>1. Its' = Its
      BY <1>1, <1>4 DEF Its, i
    <3> QED
      BY <1>1, <1>4, <2>2, <3>1 DEF Restored
  <2> QED
    BY <1>1, <1>4, <2>2, <2>6, <2>7 DEF RollbackStandsAt, Others
<1>13. RollbackStands'
  BY <1>1, <1>4, <1>5, <1>12 DEF RollbackStands, Its, i
<1>14. ASSUME NEW p \in Profile, Untouched(p)'
       PROVE  Holds(p)'
  <2>1. p \notin cmd.ps
    BY <1>4, <1>14 DEF Untouched, RollingBack
  <2>2. Holds(p) /\ applied'[p] = applied[p]
    BY <1>9, <2>1 DEF Telling, Untouched
  <2> QED
    BY <1>1, <1>11, <2>2 DEF Holds
<1>15. StackedUp' /\ PlanStands' /\ ApplyStands'
  BY <1>1, <1>4 DEF Telling, StackedUp, PlanStands, ApplyStands, Applying
<1> QED
  BY <1>8, <1>13, <1>14, <1>15 DEF Telling

LEMMA TellRollbackStatus ==
  ASSUME Base, Telling, RollbackStatus
  PROVE  Telling'
<1>1. /\ cmd.tool = "rollback" /\ cmd.pc = "status" /\ SetStatus(cmd.id, "rolled-back") /\ cmd' = Idle
      /\ UNCHANGED <<cfg, mdl, applied>>
  BY DEF RollbackStatus, At, Finish
<1>2. /\ Types /\ RollingBack /\ OnIts /\ cmd.ps \subseteq Profile
  BY <1>1, InRollback
<1> DEFINE i == cmd.id
<1>3. /\ i \in DOMAIN manifests /\ DOMAIN manifests = 1..Len(manifests) /\ Len(manifests) \in Nat /\ DOMAIN manifests[i].files = cmd.ps
  BY <1>2, SeqDomain DEF OnIts, Types, Its
<1>4. DOMAIN manifests' = DOMAIN manifests /\ Tells(manifests, manifests', DOMAIN manifests)
  BY <1>1, <1>2, <1>3, StatusDown
<1>5. \A p : StandingOn(manifests', p) = Others(p) /\ Others(p) \subseteq StandingOn(manifests, p)
             /\ StandingOn(manifests, p) \subseteq DOMAIN manifests
  BY <1>1, <1>2, <1>3, StatusDown DEF Others
<1>6. /\ Its.status = "applied" /\ \A p \in cmd.ps : RollbackStandsAt(p)
  BY <1>2 DEF Telling, RollbackStands
<1>7. \A p \in Profile : PartNow(p)' = PartNow(p)
  BY <1>1 DEF PartNow
<1>8. \A p \in Profile \ cmd.ps : i \notin StandingOn(manifests, p)
  BY <1>3 DEF StandingOn
<1>9. ASSUME NEW p \in cmd.ps
      PROVE  Holds(p)' /\ Stacked(manifests', p)
  <2> DEFINE T == StandingOn(manifests, p)
  <2>1. p \in Profile /\ T \in SUBSET Int /\ i \in T /\ T \subseteq DOMAIN manifests /\ Others(p) = T \ {i}
    BY <1>2, <1>3, <1>6 DEF StandingOn, Its, Others
  <2>2. cmd.left = {} /\ (\A j \in T : j <= i) /\ Restored(p) /\ Records(manifests, T \ {i}, applied[p])
    BY <1>1, <1>6 DEF RollbackStandsAt, Others
  <2>3. \A j \in T : Supports(manifests, Below(T, j), j, p)
    BY <2>1 DEF Telling, StackedUp, Stacked
  <2>4. PartNow(p) = PartThen(manifests, i, p)
    BY <2>2 DEF Restored, PartNow, PartThen, PartOf, Its
  <2>5. StandingOn(manifests', p) = T \ {i}
    BY <1>5, <2>1
  <2> HIDE DEF T, i
  <2>6. ASSUME NEW j \in T
        PROVE  Below(T, j) = Below(T \ {i}, j) /\ Below(T, j) \subseteq T
    <3>1. j \in Int /\ i \in Int /\ j <= i
      BY <2>1, <2>2
    <3>2. ~(i < j)
      BY <3>1
    <3> QED
      BY <3>2 DEF Below
  <2>7. Below(T, i) = T \ {i}
    <3>1. ASSUME NEW j \in T
          PROVE  j < i <=> j # i
      <4>1. j \in Int /\ i \in Int /\ j <= i
        BY <2>1, <2>2
      <4> QED
        BY <4>1
    <3> QED
      BY <3>1 DEF Below
  <2>8. MeetsAll(manifests, T \ {i}, PartNow(p))
    BY <2>1, <2>3, <2>4, <2>7 DEF Supports
  <2>9. Tells(manifests, manifests', T \ {i})
    BY <1>4, <2>1, TellsLess
  <2>10. Records(manifests', T \ {i}, applied[p]) /\ MeetsAll(manifests', T \ {i}, PartNow(p))
    BY <2>2, <2>8, <2>9, SameStory
  <2>11. Holds(p)'
    BY <1>1, <1>7, <2>1, <2>5, <2>10 DEF Holds
  <2>12. ASSUME NEW j \in T \ {i}
         PROVE  Supports(manifests', Below(T \ {i}, j), j, p)
    <3>1. Supports(manifests, Below(T \ {i}, j), j, p)
      BY <2>3, <2>6
    <3>2. Below(T \ {i}, j) \cup {j} \in SUBSET DOMAIN manifests
      BY <2>1, <2>6
    <3>3. Tells(manifests, manifests', Below(T \ {i}, j) \cup {j})
      BY <1>4, <3>2, TellsLess
    <3> QED
      BY <3>1, <3>3, SameSupport
  <2> QED
    BY <2>5, <2>11, <2>12 DEF Stacked
<1>10. ASSUME NEW p \in Profile \ cmd.ps
       PROVE  Holds(p)' /\ Stacked(manifests', p)
  <2>1. StandingOn(manifests', p) = StandingOn(manifests, p)
    BY <1>5, <1>8 DEF Others
  <2>2. Tells(manifests, manifests', StandingOn(manifests, p))
    BY <1>4, <1>5, TellsLess
  <2>3. Holds(p) /\ PartNow(p)' = PartNow(p) /\ applied'[p] = applied[p] /\ Stacked(manifests, p)
    BY <1>1, <1>7 DEF Telling, StackedUp, Untouched
  <2> QED
    BY <2>1, <2>2, <2>3, SameHolds, SameStack
<1>11. StackedUp'
  <2>1. \A j \in DOMAIN manifests' : manifests'[j].name \in DOMAIN Preset
    BY <1>4 DEF Telling, StackedUp, Tells
  <2> QED
    BY <1>9, <1>10, <2>1 DEF StackedUp
<1>12. Rowed' /\ PlanStands' /\ ApplyStands' /\ RollbackStands'
  BY <1>1 DEF Telling, Rowed, PlanStands, ApplyStands, RollbackStands, Applying, RollingBack, Idle
<1> QED
  BY <1>9, <1>10, <1>11, <1>12 DEF Telling

LEMMA PresetsTell ==
  ASSUME Base, Telling, FamiliesApart, PresetsNext, mishap' = {}
  PROVE  Telling'
<1>1. CASE ApplyRestored
  BY <1>1, TellRestored
<1>2. ~RollbackFails
  BY DEF RollbackFails
<1> QED
  BY <1>1, <1>2, TellPlan, TellBackup, TellWrite, TellReadback, TellCommit, TellRecord, TellRestore, TellRollback,
     TellRollbackRecord, TellRollbackStatus DEF PresetsNext

LEMMA RecordsInit == Init => RecordsIInv
<1> SUFFICES ASSUME Init
             PROVE  Telling
  BY DEF RecordsIInv
<1>1. cmd.tool = "none" /\ manifests = <<>> /\ applied = [p \in Profile |-> [f \in Family |-> Nil]]
  BY DEF Init, FilesInit, PresetsInit, Idle
<1>2. \A p \in Profile : StandingOn(manifests, p) = {}
  BY <1>1 DEF StandingOn
<1>3. \A p \in Profile : Holds(p) /\ Stacked(manifests, p)
  BY <1>1, <1>2 DEF Holds, Stacked, Records, IsLatest, MeetsAll
<1> QED
  BY <1>1, <1>3 DEF Telling, Rowed, StackedUp, PlanStands, ApplyStands, RollbackStands, Applying, RollingBack

\* A calm state was calm before, and no step of the world led to it.
LEMMA CalmBefore ==
  ASSUME Base, Next, Undisturbed'
  PROVE  Undisturbed /\ ~HandEdit /\ ~Death
<1>1. mishap' = {} /\ used'.edit = 0 /\ used \in [command : Nat, edit : Nat, death : Nat, failure : Nat]
  BY DEF Undisturbed, Base, Types
<1>2. ~HandEdit
  <2> SUFFICES ASSUME HandEdit
               PROVE  FALSE
    OBVIOUS
  <2>1. used'.edit = used.edit + 1
    BY <1>1 DEF HandEdit, Count
  <2> QED
    BY <1>1, <2>1
<1>3. ~Death
  BY <1>1 DEF Death
<1>4. mishap \subseteq mishap'
  BY <1>2, <1>3 DEF Next, PresetsNext, RoutesNext, SmolNext, ApplyPlan, ApplyBackup, ApplyWrite, ApplyReadback, ApplyCommit, ApplyRecord,
     RestoreFile, ApplyRestored, RollbackBegin, RollbackFails, RollbackRecord, RollbackStatus,
     InstallBegin, InstallWrite, InstallUndo, InstallManifest, InstallService, InstallReadback, InstallRecover,
     RemoveBegin, RemoveStop, RevertPlan, RevertWrite, RevertRedo, RevertBlocked, RevertDone, RouteCleanup, Start, StopBegin, StopEnd,
     SmolSet, SmolStart, SmolCheck, SmolBlock, SmolLine, SmolSave, SmolRevert, SmolUnline, SmolUnblock, SmolHalt, SmolServer
<1>5. used'.edit = used.edit
  <2>1. PresetsNext => used' = used \/ Count("command") \/ Count("failure")
    BY DEF PresetsNext, ApplyPlan, ApplyBackup, ApplyWrite, ApplyReadback, ApplyCommit, ApplyRecord, RestoreFile, ApplyRestored,
       RollbackBegin, RollbackFails, RollbackRecord, RollbackStatus, Begin
  <2>2. RoutesNext => used' = used \/ Count("command") \/ Count("failure")
    BY DEF RoutesNext, InstallBegin, InstallWrite, InstallUndo, InstallManifest, InstallService, InstallReadback, InstallRecover, Begin, Failure,
       RemoveBegin, RemoveStop, RevertPlan, RevertWrite, RevertRedo, RevertBlocked, RevertDone, RouteCleanup, Start, StopBegin, StopEnd
  <2>3. SmolNext => used' = used \/ Count("command") \/ Count("failure")
    BY DEF SmolNext, SmolSet, SmolStart, SmolCheck, SmolBlock, SmolLine, SmolSave, SmolRevert, SmolUnline, SmolUnblock, SmolHalt,
       SmolServer, Begin
  <2>4. used' = used \/ Count("command") \/ Count("failure")
    BY <1>2, <1>3, <2>1, <2>2, <2>3 DEF Next
  <2> QED
    BY <1>1, <2>4 DEF Count
<1> QED
  BY <1>1, <1>2, <1>3, <1>4, <1>5 DEF Undisturbed

LEMMA RecordsNext ==
  ASSUME FamiliesApart
  PROVE  Base /\ RecordsIInv /\ [Next]_vars => RecordsIInv'
<1> SUFFICES ASSUME Base, RecordsIInv, [Next]_vars, Undisturbed'
             PROVE  Telling'
  BY DEF RecordsIInv
<1>1. CASE UNCHANGED vars
  <2>1. UNCHANGED <<cfg, mdl, cmd, used, mishap, manifests, applied>>
    BY <1>1 DEF vars, fileVars, presetVars
  <2>2. Telling /\ Its' = Its
    BY <2>1 DEF RecordsIInv, Undisturbed, Its
  <2>3. (\A p \in Profile : Holds(p) => Holds(p)') /\ Rowed' /\ StackedUp'
    BY <2>1, <2>2, FilesStay
  <2>4. \A p \in Profile : Untouched(p)' => Untouched(p)
    BY <2>1 DEF Untouched, Applying, RollingBack
  <2>5. ApplyStands' /\ RollbackStands' /\ PlanStands'
    BY <2>1, <2>2 DEF Telling, ApplyStands, RollbackStands, PlanStands, Applying, RollingBack, ApplyStandsAt, RollbackStandsAt,
       Restored, Others, PartNow
  <2> QED
    BY <2>2, <2>3, <2>4, <2>5 DEF Telling
<1>2. CASE Next
  <2>1. Telling /\ ~HandEdit /\ ~Death /\ mishap' = {}
    BY <1>2, CalmBefore DEF RecordsIInv, Undisturbed
  <2> QED
    BY <1>2, <2>1, PresetsTell, RoutesTell, SmolTells DEF Next
<1> QED
  BY <1>1, <1>2

LEMMA TellingShows ==
  ASSUME RecordsIInv
  PROVE  RecordsHold
<1> SUFFICES ASSUME cmd = Idle, mishap = {}, used.edit = 0, NEW p \in Profile
             PROVE  Drift(p) = {} /\ \A f \in Family : applied[p][f] # Nil => manifests[applied[p][f]].status = "applied"
  BY DEF RecordsHold
<1>1. Holds(p) /\ StackedUp
  BY DEF RecordsIInv, Undisturbed, Telling, Untouched, Applying, RollingBack, Idle
<1> DEFINE S == StandingOn(manifests, p)
<1>2. ASSUME NEW f \in Family, applied[p][f] # Nil
      PROVE  /\ applied[p][f] \in S /\ manifests[applied[p][f]].name \in DOMAIN Preset
             /\ Meets(manifests[applied[p][f]].name, PartNow(p))
  <2>1. applied[p][f] \in S /\ FamilyIn(manifests, applied[p][f]) = f /\ \A j \in S : FamilyIn(manifests, j) = f => j <= applied[p][f]
    BY <1>1, <1>2 DEF Holds, Records, IsLatest
  <2> QED
    BY <1>1, <2>1 DEF Holds, MeetsAll, StackedUp, StandingOn
<1>3. \A f \in Family : applied[p][f] # Nil => manifests[applied[p][f]].status = "applied"
  BY <1>2 DEF StandingOn
<1>4. ASSUME NEW f \in Family, NEW k \in {"provider", "judge", "level"}, <<f, k>> \in Drift(p)
      PROVE  FALSE
  <2>1. PICK n : n = manifests[applied[p][f]].name
    OBVIOUS
  <2>2. applied[p][f] # Nil
    BY <1>4 DEF Drift
  <2>3. n \in DOMAIN Preset /\ \A s \in KindsOf(n) : PartNow(p)[s] = Wanted(n)[s]
    BY <1>2, <2>1, <2>2 DEF Meets
  <2>4. CASE k = "provider"
    <3>1. Preset[n].sys1 # Keep /\ Sys1In(mdl[p]) # Preset[n].sys1
      BY <1>4, <2>1, <2>4 DEF Drift, ModelsOf, Sys1In, EmptyModels
    <3>2. "provider" \in KindsOf(n)
      BY <3>1 DEF KindsOf
    <3> QED
      BY <2>3, <3>1, <3>2, PartKinds DEF PartNow
  <2>5. CASE k = "judge"
    <3>1. Preset[n].judge # Keep /\ cfg[p].judge # Preset[n].judge
      BY <1>4, <2>1, <2>5 DEF Drift
    <3>2. "modelRoles" \in KindsOf(n)
      BY <3>1 DEF KindsOf
    <3> QED
      BY <2>3, <3>1, <3>2, PartKinds DEF PartNow
  <2>6. CASE k = "level"
    <3>1. Preset[n].level # Keep /\ cfg[p].level # Preset[n].level
      BY <1>4, <2>1, <2>6 DEF Drift
    <3>2. "level" \in KindsOf(n)
      BY <3>1 DEF KindsOf
    <3> QED
      BY <2>3, <3>1, <3>2, PartKinds DEF PartNow
  <2> QED
    BY <2>4, <2>5, <2>6
<1>5. Drift(p) \subseteq Family \X {"provider", "judge", "level"}
  BY DEF Drift
<1>6. \A fk \in Family \X {"provider", "judge", "level"} : fk \notin Drift(p)
  <2> SUFFICES ASSUME NEW fk \in Family \X {"provider", "judge", "level"}, fk \in Drift(p)
               PROVE  FALSE
    OBVIOUS
  <2>1. PICK f \in Family, k \in {"provider", "judge", "level"} : fk = <<f, k>>
    OBVIOUS
  <2> QED
    BY <1>4, <2>1
<1>7. Drift(p) = {}
  BY <1>5, <1>6
<1> QED
  BY <1>3, <1>7

\* In a profile nobody edited by hand, after commands that were not cut, forced
\* or raced, applied.json tells the settings that hold: whatever presets were
\* applied and rolled back, on whichever profiles.  It takes presets of
\* different families that name different settings, as those of the registry
\* do (registries/presets.json); load() does not look, and two families that
\* share a setting would drift by one of them being applied over the other.
THEOREM RecordsStand == ASSUME FamiliesApart PROVE Spec => []RecordsHold
<1>1. RecordsIInv => RecordsHold
  BY TellingShows
<1>2. Base /\ RecordsIInv /\ [Next]_vars => RecordsIInv'
  BY RecordsNext
<1> QED
  BY <1>1, <1>2, RecordsInit, BaseHolds, PTL DEF Spec
=============================================================================
