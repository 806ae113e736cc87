----------------------------- MODULE OmpConfig -----------------------------
(***************************************************************************)
(* The three tools of localbench that edit the same profile files, beside  *)
(* people who edit them by hand, with commands that fail or die half-way.  *)
(***************************************************************************)
EXTENDS Presets, OmpProfiles, SmolRole

vars == <<fileVars, presetVars, routeVars, smolVars>>

\* What the files can hold.
PresetValue == {Nil} \cup UNION {{Preset[n].judge, Preset[n].sys1, Preset[n].level} : n \in DOMAIN Preset}
SmolValue == {OrigSmol, HandSmol} \cup SmolModel
ConfigFile == [judge : PresetValue, level : PresetValue, smol : SmolValue, hand : SUBSET Edit]
ModelsFile == [sys1 : PresetValue, ollama : BOOLEAN, smol : {Nil} \cup SmolModel, hand : SUBSET Edit]

\* A file is not its absence, and localbench's smol lines are told from others.
ASSUME FilesAssumption ==
  /\ MaxEdit \in Nat
  /\ Nil \notin ModelsFile \cup [Profile -> BOOLEAN]
  /\ {Nil, OrigSmol, HandSmol} \cap SmolModel = {}

Init == FilesInit /\ PresetsInit /\ RoutesInit /\ SmolInit

Next ==
  \/ PresetsNext /\ UNCHANGED <<routeVars, smolVars>>
  \/ RoutesNext /\ UNCHANGED <<presetVars, smolVars>>
  \/ SmolNext /\ UNCHANGED <<presetVars, routeVars>>
  \/ (HandEdit \/ Death) /\ UNCHANGED <<presetVars, routeVars, smolVars>>

Spec == Init /\ [][Next]_vars

(***************************************************************************)
(* Properties.                                                             *)
(***************************************************************************)
\* Every manifest and record has its shape.
TypeOK ==
  /\ cfg \in [Profile -> ConfigFile]
  /\ mdl \in [Profile -> {Nil} \cup ModelsFile]
  /\ mishap \subseteq Mishap
  /\ quiet \subseteq Profile \X {"config", "models"} \X Edit
  /\ \A i \in DOMAIN manifests : manifests[i].status \in ROLLBACKABLE \cup {"rolled-back"}
  /\ applied \in [Profile -> [Family -> {Nil} \cup DOMAIN manifests]]
  /\ routes = Nil \/ routes \in [Profile -> BOOLEAN]
  /\ service \in [plist : BOOLEAN, loaded : BOOLEAN, accepting : BOOLEAN, stored : SUBSET Profile]
  /\ server \in {Nil} \cup SmolModel /\ autostart \in {Nil} \cup SmolModel

\* A command never undoes an edit somebody made by hand between commands:
\* whole-file restores included, unless the owner forced a rollback over it
\* or rolled back an apply that had been cut.
EditsSurvive ==
  "lossy" \notin mishap =>
    \A q \in quiet : IF q[2] = "config" THEN q[3] \in cfg[q[1]].hand
                     ELSE mdl[q[1]] # Nil /\ q[3] \in mdl[q[1]].hand

\* A profile that a preset command has touched and not finished with can be
\* put back: whenever a preset command changes a file, a manifest on disk
\* that rollback accepts names that file.
WriteIsRevocable ==
  \A p \in Profile :
    (cfg[p] # cfg'[p] \/ mdl[p] # mdl'[p]) /\ At("preset", "write") /\ cmd' # cmd
      => \E i \in DOMAIN manifests :
           manifests[i].status \in ROLLBACKABLE /\ i = cmd.id /\ p \in DOMAIN manifests[i].files

\* An apply or a rollback is called rolled back only when every file of the
\* preset holds its old bytes again, unless somebody edited it meanwhile.
RollbackIsExact ==
  \A i \in DOMAIN manifests :
    /\ manifests[i].status # "rolled-back" /\ manifests'[i].status = "rolled-back"
    /\ "race" \notin mishap
    => Files(DOMAIN manifests[i].files) = manifests[i].files

\* A preset can be undone from before its first write on, and an undo undoes
\* all of it.
PresetsUndo == [][WriteIsRevocable /\ RollbackIsExact]_vars

\* As long as no command was cut, forced or raced, applied.json says what the
\* files hold: nothing drifts but what people edited, and every entry names
\* an apply that rollback still accepts.
RecordsHold ==
  cmd = Idle /\ mishap = {} /\ used.edit = 0 =>
    \A p \in Profile :
      /\ Drift(p) = {}
      /\ \A f \in Family : applied[p][f] # Nil => manifests[applied[p][f]].status = "applied"

\* The gateway's routes are in every profile or in none, and the manifest that
\* remove needs is there exactly when they are: on every error path of install
\* and remove, whatever fails, short of a death or an edit in mid-command.
RouteAllOrNone ==
  cmd = Idle /\ mishap = {} => Routed = IF routes = Nil THEN {} ELSE Profile

\* No way out of install, remove or stop leaves a running gateway closed.
AdmissionReopens ==
  cmd = Idle /\ "death" \notin mishap /\ service.loaded => service.accepting

\* install, remove and stop leave profiles, manifest and service as one.
RouteHolds == RouteAllOrNone /\ AdmissionReopens

\* A smol line of localbench's resolves at every moment, for the sessions that
\* start meanwhile: the block it names is in models.yml before the line is
\* written and goes after the line is gone; and revert never brings back a line
\* of localbench's own, unless a set recorded one.
SmolResolves ==
  mishap \cap {"lossy", "forgot"} = {} =>
    \A p \in Profile : cfg[p].smol \in SmolModel => mdl[p] # Nil /\ mdl[p].smol = cfg[p].smol
=============================================================================
