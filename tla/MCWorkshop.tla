----------------------------- MODULE MCWorkshop -----------------------------
EXTENDS Workshop

MCBound ==
  [mutate   |-> [run |-> 3, edit |-> 2, upset |-> 2],
   land     |-> [run |-> 2, edit |-> 2, upset |-> 1],
   plan     |-> [run |-> 2, edit |-> 1, upset |-> 1],
   tick     |-> [run |-> 1, edit |-> 2, upset |-> 4],
   queue    |-> [run |-> 2, edit |-> 3, upset |-> 1],
   profile  |-> [run |-> 3, edit |-> 1, upset |-> 2],
   watch    |-> [run |-> 3, edit |-> 2, upset |-> 2],
   refresh  |-> [run |-> 3, edit |-> 2, upset |-> 2],
   campaign |-> [run |-> 2, edit |-> 1, upset |-> 1],
   agent    |-> [run |-> 3, edit |-> 1, upset |-> 1]]

\* The bounds of the run that is about campaigns alone.
MCCampaignBound == [campaign |-> MCBound.campaign]

\* People write a title that names u, and none that names v.
MCNaming == [u |-> {"pu"}, v |-> {}]

\* Two names of families, one that the digest looks at, and the listing.
MCOf == [n |-> {"n1"}, m |-> {"m1"}, j |-> {"j1"}, hf |-> {"h1", "h2"}]
MCFate == [n1 |-> "screen", m1 |-> "plain", j1 |-> "large", h1 |-> "screen", h2 |-> "refused"]

\* The requests change with the second update, the module of a feature with the first.
MCSends == [x \in {"find", "title"} \X {0, 1, 2} |-> IF x = <<"find", 2>> THEN "new" ELSE "old"]
MCModule == [x \in {"find", "title"} \X {0, 1, 2} |-> IF x = <<"title", 1>> THEN "new" ELSE "old"]

\* Two cases, planted one after the other.
MCPlantList == <<"a", "b">>

MCCaseList == <<"c1", "c2">>
MCCaseGrader == (0 :> 0) @@ (1 :> 1)

\* Each trace passes one version of the grader and fails the other.
MCCaseTrace == {(0 :> "PASS") @@ (1 :> "FAIL"), (0 :> "FAIL") @@ (1 :> "PASS")}

\* The processes that run eval commands are alike, and so are the shells.
MCSymmetry == Permutations(Runner) \cup Permutations(Shell)
=============================================================================
