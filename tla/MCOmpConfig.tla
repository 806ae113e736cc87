---------------------------- MODULE MCOmpConfig ----------------------------
EXTENDS OmpConfig

\* Two choices of the judge family (one local) and one of another family.
MCPreset ==
  [judgeLocal  |-> [family |-> "judge", local |-> TRUE, judge |-> "local", sys1 |-> "m", level |-> Keep],
   judgeHosted |-> [family |-> "judge", local |-> FALSE, judge |-> "hosted", sys1 |-> Nil, level |-> Keep],
   thinkHigh   |-> [family |-> "think", local |-> FALSE, judge |-> Keep, sys1 |-> Keep, level |-> "high"]]
=============================================================================
