----------------------------- MODULE MCHarness -----------------------------
EXTENDS Harness

MCBound ==
  [quiet   |-> [run |-> 4, edit |-> 3, upset |-> 1],
   cancel  |-> [run |-> 0, edit |-> 0, upset |-> 2],
   measure |-> [run |-> 2, edit |-> 1, upset |-> 1],
   guard   |-> [run |-> 2, edit |-> 2, upset |-> 1],
   freeze  |-> [run |-> 3, edit |-> 2, upset |-> 1],
   decide  |-> [run |-> 1, edit |-> 2, upset |-> 1]]

MCMain == "main"
MCWorker == {"w1", "w2"}

\* One model ships a context that is enough, one none, one too small a context.
MCShipped == [a |-> 2, b |-> Nil, c |-> 1]

MCProofSpec ==
  [kind : {"decision"}, stage : {"proof"}, cands : {<<"a">>, <<"b">>, <<"c">>, <<"b", "a">>, <<"laya", "a">>}]
  \cup [kind : {"decision"}, stage : {"screen"}, cands : {<<"a">>}]
  \cup [kind : {"generation", "memory"}, stage : {"proof", "screen"}, cands : {<<"a", "b">>}]
=============================================================================
