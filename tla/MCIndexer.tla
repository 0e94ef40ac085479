----------------------------- MODULE MCIndexer -----------------------------
(* A predefined zettel and two others.  Who makes changes differs: only an  *)
(* API thread, only another program, or both, which leaves an index that is *)
(* not up to date until a Refresh.                                          *)
EXTENDS Indexer

CONSTANTS invalid, home, a, b, w, u, indexer

MCZids == {invalid, home, a, b}
MCBase == {home}

(* Nothing, or one reference; a zettel may reference itself.                *)
MCTexts == {{}, {<<Body, a>>}, {<<Body, b>>}}
FewTexts == {f \in [Zettel -> {{}, {<<Body, a>>}}] : f[a] = {}}

(* Where both may change zettel, there is a Refresh, and reports follow     *)
(* each other as fast as to be ignored.                                     *)
Both == active = {w, u}
MCInit ==
    /\ Init
    /\ active # {}
    /\ quick = Both
    /\ Both => text \in FewTexts

MCNext ==
    /\ Next
    /\ IF Both THEN text' \in FewTexts ELSE refreshes' = 0

MCSpec ==
    /\ MCInit /\ [][MCNext]_vars
    /\ WF_vars(notifier /\ UNCHANGED scenario)
    /\ WF_vars((idxWorkService \/ Index(indexer)) /\ UNCHANGED scenario)
    /\ WF_vars(WakeByTimer /\ UNCHANGED scenario)
    /\ \A p \in {w, u} : WF_vars((notifyChanged(p) \/ Index(p)) /\ UNCHANGED scenario)
============================================================================
