--------------------------- MODULE MCTokenWeights ---------------------------
(***************************************************************************)
(* Instances of TokenWeights for TLC. Of the ids, 1 and 2 are well rated,  *)
(* 3 is not, and 2 after 1 is a template.                                  *)
(***************************************************************************)
EXTENDS TokenWeights

K(i, s, j, d) == [id |-> i, s |-> s, jsd |-> j, ddj |-> d]
MCKinds == {K(1, 0, 0, 0), K(1, 2, 1, 0), K(2, 2, 1, 1), K(3, 2, 1, 1), K(2, 1, 0, 2)}
MCRated == {1, 2}
MCTemplate == {<<1, 2>>}
MCDamping == <<1, 3, 2>>
MCOptions == {{}, {"targeted", "jsd_gate"}, {"targeted", "jsd_gate", "freq_decay"},
              {"targeted", "dd_jsd", "freq_decay"}}

=============================================================================
