-------------------------- MODULE MCWeightTransfer --------------------------
(***************************************************************************)
(* Instances of WeightTransfer for TLC. With buckets of two bytes: weights  *)
(* that share a bucket, that fill one, that leave one half empty, up to    *)
(* four buckets, so that both buffers of each rank are used again; no      *)
(* weight at all; and a weight larger than a bucket, at the start and      *)
(* after another.                                                          *)
(***************************************************************************)
EXTENDS WeightTransfer

MCModels ==
  {<<>>, <<3>>, <<1, 3>>, <<1, 1>>, <<2, 1, 2>>, <<1, 1, 2, 1, 1>>, <<2, 2, 2, 2>>}

MCSmall == {<<1, 1, 2>>}

=============================================================================
