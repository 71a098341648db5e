------------------------- MODULE MCKafkaSaramaGroup -------------------------
(* One partition through one failed Consume call or one rebalance. *)
EXTENDS KafkaSaramaGroup
=============================================================================
