----------------------- MODULE MCKafkaSaramaPartitions -----------------------
EXTENDS KafkaSaramaPartitions
=============================================================================
