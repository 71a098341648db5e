--------------------------- MODULE MCKafkaWatermill ---------------------------
EXTENDS KafkaWatermill
=============================================================================
