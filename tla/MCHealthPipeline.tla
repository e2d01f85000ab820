-------------------------- MODULE MCHealthPipeline --------------------------
EXTENDS HealthPipeline
=============================================================================
