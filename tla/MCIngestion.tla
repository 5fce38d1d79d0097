---------------------------- MODULE MCIngestion ----------------------------
EXTENDS Ingestion
CONSTANTS a, none, task, reconciler
=============================================================================
