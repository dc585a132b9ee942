-------------------------- MODULE MCEvalSchedule --------------------------
\* All graphs of a few ops, scheduled and encoded.
EXTENDS EvalSchedule
=============================================================================
