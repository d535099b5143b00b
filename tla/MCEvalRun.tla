------------------------------ MODULE MCEvalRun ------------------------------
EXTENDS EvalRun
==============================================================================
