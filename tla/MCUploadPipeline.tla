-------------------------- MODULE MCUploadPipeline --------------------------
EXTENDS UploadPipeline, TLC

CONSTANTS u1, u2, u3, d1

\* One PDF, uploaded again and again.
SamePdf == [u \in Uploads |-> d1]

NoCrash == [p \in Procs |-> 0]
OneCrashEach == [p \in Procs |-> 1]
TwoApiCrashes == [p \in Procs |-> IF p = "api" THEN 2 ELSE 0]
=============================================================================
