----------------------------- MODULE MCStopping -----------------------------
(* One question of a cmdlet's run and of a job: whether a stop ends it.  They *)
(* share StopWaker and nothing else, so a behaviour is one of the two: "kind" *)
(* says which, and the other's variables stay as they began.                  *)
EXTENDS CmdletRun, RustJob

VARIABLE kind

StoppingInit ==
  /\ kind \in {"cmdlet", "job"}
  /\ RunInit /\ JobInit
  /\ IF kind = "cmdlet" THEN asks ELSE needs = {"process"}

CmdletNext == kind = "cmdlet" /\ RunNext /\ UNCHANGED <<kind, jobVars>>
JobOnlyNext == kind = "job" /\ JobNext /\ UNCHANGED <<kind, runVars>>

StopperOf(s) ==
  \/ kind = "cmdlet" /\ (ReadInstance(s) \/ CmdletStop(s)) /\ UNCHANGED jobVars
  \/ kind = "job" /\ StopStep(s) /\ UNCHANGED runVars

\* Each module's own fairness, in the behaviours that are its own.
StoppingSpec ==
  /\ StoppingInit
  /\ [][CmdletNext \/ JobOnlyNext]_<<kind, allVars, jobVars>>
  /\ WF_allVars(kind = "cmdlet" /\ PipelineStep)
  /\ WF_<<vars, jobVars>>(kind = "job" /\ MakerStep)
  /\ WF_<<vars, jobVars>>(kind = "job" /\ WorkStep)
  /\ \A s \in Stoppers : WF_<<allVars, jobVars>>(StopperOf(s))
=============================================================================
