---------------------------- MODULE MCScheduler ----------------------------
(***************************************************************************)
(* Jobs and transfers for TLC.  They share no table and no lock, so a       *)
(* behaviour plays one part and the variables of the other stay as they are.*)
(***************************************************************************)
EXTENDS SchedulerJobs, Integers, TLC

CONSTANT Transfer

VARIABLES part, up, xfer, thread, scp, stage

T == INSTANCE SchedulerTransfers WITH row <- xfer

tvars == <<up, xfer, thread, scp, stage>>
allvars == <<part, vars, tvars>>

InitMC == part \in {"jobs", "transfers"} /\ Init /\ T!Init

\* Bounds.  Job numbers and callers only tell jobs and calls apart: the least is
\* taken first.  A target that is open, which only lets calls begin, stays so.
Bounded ==
    /\ open => open'
    /\ \A j \in Free : cluster'[j].state # "free" => \A i \in Free : j <= i
    /\ \A c, d \in Caller :
          call[c].at = "idle" /\ call[d].at = "idle" /\ call'[c].at # "idle" => c <= d

NextMC ==
    \/ part = "jobs" /\ Next /\ Bounded /\ UNCHANGED <<part, tvars>>
    \/ part = "transfers" /\ T!Next /\ UNCHANGED <<part, vars>>

\* FairSpec of both modules.  Only Boot is possible where its part is not played.
SpecMC ==
    /\ InitMC /\ [][NextMC]_allvars
    /\ \A c \in Caller : WF_vars(CallStep(c))
    /\ \A t \in Transfer : WF_tvars(T!ThreadStep(t)) /\ WF_tvars(T!CopyEnds(t))
    /\ WF_tvars(part = "transfers" /\ T!Boot)

-----------------------------------------------------------------------------
(* Properties, and those of SchedulerTransfers under names a configuration can give *)

\* What is called completed is on the login node as a whole, and a transfer whose
\* thread is gone keeps the outcome that is recorded (_perform_scheduler_upload,
\* record_success and record_failure).
OutcomesAreFinal == [](T!TypeOK /\ T!CompletedIsThere) /\ T!OutcomeIsFinal

\* Every transfer gets an outcome, although the broker may stop at any time
\* (_defer_interrupted_scheduler_transfers).
TransfersGetAnOutcome == T!TransfersGetAnOutcome
=============================================================================
