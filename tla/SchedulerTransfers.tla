-------------------------- MODULE SchedulerTransfers --------------------------
(***************************************************************************)
(* Staged uploads to the file system of an external scheduler (service.py,  *)
(* slurm.py, adapters.py, cli.py).                                         *)
(*                                                                         *)
(* A request makes a row and starts a thread, which makes a directory of    *)
(* its own on the login node, runs scp, and records the outcome.  The       *)
(* broker may stop at any time: its threads end, but an scp already running *)
(* goes on.  What a stopped broker left is sorted out by initialize, which  *)
(* runs when the broker starts, and also in two commands of the command     *)
(* line that open the same database while a broker may be running.         *)
(***************************************************************************)
CONSTANTS
    Transfer        \* the transfers, each under an idempotency key of its own

VARIABLES
    up,             \* whether the broker runs
    row,            \* per transfer: the state of its row
    thread,         \* per transfer: where its thread is, and the outcome it is to record
    scp,            \* the transfers whose scp runs
    stage           \* per transfer: what is in its remote directory

vars == <<up, row, thread, scp, stage>>

Failure == {"UNKNOWN", "ACCESS_REQUIRED", "FAILED"}

TypeOK ==
    /\ up \in BOOLEAN /\ scp \subseteq Transfer
    /\ row \in [Transfer -> {"none", "TRANSFERRING", "COMPLETED", "DEFERRED"} \cup Failure]
    /\ thread \in [Transfer -> {"none", "started", "mkdir", "copy", "copying", "success"} \cup Failure]
    /\ stage \in [Transfer -> {"absent", "empty", "partial", "full"}]

Init ==
    /\ up = FALSE /\ scp = {}
    /\ row = [t \in Transfer |-> "none"] /\ thread = [t \in Transfer |-> "none"]
    /\ stage = [t \in Transfer |-> "absent"]

Goes(t, at) == thread' = [thread EXCEPT ![t] = at]

\* Defect: a request repeated under its key starts a failed transfer again.
StartAgain(t) ==
    /\ up /\ row[t] \in {"none"} \cup Failure
    /\ row' = [row EXCEPT ![t] = "TRANSFERRING"]
    /\ Goes(t, "started")
    /\ UNCHANGED <<up, scp, stage>>

\* The first use of a key; any other use of it only reads the row.
Start(t) ==
    /\ up /\ row[t] = "none"
    /\ row' = [row EXCEPT ![t] = "TRANSFERRING"]
    /\ Goes(t, "started")
    /\ UNCHANGED <<up, scp, stage>>

\* The thread of a transfer that is no longer to run ends.
Resolve(t) ==
    /\ thread[t] = "started"
    /\ Goes(t, IF row[t] = "TRANSFERRING" THEN "mkdir" ELSE "none")
    /\ UNCHANGED <<up, row, scp, stage>>

\* The directory is made; or the command fails, and it may be there or not.
Mkdir(t) ==
    /\ thread[t] = "mkdir"
    /\ \/ Goes(t, "copy") /\ stage' = [stage EXCEPT ![t] = "empty"]
       \/ /\ \E f \in Failure : Goes(t, f)
          /\ stage' \in {stage, [stage EXCEPT ![t] = "empty"]}
    /\ UNCHANGED <<up, row, scp>>

CopyStarts(t) ==
    /\ thread[t] = "copy"
    /\ \/ /\ Goes(t, "copying") /\ scp' = scp \cup {t}
          /\ stage' = [stage EXCEPT ![t] = "partial"]
       \/ Goes(t, "FAILED") /\ UNCHANGED <<scp, stage>>
    /\ UNCHANGED <<up, row>>

\* Defect: the exit status of scp is not looked at.
CopyEndsUnchecked(t) ==
    /\ t \in scp /\ scp' = scp \ {t}
    /\ stage' \in {stage, [stage EXCEPT ![t] = "full"]}
    /\ thread' = IF thread[t] = "copying" THEN [thread EXCEPT ![t] = "success"] ELSE thread
    /\ UNCHANGED <<up, row>>

\* scp ends by itself, or is killed by its timeout; its thread, if the broker
\* still has it, learns the outcome.
CopyEnds(t) ==
    /\ t \in scp /\ scp' = scp \ {t}
    /\ \/ /\ stage' = [stage EXCEPT ![t] = "full"]
          /\ thread' = IF thread[t] = "copying" THEN [thread EXCEPT ![t] = "success"] ELSE thread
       \/ /\ \E f \in {"UNKNOWN", "ACCESS_REQUIRED"} :
                thread' = IF thread[t] = "copying" THEN [thread EXCEPT ![t] = f] ELSE thread
          /\ UNCHANGED stage
    /\ UNCHANGED <<up, row>>

\* Defect: the step of the thread is recorded as the state of the transfer.
RecordStep(t) ==
    /\ thread[t] = "success"
    /\ row' = [row EXCEPT ![t] = thread[t]]
    /\ Goes(t, "none")
    /\ UNCHANGED <<up, scp, stage>>

\* Whatever the row says by now.
RecordSuccess(t) ==
    /\ thread[t] = "success"
    /\ row' = [row EXCEPT ![t] = "COMPLETED"]
    /\ Goes(t, "none")
    /\ UNCHANGED <<up, scp, stage>>

RecordFailure(t) ==
    /\ thread[t] \in Failure
    /\ row' = [row EXCEPT ![t] = thread[t]]
    /\ Goes(t, "none")
    /\ UNCHANGED <<up, scp, stage>>

Deferred == [t \in Transfer |-> IF row[t] = "TRANSFERRING" THEN "DEFERRED" ELSE row[t]]

\* Defect: a start leaves interrupted transfers as they are.
BootOnly ==
    /\ ~up /\ up' = TRUE
    /\ UNCHANGED <<row, thread, scp, stage>>

Boot ==
    /\ ~up /\ up' = TRUE
    /\ row' = Deferred
    /\ UNCHANGED <<thread, scp, stage>>

\* "init" and "collect once", in a process of their own.
CommandLine ==
    /\ row' = Deferred
    /\ UNCHANGED <<up, thread, scp, stage>>

Crash ==
    /\ up /\ up' = FALSE
    /\ thread' = [t \in Transfer |-> "none"]
    /\ UNCHANGED <<row, scp, stage>>

ThreadStep(t) ==
    Resolve(t) \/ Mkdir(t) \/ CopyStarts(t) \/ RecordSuccess(t) \/ RecordFailure(t)

Next ==
    \/ \E t \in Transfer : Start(t) \/ ThreadStep(t) \/ CopyEnds(t)
    \/ Boot \/ CommandLine \/ Crash

Spec == Init /\ [][Next]_vars

\* Threads go on, commands and scp end by their timeouts, and a broker that has
\* stopped is started again: by launchd after a failure (daemon.py), otherwise
\* by its user.
FairSpec ==
    /\ Spec
    /\ \A t \in Transfer : WF_vars(ThreadStep(t)) /\ WF_vars(CopyEnds(t))
    /\ WF_vars(Boot)

-----------------------------------------------------------------------------
(* Properties *)

\* What is called completed is on the login node as a whole, and stays there
\* (_perform_scheduler_upload, record_success).
CompletedIsThere == \A t \in Transfer : row[t] = "COMPLETED" => stage[t] = "full"

\* A transfer whose thread is gone keeps the outcome that is recorded: it is
\* never started, deferred or completed a second time.
OutcomeIsFinal ==
    [][\A t \in Transfer :
          thread[t] = "none" /\ row[t] \notin {"none", "TRANSFERRING"} => row'[t] = row[t]]_vars

\* Every transfer gets an outcome, although the broker may stop at any time
\* (_defer_interrupted_scheduler_transfers).
TransfersGetAnOutcome ==
    \A t \in Transfer : row[t] = "TRANSFERRING" ~> row[t] \notin {"none", "TRANSFERRING"}
=============================================================================
