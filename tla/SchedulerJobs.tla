---------------------------- MODULE SchedulerJobs ----------------------------
(***************************************************************************)
(* Jobs the broker submits to an external Slurm scheduler (service.py,      *)
(* slurm.py and the scheduler adapter of adapters.py).                     *)
(*                                                                         *)
(* A request names its job by an idempotency key.  Every call runs in its   *)
(* own thread and alternates between transactions and commands on the       *)
(* login node, and the process may stop between any two of them.  Only      *)
(* submissions exclude each other.  A command may be refused, may fail      *)
(* before or after the scheduler has acted on it, and may, when its session *)
(* is lost, be carried out later or never.  The row of a job is a cache of  *)
(* what the scheduler knows.                                               *)
(*                                                                         *)
(* The key stands for actor, key and input together: a request that uses a  *)
(* key for other input is refused without effect.                          *)
(***************************************************************************)
CONSTANTS
    Key,            \* idempotency keys of submissions
    Caller,         \* bound: calls at a time
    Job,            \* bound: job numbers of the scheduler
    None

ASSUME JobsAssumption == None \notin Key \cup Caller \cup Job

VARIABLES
    open,           \* whether the target is enabled and may be submitted to
    row,            \* per key: the row of its job
    answer,         \* per key: the job in the remembered answer
    lock,           \* the call that holds _scheduler_submit_lock
    call,
    cluster,        \* per job number: what the scheduler knows
    past,           \* the jobs that ended before today
    lost            \* history: keys for which a command was lost and may be repeated

vars == <<open, row, answer, lock, call, cluster, past, lost>>

Pending == {"PENDING"}
Running == {"RUNNING"}
\* SUSPENDED stands for every state slurm.broker_state does not know.
Active == Pending \cup Running \cup {"SUSPENDED"}
Ended == {"COMPLETED", "FAILED", "CANCELLED", "TIMEOUT"}

\* "free": the number is not used; "late": a lost command that may still run.
JobRecord == [name : Key \cup {None}, state : {"free", "late"} \cup Active \cup Ended]

RowRecord == [state : {"none", "SUBMITTING", "ACCESS_REQUIRED", "UNKNOWN",
                       "CANCEL_REQUESTED", "PENDING", "RUNNING"} \cup Ended,
              sid   : Job \cup {None}]

CallRecord == [at   : {"idle", "prepare", "find", "recover", "sbatch", "fail", "complete",
                       "query", "update", "scancel", "record"},
               key  : Key \cup {None},
               sid  : Job \cup {None},
               seen : {"", "SUBMITTED", "ACCESS_REQUIRED", "UNKNOWN"} \cup Active \cup Ended]

Idle == [at |-> "idle", key |-> None, sid |-> None, seen |-> ""]

TypeOK ==
    /\ open \in BOOLEAN
    /\ row \in [Key -> RowRecord] /\ answer \in [Key -> Job \cup {None}]
    /\ lock \in Caller \cup {None} /\ call \in [Caller -> CallRecord]
    /\ cluster \in [Job -> JobRecord] /\ lost \subseteq Key
    /\ past \subseteq {j \in Job : cluster[j].state \in Ended}

Init ==
    /\ open = FALSE
    /\ row = [k \in Key |-> [state |-> "none", sid |-> None]]
    /\ answer = [k \in Key |-> None]
    /\ lock = None /\ call = [c \in Caller |-> Idle]
    /\ cluster = [j \in Job |-> [name |-> None, state |-> "free"]]
    /\ past = {} /\ lost = {}

-----------------------------------------------------------------------------
(* Conversions *)

\* Defect: the scheduler's states are stored as they are.
RawState(raw) == raw

BrokerState(raw) ==
    CASE raw = "SUBMITTED" -> "PENDING"
      [] raw = "SUSPENDED" -> "UNKNOWN"
      [] OTHER -> raw

\* Defect: a submission whose outcome is unknown is repeated like a failed one.
UnknownRetryable == {"none", "SUBMITTING", "ACCESS_REQUIRED", "FAILED", "UNKNOWN"}

\* States of a row whose submission may be repeated, after a search by name.
Retryable == {"none", "SUBMITTING", "ACCESS_REQUIRED", "FAILED"}

\* Defect: only squeue is searched.
Queued(k) == {j \in Job : cluster[j].name = k /\ cluster[j].state \in Active}

\* The jobs the scheduler has accepted under the name made from k.
Accepted(k) == {j \in Job : cluster[j].name = k /\ cluster[j].state \in Active \cup Ended}

\* Those that a search lists: squeue the active ones, and sacct, which is given no
\* start time, the others that ended since midnight.
Visible(k) == Accepted(k) \ past

-----------------------------------------------------------------------------
(* The steps of a call *)

Tables == <<row, answer>>
Outside == <<cluster, past, lost>>

Goes(c, at, sid, seen) ==
    call' = [call EXCEPT ![c].at = at, ![c].sid = sid, ![c].seen = seen]

\* The call returns, and gives up the lock if it is a submission.
Returns(c) ==
    /\ call' = [call EXCEPT ![c] = Idle]
    /\ lock' = IF lock = c THEN None ELSE lock

UpsertTarget(o) ==
    /\ open' = o
    /\ UNCHANGED <<Tables, lock, call, Outside>>

-----------------------------------------------------------------------------
(* Submission *)

\* Defect: submissions do not exclude each other.
BeginUnlocked(c, k) ==
    /\ call[c].at = "idle" /\ open
    /\ lock' = c
    /\ call' = [call EXCEPT ![c] = [Idle EXCEPT !.at = "prepare", !.key = k]]
    /\ UNCHANGED <<open, Tables, Outside>>

\* The checks of the target and of its access have passed; otherwise the call
\* ends here, without effect.
Begin(c, k) ==
    /\ call[c].at = "idle" /\ lock = None /\ open
    /\ lock' = c
    /\ call' = [call EXCEPT ![c] = [Idle EXCEPT !.at = "prepare", !.key = k]]
    /\ UNCHANGED <<open, Tables, Outside>>

\* The remembered answer is given again.
Replay(c) ==
    /\ call[c].at = "prepare" /\ answer[call[c].key] # None
    /\ Returns(c)
    /\ UNCHANGED <<open, Tables, Outside>>

Prepare(c) ==
    LET k == call[c].key IN
    /\ call[c].at = "prepare" /\ answer[k] = None
    /\ \/ /\ row[k].state \in Retryable
          /\ row' = [row EXCEPT ![k].state = "SUBMITTING"]
          /\ Goes(c, "find", None, "")
       \/ /\ row[k].state = "UNKNOWN"
          /\ Goes(c, "recover", None, "")
          /\ UNCHANGED row
    /\ UNCHANGED <<open, answer, lock, Outside>>

\* A search by name finds the first job listed.
Hits(c) ==
    /\ call[c].at \in {"find", "recover"}
    /\ \E j \in Visible(call[c].key) : Goes(c, "complete", j, cluster[j].state)
    /\ UNCHANGED <<open, Tables, lock, Outside>>

Misses(c) ==
    /\ call[c].at \in {"find", "recover"} /\ Visible(call[c].key) = {}
    /\ IF call[c].at = "find" THEN Goes(c, "sbatch", None, "") /\ UNCHANGED lock
       ELSE Returns(c)
    /\ UNCHANGED <<open, Tables, Outside>>

\* A search changes nothing, so its failure is never uncertain.
SearchErrs(c) ==
    /\ call[c].at \in {"find", "recover"}
    /\ IF call[c].at = "find"
       THEN /\ \E s \in {"ACCESS_REQUIRED", "FAILED"} : Goes(c, "fail", None, s)
            /\ UNCHANGED lock
       ELSE Returns(c)
    /\ UNCHANGED <<open, Tables, Outside>>

\* A number the scheduler has not used.
Free == {j \in Job : cluster[j].state = "free"}

Entered(j, k, s) == cluster' = [cluster EXCEPT ![j] = [name |-> k, state |-> s]]

\* The scheduler accepts the job, and the broker learns its number or not.
Accepts(c) ==
    /\ call[c].at = "sbatch"
    /\ \E j \in Free :
          /\ Entered(j, call[c].key, "PENDING")
          /\ \/ Goes(c, "complete", j, "SUBMITTED")
             \/ \E s \in {"UNKNOWN", "ACCESS_REQUIRED"} : Goes(c, "fail", None, s)
    /\ UNCHANGED <<open, Tables, lock, past, lost>>

\* The session is lost while the command may still run.  After a timeout the
\* outcome is called unknown; a broken connection is not.
Loses(c) ==
    /\ call[c].at = "sbatch"
    /\ \E j \in Free, s \in {"UNKNOWN", "ACCESS_REQUIRED"} :
          /\ Entered(j, call[c].key, "late")
          /\ Goes(c, "fail", None, s)
          /\ lost' = IF s = "UNKNOWN" THEN lost ELSE lost \cup {call[c].key}
    /\ UNCHANGED <<open, Tables, lock, past>>

\* Nothing is accepted: sbatch refuses, or the command never ran.
Refused(c) ==
    /\ call[c].at = "sbatch"
    /\ \E s \in {"UNKNOWN", "ACCESS_REQUIRED", "FAILED"} : Goes(c, "fail", None, s)
    /\ UNCHANGED <<open, Tables, lock, Outside>>

RecordFailure(c) ==
    /\ call[c].at = "fail"
    /\ row' = [row EXCEPT ![call[c].key].state = call[c].seen]
    /\ Returns(c)
    /\ UNCHANGED <<open, answer, Outside>>

\* Defect: the answer is not remembered.
CompleteForgets(c) ==
    /\ call[c].at = "complete"
    /\ row' = [row EXCEPT ![call[c].key] = [state |-> BrokerState(call[c].seen), sid |-> call[c].sid]]
    /\ Returns(c)
    /\ UNCHANGED <<open, answer, Outside>>

Complete(c) ==
    /\ call[c].at = "complete"
    /\ row' = [row EXCEPT ![call[c].key] = [state |-> BrokerState(call[c].seen), sid |-> call[c].sid]]
    /\ answer' = [answer EXCEPT ![call[c].key] = call[c].sid]
    /\ Returns(c)
    /\ UNCHANGED <<open, Outside>>

-----------------------------------------------------------------------------
(* Refresh and cancel *)

\* Defect: a job whose cancellation was asked for is not asked about again.
SettledStates == {"FAILED", "UNKNOWN", "ACCESS_REQUIRED", "CANCEL_REQUESTED"}

\* A row in one of these states is returned as it is.
NotAsked == {"FAILED", "UNKNOWN", "ACCESS_REQUIRED"}

Refresh(c, k) ==
    /\ call[c].at = "idle"
    /\ row[k].sid # None /\ row[k].state \notin NotAsked
    /\ call' = [call EXCEPT ![c] = [Idle EXCEPT !.at = "query", !.key = k, !.sid = row[k].sid]]
    /\ UNCHANGED <<open, Tables, lock, Outside>>

Query(c) ==
    /\ call[c].at = "query"
    /\ \/ Goes(c, "update", call[c].sid, cluster[call[c].sid].state) /\ UNCHANGED lock
       \/ Returns(c)
    /\ UNCHANGED <<open, Tables, Outside>>

Update(c) ==
    /\ call[c].at = "update"
    /\ row' = [row EXCEPT ![call[c].key].state = BrokerState(call[c].seen)]
    /\ Returns(c)
    /\ UNCHANGED <<open, answer, Outside>>

\* A repetition of a cancellation that is remembered is answered without a step.
Cancel(c, k) ==
    /\ call[c].at = "idle" /\ row[k].sid # None
    /\ call' = [call EXCEPT ![c] = [Idle EXCEPT !.at = "scancel", !.key = k, !.sid = row[k].sid]]
    /\ UNCHANGED <<open, Tables, lock, Outside>>

\* scancel ends an active job, or fails before or after it has.
Scancel(c) ==
    LET j == call[c].sid IN
    /\ call[c].at = "scancel"
    /\ \/ /\ cluster' = IF cluster[j].state \in Active
                         THEN [cluster EXCEPT ![j].state = "CANCELLED"] ELSE cluster
          /\ \/ Goes(c, "record", j, "") /\ UNCHANGED lock
             \/ Returns(c)
       \/ Returns(c) /\ UNCHANGED cluster
    /\ UNCHANGED <<open, Tables, past, lost>>

\* Defect: a cancellation that was sent counts as done.
RecordCancelled(c) ==
    /\ call[c].at = "record"
    /\ row' = [row EXCEPT ![call[c].key].state = "CANCELLED"]
    /\ Returns(c)
    /\ UNCHANGED <<open, answer, Outside>>

RecordCancel(c) ==
    /\ call[c].at = "record"
    /\ row' = [row EXCEPT ![call[c].key].state = "CANCEL_REQUESTED"]
    /\ Returns(c)
    /\ UNCHANGED <<open, answer, Outside>>

-----------------------------------------------------------------------------
(* The scheduler, and the end of the broker process *)

LateRuns(j) ==
    /\ cluster[j].state = "late"
    /\ cluster' = [cluster EXCEPT ![j].state = "PENDING"]
    /\ UNCHANGED <<open, Tables, lock, call, past, lost>>

LateDies(j) ==
    /\ cluster[j].state = "late"
    /\ cluster' = [cluster EXCEPT ![j] = [name |-> None, state |-> "free"]]
    /\ UNCHANGED <<open, Tables, lock, call, past, lost>>

\* Jobs start, are suspended, are queued again, end.  Ended is final.
JobMoves(j) ==
    /\ \E s \in Active \cup Ended :
          /\ \/ cluster[j].state = "PENDING" /\ s \in Running \cup {"CANCELLED"}
             \/ cluster[j].state = "RUNNING" /\ s \in Pending \cup {"SUSPENDED"} \cup Ended
             \/ cluster[j].state = "SUSPENDED" /\ s \in Running \cup {"CANCELLED"}
          /\ cluster' = [cluster EXCEPT ![j].state = s]
    /\ UNCHANGED <<open, Tables, lock, call, past, lost>>

Midnight ==
    /\ past' = {j \in Job : cluster[j].state \in Ended}
    /\ UNCHANGED <<open, Tables, lock, call, cluster, lost>>

\* All calls are lost.  A command under way goes on without its session; a
\* row may then wait for the retry of a submission that is still to run.
Crash ==
    /\ call' = [c \in Caller |-> Idle] /\ lock' = None
    /\ \/ UNCHANGED cluster
       \/ \E c \in Caller, j \in Free :
             call[c].at = "sbatch" /\ Entered(j, call[c].key, "late")
    /\ lost' = lost \cup {k \in Key : /\ row[k].state = "SUBMITTING"
                                     /\ \E j \in Job : cluster'[j] = [name |-> k, state |-> "late"]}
    /\ UNCHANGED <<open, Tables, past>>

CallStep(c) ==
    \/ Replay(c) \/ Prepare(c) \/ Hits(c) \/ Misses(c) \/ SearchErrs(c)
    \/ Accepts(c) \/ Loses(c) \/ Refused(c) \/ RecordFailure(c) \/ Complete(c)
    \/ Query(c) \/ Update(c) \/ Scancel(c) \/ RecordCancel(c)

Next ==
    \/ \E o \in BOOLEAN : UpsertTarget(o)
    \/ \E c \in Caller : CallStep(c) \/ \E k \in Key : Begin(c, k) \/ Refresh(c, k) \/ Cancel(c, k)
    \/ \E j \in Job : LateRuns(j) \/ LateDies(j) \/ JobMoves(j)
    \/ Midnight \/ Crash

Spec == Init /\ [][Next]_vars

\* Every command ends by its timeout, and a thread goes on.
FairSpec == Spec /\ \A c \in Caller : WF_vars(CallStep(c))

Answered(k) == \E c \in Caller : call[c].key = k /\ Query(c) /\ call'[c].at = "update"

\* What a client that keeps asking and a scheduler that keeps answering do.
Polled ==
    \A k \in Key : SF_vars(\E c \in Caller : Refresh(c, k)) /\ SF_vars(Answered(k))

-----------------------------------------------------------------------------
(* Properties *)

\* The scheduler has a second job for a key only after the first ended on an
\* earlier day, whatever fails, is repeated or runs at the same time
\* (_submit_scheduler_job: search before sbatch, no sbatch for an unknown
\* outcome).  Excepted are the keys of which a command was lost without the
\* broker calling its outcome unknown.
OneJobPerKey ==
    \A k \in Key \ lost : \A i, j \in Job :
        cluster[i].name = k /\ cluster[j].name = k => i = j \/ i \in past \/ j \in past

\* The row of a key names the job that was submitted under it, and its
\* remembered answer the same (_submit_scheduler_job, complete).
RowNamesItsJob ==
    \A k \in Key : /\ row[k].sid = answer[k]
                   /\ answer[k] # None => answer[k] \in Accepted(k)

\* A row that says how its job ended is right, although refreshes and
\* cancellations overwrite each other's states (refresh_scheduler_job, update).
FinalStatesAreTrue ==
    \A k \in Key : row[k].sid # None /\ row[k].state \in Ended
                     => cluster[row[k].sid].state = row[k].state

\* What the table of jobs says is true (_submit_scheduler_job,
\* refresh_scheduler_job).
JobRowsAreTrue == TypeOK /\ OneJobPerKey /\ RowNamesItsJob /\ FinalStatesAreTrue

\* The broker stops failing at some time.
StaysUp == <>[][~Crash]_vars

\* A job the scheduler has accepted is found by a client that repeats its
\* request, once searches and the broker stop failing, unless midnight comes
\* between its end and the next search (find_by_name).
Repeats(k) == \E c \in Caller : call[c].key = k /\ Prepare(c)

SearchFails(k) == \E c \in Caller : call[c].key = k /\ SearchErrs(c)

RetriesFindTheJob ==
    \A k \in Key :
        []<><<Repeats(k)>>_vars /\ <>[][~SearchFails(k)]_vars /\ StaysUp
        => [](Accepted(k) # {} => <>(answer[k] # None \/ Accepted(k) \subseteq past))

Shown ==
    \A k \in Key, j \in Job, s \in Ended :
        row[k].sid = j /\ cluster[j].state = s ~> row[k].state \in {s, "UNKNOWN"}

\* A client that keeps asking sees how its job ended, unless the broker has met
\* a state it does not know, after which it never asks again
\* (refresh_scheduler_job).
PolledRowsCatchUp == StaysUp /\ Polled => Shown

-----------------------------------------------------------------------------
(* What callers and the scheduler see is a submission log. *)

Log == INSTANCE SubmissionLog WITH
    accepted <- [k \in Key |-> Accepted(k)],
    told <- answer

LogImplemented == Log!Spec
=============================================================================
