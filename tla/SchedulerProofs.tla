---------------------------- MODULE SchedulerProofs ----------------------------
(***************************************************************************)
(* Theorems about jobs and transfers of an external scheduler, for every    *)
(* number of keys, calls, jobs and transfers.                              *)
(*                                                                         *)
(* Jobs: the invariant says what a call may rely on between two of its      *)
(* steps: a submission holds the lock, so that its row stays as it left it; *)
(* where sbatch is to be run the jobs with the name of its key ended before  *)
(* today; and a command that may still run belongs to a key whose outcome is *)
(* called unknown and that has no answer.                                   *)
(* From it follow that the tables are true and that the jobs implement      *)
(* SubmissionLog.                                                          *)
(*                                                                         *)
(* Transfers: the invariant says that a thread knows what is in its         *)
(* directory, also while an scp of a stopped broker still writes there, and *)
(* that no row with an outcome of its own has a thread left.               *)
(***************************************************************************)
EXTENDS MCScheduler, TLAPS

Submitting == {"prepare", "find", "recover", "sbatch", "fail", "complete"}
Asking == {"query", "update", "scancel", "record"}

\* A submission under way holds the lock.
Locked == \A c \in Caller : call[c].at \in Submitting => lock = c

\* What a call relies on between two steps, of the row of the key k.
RowFits(c, k) ==
    /\ call[c].at \in {"find", "sbatch", "fail"} => row[k].state = "SUBMITTING"
    /\ call[c].at = "recover" => row[k].state = "UNKNOWN"
    /\ call[c].at \in Submitting \ {"prepare"} => answer[k] = None
    /\ call[c].at \in Asking => answer[k] # None /\ call[c].sid = answer[k]

\* What it has learned.
SeenFits(c, k) ==
    /\ call[c].at = "complete" => call[c].sid \in Accepted(k)
    /\ call[c].at = "complete" => call[c].seen \in {"SUBMITTED"} \cup Active \cup Ended
    /\ call[c].at = "fail" => call[c].seen \in {"UNKNOWN", "ACCESS_REQUIRED", "FAILED"}
    /\ call[c].at = "update" => call[c].seen \in Active \cup Ended

\* Unless a command was lost: where sbatch is to be run, the jobs with the name
\* have passed, and where a job is known no command with its name may still run.
NoneYet(c, k) ==
    k \notin lost =>
        \A j \in Job : cluster[j].name = k =>
            /\ call[c].at = "sbatch" => j \in past
            /\ call[c].at = "complete" => cluster[j].state # "late"

CallSound(c) ==
    call[c].at # "idle" =>
        /\ call[c].key \in Key
        /\ RowFits(c, call[c].key)
        /\ SeenFits(c, call[c].key)
        /\ NoneYet(c, call[c].key)

Named ==
    \A j \in Job : IF cluster[j].state = "free" THEN cluster[j].name = None
                                                 ELSE cluster[j].name \in Key

\* The broker calls the outcome of the key unknown, or is about to.
Uncertain(k) ==
    \/ row[k].state = "UNKNOWN"
    \/ \E c \in Caller : call[c].at = "fail" /\ call[c].key = k /\ call[c].seen = "UNKNOWN"

\* A command that may still run is one whose outcome the broker calls unknown,
\* and its key has no answer.
LateIsUnknown ==
    \A k \in Key \ lost, j \in Job :
        cluster[j].state = "late" /\ cluster[j].name = k => answer[k] = None /\ Uncertain(k)

Inv ==
    /\ TypeOK
    /\ Locked
    /\ \A c \in Caller : CallSound(c)
    /\ Named
    /\ OneJobPerKey
    /\ LateIsUnknown
    /\ RowNamesItsJob

-----------------------------------------------------------------------------

\* Initially nothing is submitted.
LEMMA InitInv == Init => Inv
<1> SUFFICES ASSUME Init PROVE Inv
  OBVIOUS
<1>1. \A c \in Caller : call[c].at = "idle"
  BY DEF Init, Idle
<1>2. TypeOK
  BY DEF Init, TypeOK, RowRecord, CallRecord, JobRecord, Idle
<1>3. Locked /\ \A c \in Caller : CallSound(c)
  BY <1>1 DEF Locked, CallSound, Submitting
<1>4. \A j \in Job : cluster[j] = [name |-> None, state |-> "free"]
  BY DEF Init
<1>5. Named /\ OneJobPerKey /\ LateIsUnknown
  BY <1>4, JobsAssumption DEF Named, OneJobPerKey, LateIsUnknown
<1>6. RowNamesItsJob
  BY DEF Init, RowNamesItsJob
<1> QED
  BY <1>2, <1>3, <1>5, <1>6 DEF Inv

-----------------------------------------------------------------------------
(* What a step does to its call *)

\* The calls besides c are as they were.
Others(c) == \A d \in Caller : d # c => call'[d] = call[d]

LEMMA GoesCall ==
  ASSUME TypeOK, NEW c \in Caller, NEW at, NEW sid, NEW seen, Goes(c, at, sid, seen)
  PROVE  /\ call'[c].at = at /\ call'[c].key = call[c].key
         /\ call'[c].sid = sid /\ call'[c].seen = seen
         /\ Others(c)
         /\ [at |-> at, key |-> call[c].key, sid |-> sid, seen |-> seen] \in CallRecord
            => call' \in [Caller -> CallRecord]
<1>1. call \in [Caller -> CallRecord]
  BY DEF TypeOK
<1> QED
  BY <1>1 DEF Goes, CallRecord, Others

LEMMA ReturnsCall ==
  ASSUME TypeOK, NEW c \in Caller, Returns(c)
  PROVE  /\ call'[c].at = "idle"
         /\ Others(c)
         /\ call' \in [Caller -> CallRecord]
         /\ lock' \in Caller \cup {None}
         /\ lock' = lock \/ lock = c
  BY DEF TypeOK, Returns, CallRecord, Others, Idle

\* One submission at a time.
LEMMA OneSubmission ==
  ASSUME Locked, NEW c \in Caller, call[c].at \in Submitting, NEW d \in Caller, d # c
  PROVE  call[d].at \notin Submitting
  BY DEF Locked

\* The lock after a step: its own call has it, or submits nothing.
LEMMA LockStays ==
  ASSUME Locked, NEW c \in Caller, Others(c),
         call'[c].at \in Submitting => lock' = c,
         call'[c].at \in Submitting => call[c].at \in Submitting \/ lock = None,
         lock' = lock \/ lock = c \/ lock = None,
         None \notin Caller
  PROVE  Locked'
  BY DEF Locked, Others

\* A call that only asks stays sound while answers stand.
LEMMA AskingStays ==
  ASSUME NEW c \in Caller, CallSound(c), call'[c] = call[c],
         call[c].at \notin Submitting,
         \A k \in Key : answer[k] # None => answer'[k] = answer[k]
  PROVE  CallSound(c)'
<1>1. CASE call[c].at = "idle"
  BY <1>1 DEF CallSound
<1>2. CASE call[c].at # "idle"
  <2>1. call[c].key \in Key /\ RowFits(c, call[c].key) /\ SeenFits(c, call[c].key)
    BY <1>2 DEF CallSound
  <2>2. RowFits(c, call[c].key)'
    BY <2>1 DEF RowFits, Submitting, Asking
  <2>3. SeenFits(c, call[c].key)'
    BY <2>1 DEF SeenFits, Submitting
  <2>4. NoneYet(c, call[c].key)'
    BY DEF NoneYet, Submitting
  <2> QED
    BY <2>1, <2>2, <2>3, <2>4 DEF CallSound
<1> QED
  BY <1>1, <1>2

\* A step of a submission leaves the other calls sound.
LEMMA SubmissionKeeps ==
  ASSUME Inv, NEW c \in Caller, call[c].at \in Submitting \/ lock = None, Others(c),
         \A k \in Key : answer[k] # None => answer'[k] = answer[k],
         None \notin Caller
  PROVE  \A d \in Caller : d # c => CallSound(d)'
<1> SUFFICES ASSUME NEW d \in Caller, d # c PROVE CallSound(d)'
  OBVIOUS
<1>1. call[d].at \notin Submitting
  BY OneSubmission DEF Inv, Locked
<1> QED
  BY <1>1, AskingStays DEF Inv, Others

\* What the tables and the scheduler still are for a call that is not touched.
Steady ==
    /\ answer' = answer
    /\ \A k \in Key : answer[k] = None => row'[k].state = row[k].state
    /\ \A k \in Key : Accepted(k) \subseteq Accepted(k)'
    /\ \A j \in Job, k \in Key :
          cluster'[j].name = k =>
              cluster[j].name = k /\ (cluster'[j].state = "late" => cluster[j].state = "late")
    /\ past \subseteq past'
    /\ lost \subseteq lost' /\ lost' \subseteq lost

LEMMA SteadyKeeps ==
  ASSUME NEW d \in Caller, CallSound(d), call'[d] = call[d], Steady
  PROVE  CallSound(d)'
<1>1. CASE call[d].at = "idle"
  BY <1>1 DEF CallSound
<1>2. CASE call[d].at # "idle"
  <2>1. call[d].key \in Key /\ RowFits(d, call[d].key) /\ SeenFits(d, call[d].key)
           /\ NoneYet(d, call[d].key)
    BY <1>2 DEF CallSound
  <2>2. RowFits(d, call[d].key)'
    BY <2>1 DEF RowFits, Submitting, Asking, Steady
  <2>3. SeenFits(d, call[d].key)'
    BY <2>1 DEF SeenFits, Steady
  <2>4. NoneYet(d, call[d].key)'
    BY <2>1 DEF NoneYet, Steady
  <2> QED
    BY <2>1, <2>2, <2>3, <2>4 DEF CallSound
<1> QED
  BY <1>1, <1>2

\* A lost command stays called unknown while no call that is to say so is touched.
LEMMA LateStays ==
  ASSUME LateIsUnknown, lost \subseteq lost',
         \A k \in Key, j \in Job : k \notin lost' /\ cluster'[j].state = "late" /\ cluster'[j].name = k
             => /\ cluster[j].state = "late" /\ cluster[j].name = k
                /\ row'[k].state = row[k].state /\ answer'[k] = answer[k],
         \A d \in Caller : call[d].at = "fail" => call'[d] = call[d]
  PROVE  LateIsUnknown'
<1> SUFFICES ASSUME NEW k \in Key, k \notin lost', NEW j \in Job,
                    cluster'[j].state = "late", cluster'[j].name = k
             PROVE  answer'[k] = None /\ Uncertain(k)'
  BY DEF LateIsUnknown
<1>1. /\ cluster[j].state = "late" /\ cluster[j].name = k
      /\ row'[k].state = row[k].state /\ answer'[k] = answer[k] /\ k \notin lost
  OBVIOUS
<1>2. answer[k] = None /\ Uncertain(k)
  BY <1>1 DEF LateIsUnknown
<1> QED
  BY <1>1, <1>2 DEF Uncertain

\* States the scheduler tells are translated to states a row may have.
LEMMA BrokerStates ==
  ASSUME NEW s \in {"SUBMITTED"} \cup Active \cup Ended
  PROVE  BrokerState(s) \in {"UNKNOWN", "PENDING", "RUNNING"} \cup Ended
  BY DEF BrokerState, Active, Ended, Pending, Running

-----------------------------------------------------------------------------
(* Steps that leave the tables and the scheduler alone *)

\* Nothing but calls and the lock changes.
LEMMA OnlyCalls ==
  ASSUME Inv, UNCHANGED <<row, answer, cluster, past, lost>>,
         \A d \in Caller : call[d].at = "fail" => call'[d] = call[d]
  PROVE  Named' /\ OneJobPerKey' /\ RowNamesItsJob' /\ LateIsUnknown' /\ Steady
<1>1. Named' /\ OneJobPerKey' /\ RowNamesItsJob' /\ Steady
  BY DEF Inv, Named, OneJobPerKey, RowNamesItsJob, Accepted, Steady
<1>2. LateIsUnknown'
  BY LateStays DEF Inv
<1> QED
  BY <1>1, <1>2

\* A call returns without a trace.
LEMMA ReturnInv ==
  ASSUME Inv, NEW c \in Caller, Returns(c), call[c].at # "fail",
         UNCHANGED <<open, row, answer, cluster, past, lost>>
  PROVE  Inv'
<1>1. /\ call'[c].at = "idle" /\ Others(c) /\ call' \in [Caller -> CallRecord]
      /\ lock' \in Caller \cup {None} /\ (lock' = lock \/ lock = c)
  BY ReturnsCall DEF Inv
<1>2. TypeOK'
  BY <1>1 DEF Inv, TypeOK
<1>3. Locked'
  BY <1>1, LockStays, JobsAssumption DEF Inv, Submitting
<1>4. Named' /\ OneJobPerKey' /\ RowNamesItsJob' /\ LateIsUnknown' /\ Steady
  BY <1>1, OnlyCalls DEF Others
<1>5. \A d \in Caller : CallSound(d)'
  BY <1>1, <1>4, SteadyKeeps DEF Inv, Others, CallSound
<1> QED
  BY <1>2, <1>3, <1>4, <1>5 DEF Inv

\* A call goes on, and has what it needs there.
LEMMA GoInv ==
  ASSUME Inv, NEW c \in Caller, NEW at, NEW sid, NEW seen, Goes(c, at, sid, seen),
         [at |-> at, key |-> call[c].key, sid |-> sid, seen |-> seen] \in CallRecord,
         call[c].at # "fail",
         at \in Submitting => call[c].at \in Submitting,
         CallSound(c)',
         UNCHANGED <<open, row, answer, lock, cluster, past, lost>>
  PROVE  Inv'
<1>1. /\ call'[c].at = at /\ Others(c) /\ call' \in [Caller -> CallRecord]
  BY GoesCall DEF Inv
<1>2. TypeOK'
  BY <1>1 DEF Inv, TypeOK
<1>3. Locked'
  BY <1>1 DEF Inv, Locked, Others
<1>4. Named' /\ OneJobPerKey' /\ RowNamesItsJob' /\ LateIsUnknown' /\ Steady
  BY <1>1, OnlyCalls DEF Others
<1>5. \A d \in Caller : CallSound(d)'
  BY <1>1, <1>4, SteadyKeeps DEF Inv, Others
<1> QED
  BY <1>2, <1>3, <1>4, <1>5 DEF Inv

\* Soundness of a call, at the key it now has.
LEMMA SoundCall ==
  ASSUME NEW c \in Caller, NEW k \in Key, call'[c].key = k,
         RowFits(c, k)', SeenFits(c, k)', NoneYet(c, k)'
  PROVE  CallSound(c)'
  BY DEF CallSound, RowFits, SeenFits, NoneYet

\* A submission begins.
LEMMA BeginInv ==
  ASSUME Inv, NEW c \in Caller, NEW k \in Key, Begin(c, k)
  PROVE  Inv'
<1>1. /\ call'[c].at = "prepare" /\ call'[c].key = k
      /\ Others(c) /\ call' \in [Caller -> CallRecord]
  BY DEF Inv, TypeOK, Begin, Others, Idle, CallRecord
<1>2. lock = None /\ lock' = c /\ call[c].at = "idle" /\ UNCHANGED <<open, row, answer, cluster, past, lost>>
  BY DEF Begin, Tables, Outside
<1>3. TypeOK'
  BY <1>1, <1>2 DEF Inv, TypeOK
<1>4. Locked'
  BY <1>1, <1>2, LockStays, JobsAssumption DEF Inv
<1>5. Named' /\ OneJobPerKey' /\ RowNamesItsJob' /\ LateIsUnknown' /\ Steady
  BY <1>1, <1>2, OnlyCalls DEF Others
<1>6. RowFits(c, k)' /\ SeenFits(c, k)' /\ NoneYet(c, k)'
  BY <1>1 DEF RowFits, SeenFits, NoneYet, Submitting, Asking
<1>7. \A d \in Caller : CallSound(d)'
  BY <1>1, <1>5, <1>6, SoundCall, SteadyKeeps DEF Inv, Others
<1> QED
  BY <1>3, <1>4, <1>5, <1>7 DEF Inv

\* A refresh or a cancellation begins, for the job of the row.
LEMMA AskInv ==
  ASSUME Inv, NEW c \in Caller, NEW k \in Key, Refresh(c, k) \/ Cancel(c, k)
  PROVE  Inv'
<1>1. PICK at \in {"query", "scancel"} :
         call' = [call EXCEPT ![c] = [Idle EXCEPT !.at = at, !.key = k, !.sid = row[k].sid]]
  BY DEF Refresh, Cancel
<1>2. row[k].sid # None /\ call[c].at = "idle" /\ UNCHANGED <<open, row, answer, lock, cluster, past, lost>>
  BY DEF Refresh, Cancel, Tables, Outside
<1>3. row[k].sid \in Job
  BY <1>2 DEF Inv, TypeOK, RowRecord
<1>4. /\ call'[c].at = at /\ call'[c].key = k /\ call'[c].sid = row[k].sid
      /\ Others(c) /\ call' \in [Caller -> CallRecord]
  BY <1>1, <1>3 DEF Inv, TypeOK, Others, Idle, CallRecord
<1>5. TypeOK'
  BY <1>2, <1>4 DEF Inv, TypeOK
<1>6. Locked'
  BY <1>2, <1>4 DEF Inv, Locked, Others, Submitting
<1>7. Named' /\ OneJobPerKey' /\ RowNamesItsJob' /\ LateIsUnknown' /\ Steady
  BY <1>2, <1>4, OnlyCalls DEF Others
<1>8. row[k].sid = answer[k]
  BY DEF Inv, RowNamesItsJob
<1>9. RowFits(c, k)' /\ SeenFits(c, k)' /\ NoneYet(c, k)'
  BY <1>2, <1>4, <1>8 DEF RowFits, SeenFits, NoneYet, Submitting, Asking
<1>10. \A d \in Caller : CallSound(d)'
  BY <1>4, <1>7, <1>9, SoundCall, SteadyKeeps DEF Inv, Others
<1> QED
  BY <1>5, <1>6, <1>7, <1>10 DEF Inv

-----------------------------------------------------------------------------
(* Submissions *)

\* A command that may still run is not met by a submission that has found the
\* outcome of its key to be certain.
LEMMA NoneLate ==
  ASSUME Inv, NEW c \in Caller, call[c].at \in Submitting \ {"fail"},
         NEW k \in Key \ lost, row[k].state # "UNKNOWN", NEW j \in Job, cluster[j].name = k
  PROVE  cluster[j].state # "late"
<1>1. \A d \in Caller : call[d].at # "fail"
  BY DEF Inv, Locked, Submitting
<1> QED
  BY <1>1 DEF Inv, LateIsUnknown, Uncertain

\* Where a search lists a job, no command of its key may still run.
LEMMA ListedNotLate ==
  ASSUME Inv, NEW k \in Key \ lost, NEW i \in Visible(k), NEW j \in Job, cluster[j].name = k
  PROVE  cluster[j].state # "late"
<1>1. i = j \/ j \in past
  BY DEF Inv, OneJobPerKey, Visible, Accepted
<1>2. cluster[i].state # "late" /\ (j \in past => cluster[j].state # "late")
  BY DEF Inv, TypeOK, Visible, Accepted, Active, Ended, Pending, Running
<1> QED
  BY <1>1, <1>2

\* The lock of a submission that goes on.
LEMMA LockKept ==
  ASSUME Inv, NEW c \in Caller, call[c].at \in Submitting, Others(c), lock' = lock
  PROVE  Locked'
  BY DEF Inv, Locked, Others

LEMMA PrepareInv ==
  ASSUME Inv, NEW c \in Caller, Prepare(c)
  PROVE  Inv'
<1> DEFINE k == call[c].key
<1>1. call[c].at = "prepare" /\ k \in Key /\ answer[k] = None
  BY DEF Prepare, Inv, CallSound
<1>2. CASE /\ row[k].state \in Retryable
           /\ row' = [row EXCEPT ![k].state = "SUBMITTING"]
           /\ Goes(c, "find", None, "")
           /\ UNCHANGED <<open, answer, lock, cluster, past, lost>>
  <2>1. [at |-> "find", key |-> k, sid |-> None, seen |-> ""] \in CallRecord
    BY <1>1 DEF CallRecord
  <2>2. TypeOK /\ Goes(c, "find", None, "")
    BY <1>2 DEF Inv
  <2>3. /\ call'[c].at = "find" /\ call'[c].key = k /\ Others(c)
        /\ call' \in [Caller -> CallRecord]
    BY <2>1, <2>2, GoesCall
  <2>4. row[k].state # "UNKNOWN"
    BY <1>2 DEF Retryable
  <2>5. /\ row'[k].state = "SUBMITTING"
        /\ \A i \in Key : row'[i].sid = row[i].sid /\ (i # k => row'[i] = row[i])
        /\ row' \in [Key -> RowRecord]
    BY <1>1, <1>2 DEF Inv, TypeOK, RowRecord
  <2>6. TypeOK'
    BY <1>2, <2>3, <2>5 DEF Inv, TypeOK
  <2>7. Locked'
    BY <1>1, <1>2, <2>3, LockKept DEF Submitting
  <2>8. Named' /\ OneJobPerKey'
    BY <1>2 DEF Inv, Named, OneJobPerKey
  <2>9. RowNamesItsJob'
    BY <1>2, <2>5 DEF Inv, RowNamesItsJob, Accepted
  <2>10. \A i \in Key, j \in Job : i \notin lost /\ cluster[j].state = "late" /\ cluster[j].name = i => i # k
    BY <1>1, <2>4, NoneLate DEF Submitting
  <2>11. \A d \in Caller : call[d].at = "fail" => call'[d] = call[d]
    BY <1>1, <2>3 DEF Others
  <2>12. LateIsUnknown'
    BY <1>2, <2>5, <2>10, <2>11, LateStays DEF Inv
  <2>13. RowFits(c, k)' /\ SeenFits(c, k)' /\ NoneYet(c, k)'
    BY <1>1, <1>2, <2>3, <2>5 DEF RowFits, SeenFits, NoneYet, Asking
  <2>14. CallSound(c)'
    BY <1>1, <2>3, <2>13, SoundCall
  <2>15. \A d \in Caller : d # c => CallSound(d)'
    BY <1>1, <1>2, <2>3, SubmissionKeeps, JobsAssumption DEF Submitting
  <2> QED
    BY <2>6, <2>7, <2>8, <2>9, <2>12, <2>14, <2>15 DEF Inv
<1>3. CASE /\ row[k].state = "UNKNOWN"
           /\ Goes(c, "recover", None, "")
           /\ UNCHANGED <<open, row, answer, lock, cluster, past, lost>>
  <2>1. [at |-> "recover", key |-> k, sid |-> None, seen |-> ""] \in CallRecord
    BY <1>1 DEF CallRecord
  <2>2. call'[c].at = "recover" /\ call'[c].key = k
    BY <1>3, GoesCall DEF Inv
  <2>3. RowFits(c, k)' /\ SeenFits(c, k)' /\ NoneYet(c, k)'
    BY <1>1, <1>3, <2>2 DEF RowFits, SeenFits, NoneYet, Asking
  <2>4. CallSound(c)'
    BY <1>1, <2>2, <2>3, SoundCall
  <2> QED
    BY <1>1, <1>3, <2>1, <2>4, GoInv DEF Submitting
<1> QED
  BY <1>2, <1>3 DEF Prepare, Outside

LEMMA HitsInv ==
  ASSUME Inv, NEW c \in Caller, Hits(c)
  PROVE  Inv'
<1> DEFINE k == call[c].key
<1>1. /\ call[c].at \in {"find", "recover"} /\ k \in Key /\ answer[k] = None
      /\ UNCHANGED <<open, row, answer, lock, cluster, past, lost>>
  BY DEF Hits, Tables, Outside, Inv, CallSound, RowFits, Submitting
<1>2. PICK j \in Visible(k) : Goes(c, "complete", j, cluster[j].state)
  BY DEF Hits
<1>3. j \in Job /\ j \in Accepted(k) /\ cluster[j].state \in Active \cup Ended
  BY DEF Visible, Accepted
<1>4. [at |-> "complete", key |-> k, sid |-> j, seen |-> cluster[j].state] \in CallRecord
  BY <1>1, <1>3 DEF CallRecord
<1>5. /\ call'[c].at = "complete" /\ call'[c].key = k /\ call'[c].sid = j
      /\ call'[c].seen = cluster[j].state
  BY <1>2, GoesCall DEF Inv
<1>6. RowFits(c, k)' /\ SeenFits(c, k)' /\ NoneYet(c, k)'
  <2>1. RowFits(c, k)' /\ SeenFits(c, k)'
    BY <1>1, <1>3, <1>5 DEF RowFits, SeenFits, Asking, Accepted
  <2>2. NoneYet(c, k)'
    BY <1>1, <1>5, ListedNotLate DEF NoneYet
  <2> QED
    BY <2>1, <2>2
<1>7. CallSound(c)'
  BY <1>1, <1>5, <1>6, SoundCall
<1> QED
  BY <1>1, <1>2, <1>4, <1>7, GoInv DEF Submitting

LEMMA MissesInv ==
  ASSUME Inv, NEW c \in Caller, Misses(c)
  PROVE  Inv'
<1> DEFINE k == call[c].key
<1>1. /\ call[c].at \in {"find", "recover"} /\ k \in Key /\ answer[k] = None
      /\ Visible(k) = {}
      /\ UNCHANGED <<open, row, answer, cluster, past, lost>>
  BY DEF Misses, Tables, Outside, Inv, CallSound, RowFits, Submitting
<1>2. CASE call[c].at = "find" /\ Goes(c, "sbatch", None, "") /\ UNCHANGED lock
  <2>1. row[k].state = "SUBMITTING"
    BY <1>1, <1>2 DEF Inv, CallSound, RowFits
  <2>2. [at |-> "sbatch", key |-> k, sid |-> None, seen |-> ""] \in CallRecord
    BY <1>1 DEF CallRecord
  <2>3. call'[c].at = "sbatch" /\ call'[c].key = k
    BY <1>2, GoesCall DEF Inv
  <2>4. ASSUME k \notin lost, NEW j \in Job, cluster[j].name = k PROVE j \in past
    <3>1. cluster[j].state # "late"
      BY <1>1, <1>2, <2>1, <2>4, NoneLate DEF Submitting
    <3>2. cluster[j].state # "free"
      BY <1>1, <2>4, JobsAssumption DEF Inv, Named
    <3>3. j \in Accepted(k)
      BY <2>4, <3>1, <3>2 DEF Inv, TypeOK, JobRecord, Accepted
    <3> QED
      BY <1>1, <3>3 DEF Visible
  <2>5. RowFits(c, k)' /\ SeenFits(c, k)' /\ NoneYet(c, k)'
    BY <1>1, <2>1, <2>3, <2>4 DEF RowFits, SeenFits, NoneYet, Asking
  <2>6. CallSound(c)'
    BY <1>1, <2>3, <2>5, SoundCall
  <2> QED
    BY <1>1, <1>2, <2>2, <2>6, GoInv DEF Submitting
<1>3. CASE Returns(c)
  BY <1>1, <1>3, ReturnInv
<1> QED
  BY <1>2, <1>3 DEF Misses

\* A submission fails without a trace at the scheduler.
LEMMA FailsInv ==
  ASSUME Inv, NEW c \in Caller, call[c].at \in {"find", "sbatch"},
         NEW s \in {"UNKNOWN", "ACCESS_REQUIRED", "FAILED"}, Goes(c, "fail", None, s),
         UNCHANGED <<open, row, answer, lock, cluster, past, lost>>
  PROVE  Inv'
<1> DEFINE k == call[c].key
<1>1. k \in Key /\ answer[k] = None /\ row[k].state = "SUBMITTING"
  BY DEF Inv, CallSound, RowFits, Submitting
<1>2. [at |-> "fail", key |-> k, sid |-> None, seen |-> s] \in CallRecord
  BY <1>1 DEF CallRecord, Ended
<1>3. call'[c].at = "fail" /\ call'[c].key = k /\ call'[c].seen = s
  BY GoesCall DEF Inv
<1>4. RowFits(c, k)' /\ SeenFits(c, k)' /\ NoneYet(c, k)'
  BY <1>1, <1>3 DEF RowFits, SeenFits, NoneYet, Asking
<1>5. CallSound(c)'
  BY <1>1, <1>3, <1>4, SoundCall
<1> QED
  BY <1>2, <1>5, GoInv DEF Submitting

LEMMA SearchErrsInv ==
  ASSUME Inv, NEW c \in Caller, SearchErrs(c)
  PROVE  Inv'
<1>1. call[c].at \in {"find", "recover"} /\ UNCHANGED <<open, row, answer, cluster, past, lost>>
  BY DEF SearchErrs, Tables, Outside
<1>2. CASE Returns(c)
  BY <1>1, <1>2, ReturnInv
<1>3. CASE /\ call[c].at = "find" /\ UNCHANGED lock
           /\ \E s \in {"ACCESS_REQUIRED", "FAILED"} : Goes(c, "fail", None, s)
  BY <1>1, <1>3, FailsInv
<1> QED
  BY <1>2, <1>3 DEF SearchErrs

LEMMA RefusedInv ==
  ASSUME Inv, NEW c \in Caller, Refused(c)
  PROVE  Inv'
  BY FailsInv DEF Refused, Tables, Outside

\* What is known of a call that runs sbatch, and of the numbers it may be given.
LEMMA AtSbatch ==
  ASSUME Inv, NEW c \in Caller, call[c].at = "sbatch"
  PROVE  /\ call[c].key \in Key /\ answer[call[c].key] = None
         /\ row[call[c].key].state = "SUBMITTING"
         /\ call[c].key \notin lost => \A j \in Job : cluster[j].name = call[c].key => j \in past
         /\ \A d \in Caller : call[d].at # "fail"
         /\ \A j \in Free : cluster[j].name = None /\ \A k \in Key : j \notin Accepted(k)
<1>1. /\ call[c].key \in Key /\ answer[call[c].key] = None
      /\ row[call[c].key].state = "SUBMITTING"
      /\ call[c].key \notin lost => \A j \in Job : cluster[j].name = call[c].key => j \in past
  BY DEF Inv, CallSound, RowFits, NoneYet, Submitting
<1>2. \A d \in Caller : call[d].at # "fail"
  BY DEF Inv, Locked, Submitting
<1>3. \A j \in Free : cluster[j].name = None /\ \A k \in Key : j \notin Accepted(k)
  BY JobsAssumption DEF Free, Inv, Named, Accepted
<1> QED
  BY <1>1, <1>2, <1>3

\* A number gets a name: it is the only one of its key, unless a command was lost.
LEMMA EnteredKeeps ==
  ASSUME Inv, NEW k \in Key, NEW j \in Free, NEW s \in {"PENDING", "late"}, Entered(j, k, s),
         lost \subseteq lost', k \notin lost' => \A i \in Job : cluster[i].name = k => i \in past,
         UNCHANGED <<row, answer, past>>
  PROVE  /\ cluster' \in [Job -> JobRecord] /\ Named' /\ OneJobPerKey' /\ RowNamesItsJob'
         /\ cluster'[j].name = k /\ cluster'[j].state = s
         /\ \A i \in Job : i # j => cluster'[i] = cluster[i]
         /\ \A q \in Key : Accepted(q) \subseteq Accepted(q)'
         /\ past' \subseteq {i \in Job : cluster'[i].state \in Ended}
<1>1. j \in Job /\ cluster[j].state = "free"
  BY DEF Free
<1>0. j \notin past
  BY <1>1 DEF Inv, TypeOK, Ended
<1>2. /\ cluster' \in [Job -> JobRecord]
      /\ cluster'[j].name = k /\ cluster'[j].state = s
      /\ \A i \in Job : i # j => cluster'[i] = cluster[i]
  BY <1>1 DEF Inv, TypeOK, JobRecord, Entered, Active, Pending
<1>3. Named'
  BY <1>2 DEF Inv, Named
<1>4. OneJobPerKey'
  BY <1>2 DEF Inv, OneJobPerKey
<1>5. \A q \in Key : Accepted(q) \subseteq Accepted(q)'
  BY <1>1, <1>2 DEF Accepted, Active, Ended, Pending, Running
<1>6. RowNamesItsJob'
  <2> SUFFICES ASSUME NEW q \in Key
               PROVE  row[q].sid = answer[q] /\ (answer[q] # None => answer[q] \in Accepted(q)')
    BY DEF RowNamesItsJob, Accepted
  <2> QED
    BY <1>5 DEF Inv, RowNamesItsJob
<1>7. past' \subseteq {i \in Job : cluster'[i].state \in Ended}
  BY <1>0, <1>2 DEF Inv, TypeOK
<1> QED
  BY <1>2, <1>3, <1>4, <1>5, <1>6, <1>7

LEMMA AcceptsInv ==
  ASSUME Inv, NEW c \in Caller, Accepts(c)
  PROVE  Inv'
<1> DEFINE k == call[c].key
<1>1. call[c].at = "sbatch" /\ UNCHANGED <<open, row, answer, lock, past, lost>>
  BY DEF Accepts, Tables
<1>2. /\ k \in Key /\ answer[k] = None /\ row[k].state = "SUBMITTING"
      /\ k \notin lost => \A j \in Job : cluster[j].name = k => j \in past
      /\ \A d \in Caller : call[d].at # "fail"
  BY <1>1, AtSbatch
<1>3. PICK j \in Free :
         /\ Entered(j, k, "PENDING")
         /\ \/ Goes(c, "complete", j, "SUBMITTED")
            \/ \E s \in {"UNKNOWN", "ACCESS_REQUIRED"} : Goes(c, "fail", None, s)
  BY DEF Accepts
<1>4. j \in Job
  BY DEF Free
<1>5. /\ cluster' \in [Job -> JobRecord] /\ Named' /\ OneJobPerKey' /\ RowNamesItsJob'
      /\ cluster'[j].name = k /\ cluster'[j].state = "PENDING"
      /\ \A i \in Job : i # j => cluster'[i] = cluster[i]
      /\ past' \subseteq {i \in Job : cluster'[i].state \in Ended}
  BY <1>1, <1>2, <1>3, EnteredKeeps
<1>6. PICK at \in {"complete", "fail"}, sid \in Job \cup {None},
          seen \in {"SUBMITTED", "UNKNOWN", "ACCESS_REQUIRED"} :
         /\ Goes(c, at, sid, seen)
         /\ at = "complete" => sid = j /\ seen = "SUBMITTED"
         /\ at = "fail" => seen \in {"UNKNOWN", "ACCESS_REQUIRED"}
  BY <1>3, <1>4
<1>7. [at |-> at, key |-> k, sid |-> sid, seen |-> seen] \in CallRecord
  BY <1>2 DEF CallRecord
<1>8. TypeOK /\ Goes(c, at, sid, seen)
  BY <1>6 DEF Inv
<1>9. /\ call'[c].at = at /\ call'[c].key = k /\ call'[c].sid = sid /\ call'[c].seen = seen
      /\ Others(c) /\ call' \in [Caller -> CallRecord]
  BY <1>7, <1>8, GoesCall
<1>10. TypeOK'
  BY <1>1, <1>5, <1>9 DEF Inv, TypeOK
<1>11. Locked'
  BY <1>1, <1>9, LockKept DEF Submitting
<1>12. LateIsUnknown'
  BY <1>1, <1>2, <1>5, LateStays DEF Inv
<1>13. RowFits(c, k)' /\ SeenFits(c, k)' /\ NoneYet(c, k)'
  <2>1. RowFits(c, k)' /\ SeenFits(c, k)'
    BY <1>1, <1>2, <1>4, <1>5, <1>6, <1>9 DEF RowFits, SeenFits, Accepted, Asking, Active, Pending
  <2>2. ASSUME k \notin lost', NEW i \in Job, cluster'[i].name = k PROVE cluster'[i].state # "late"
    <3>1. CASE i = j
      BY <1>5, <3>1
    <3>2. CASE i # j
      <4>1. cluster'[i] = cluster[i] /\ i \in past
        BY <1>1, <1>2, <1>5, <2>2, <3>2
      <4> QED
        BY <4>1 DEF Inv, TypeOK, Ended
    <3> QED
      BY <3>1, <3>2
  <2>3. NoneYet(c, k)'
    BY <1>6, <1>9, <2>2 DEF NoneYet
  <2> QED
    BY <2>1, <2>3
<1>14. CallSound(c)'
  BY <1>2, <1>9, <1>13, SoundCall
<1>15. \A d \in Caller : d # c => CallSound(d)'
  BY <1>1, <1>9, SubmissionKeeps, JobsAssumption DEF Submitting
<1> QED
  BY <1>5, <1>10, <1>11, <1>12, <1>14, <1>15 DEF Inv

LEMMA LosesInv ==
  ASSUME Inv, NEW c \in Caller, Loses(c)
  PROVE  Inv'
<1> DEFINE k == call[c].key
<1>1. call[c].at = "sbatch" /\ UNCHANGED <<open, row, answer, lock, past>>
  BY DEF Loses, Tables
<1>2. /\ k \in Key /\ answer[k] = None /\ row[k].state = "SUBMITTING"
      /\ k \notin lost => \A j \in Job : cluster[j].name = k => j \in past
      /\ \A d \in Caller : call[d].at # "fail"
  BY <1>1, AtSbatch
<1>3. PICK j \in Free, s \in {"UNKNOWN", "ACCESS_REQUIRED"} :
         /\ Entered(j, k, "late")
         /\ Goes(c, "fail", None, s)
         /\ lost' = IF s = "UNKNOWN" THEN lost ELSE lost \cup {k}
  BY DEF Loses
<1>4. j \in Job
  BY DEF Free
<1>5. lost \subseteq lost' /\ lost' \subseteq lost \cup {k} /\ (s # "UNKNOWN" => k \in lost')
  BY <1>3
<1>6. /\ cluster' \in [Job -> JobRecord] /\ Named' /\ OneJobPerKey' /\ RowNamesItsJob'
      /\ cluster'[j].name = k
      /\ \A i \in Job : i # j => cluster'[i] = cluster[i]
      /\ past' \subseteq {i \in Job : cluster'[i].state \in Ended}
  BY <1>1, <1>2, <1>3, <1>5, EnteredKeeps
<1>7. [at |-> "fail", key |-> k, sid |-> None, seen |-> s] \in CallRecord
  BY <1>2 DEF CallRecord
<1>8. TypeOK /\ Goes(c, "fail", None, s)
  BY <1>3 DEF Inv
<1>9. /\ call'[c].at = "fail" /\ call'[c].key = k /\ call'[c].seen = s
      /\ Others(c) /\ call' \in [Caller -> CallRecord]
  BY <1>7, <1>8, GoesCall
<1>10. TypeOK'
  BY <1>1, <1>2, <1>5, <1>6, <1>9 DEF Inv, TypeOK
<1>11. Locked'
  BY <1>1, <1>9, LockKept DEF Submitting
<1>12. LateIsUnknown'
  <2> SUFFICES ASSUME NEW q \in Key, q \notin lost', NEW i \in Job,
                      cluster'[i].state = "late", cluster'[i].name = q
               PROVE  answer[q] = None /\ Uncertain(q)'
    BY <1>1 DEF LateIsUnknown
  <2>1. CASE q = k
    BY <1>2, <1>5, <1>9, <2>1 DEF Uncertain
  <2>2. CASE q # k
    <3>1. answer[q] = None /\ Uncertain(q)
      BY <1>2, <1>5, <1>6, <2>2 DEF Inv, LateIsUnknown
    <3>2. row[q].state = "UNKNOWN"
      BY <1>2, <3>1 DEF Uncertain
    <3> QED
      BY <1>1, <3>1, <3>2 DEF Uncertain
  <2> QED
    BY <2>1, <2>2
<1>13. RowFits(c, k)' /\ SeenFits(c, k)' /\ NoneYet(c, k)'
  BY <1>1, <1>2, <1>9 DEF RowFits, SeenFits, NoneYet, Asking
<1>14. CallSound(c)'
  BY <1>2, <1>9, <1>13, SoundCall
<1>15. \A d \in Caller : d # c => CallSound(d)'
  BY <1>1, <1>9, SubmissionKeeps, JobsAssumption DEF Submitting
<1> QED
  BY <1>6, <1>10, <1>11, <1>12, <1>14, <1>15 DEF Inv

LEMMA RecordFailureInv ==
  ASSUME Inv, NEW c \in Caller, RecordFailure(c)
  PROVE  Inv'
<1> DEFINE k == call[c].key
<1>1. /\ call[c].at = "fail" /\ UNCHANGED <<open, answer, cluster, past, lost>>
      /\ row' = [row EXCEPT ![k].state = call[c].seen] /\ Returns(c)
  BY DEF RecordFailure, Outside
<1>2. k \in Key /\ call[c].seen \in {"UNKNOWN", "ACCESS_REQUIRED", "FAILED"}
      /\ row[k].state = "SUBMITTING"
  BY <1>1 DEF Inv, CallSound, SeenFits, RowFits
<1>3. /\ row'[k].state = call[c].seen
      /\ \A i \in Key : row'[i].sid = row[i].sid /\ (i # k => row'[i] = row[i])
      /\ row' \in [Key -> RowRecord]
  BY <1>1, <1>2 DEF Inv, TypeOK, RowRecord, Ended
<1>4. /\ call'[c].at = "idle" /\ Others(c) /\ call' \in [Caller -> CallRecord]
      /\ lock' \in Caller \cup {None} /\ (lock' = lock \/ lock = c)
  BY <1>1, ReturnsCall DEF Inv
<1>5. TypeOK'
  BY <1>1, <1>3, <1>4 DEF Inv, TypeOK
<1>6. Locked'
  BY <1>4, LockStays, JobsAssumption DEF Inv, Submitting
<1>7. Named' /\ OneJobPerKey'
  BY <1>1 DEF Inv, Named, OneJobPerKey
<1>8. RowNamesItsJob'
  BY <1>1, <1>3 DEF Inv, RowNamesItsJob, Accepted
<1>9. \A d \in Caller : call[d].at = "fail" => d = c
  BY <1>1 DEF Inv, Locked, Submitting
<1>10. LateIsUnknown'
  <2> SUFFICES ASSUME NEW q \in Key \ lost, NEW i \in Job, cluster[i].state = "late", cluster[i].name = q
               PROVE  answer[q] = None /\ row'[q].state = "UNKNOWN"
    BY <1>1 DEF LateIsUnknown, Uncertain
  <2>1. /\ answer[q] = None
        /\ \/ row[q].state = "UNKNOWN"
           \/ \E d \in Caller : call[d].at = "fail" /\ call[d].key = q /\ call[d].seen = "UNKNOWN"
    BY DEF Inv, LateIsUnknown, Uncertain
  <2> QED
    BY <1>2, <1>3, <1>9, <2>1
<1>11. CallSound(c)'
  BY <1>4 DEF CallSound
<1>12. \A d \in Caller : d # c => CallSound(d)'
  BY <1>1, <1>4, SubmissionKeeps, JobsAssumption DEF Submitting
<1> QED
  BY <1>5, <1>6, <1>7, <1>8, <1>10, <1>11, <1>12 DEF Inv

LEMMA CompleteInv ==
  ASSUME Inv, NEW c \in Caller, Complete(c)
  PROVE  Inv'
<1> DEFINE k == call[c].key
<1>1. /\ call[c].at = "complete" /\ UNCHANGED <<open, cluster, past, lost>>
      /\ row' = [row EXCEPT ![k] = [state |-> BrokerState(call[c].seen), sid |-> call[c].sid]]
      /\ answer' = [answer EXCEPT ![k] = call[c].sid] /\ Returns(c)
  BY DEF Complete, Outside
<1>2. /\ k \in Key /\ answer[k] = None /\ call[c].sid \in Accepted(k)
      /\ call[c].seen \in {"SUBMITTED"} \cup Active \cup Ended
  BY <1>1 DEF Inv, CallSound, SeenFits, RowFits, Submitting
<1>3. call[c].sid \in Job
  BY <1>2 DEF Accepted
<1>4. BrokerState(call[c].seen) \in {"UNKNOWN", "PENDING", "RUNNING"} \cup Ended
  BY <1>2, BrokerStates
<1>5. /\ row'[k].sid = call[c].sid /\ answer'[k] = call[c].sid
      /\ \A i \in Key : i # k => row'[i] = row[i] /\ answer'[i] = answer[i]
      /\ row' \in [Key -> RowRecord] /\ answer' \in [Key -> Job \cup {None}]
  BY <1>1, <1>2, <1>3, <1>4 DEF Inv, TypeOK, RowRecord
<1>6. /\ call'[c].at = "idle" /\ Others(c) /\ call' \in [Caller -> CallRecord]
      /\ lock' \in Caller \cup {None} /\ (lock' = lock \/ lock = c)
  BY <1>1, ReturnsCall DEF Inv
<1>7. TypeOK'
  BY <1>1, <1>5, <1>6 DEF Inv, TypeOK
<1>8. Locked'
  BY <1>6, LockStays, JobsAssumption DEF Inv, Submitting
<1>9. Named' /\ OneJobPerKey'
  BY <1>1 DEF Inv, Named, OneJobPerKey
<1>10. RowNamesItsJob'
  BY <1>1, <1>2, <1>5 DEF Inv, RowNamesItsJob, Accepted
<1>11. \A d \in Caller : call[d].at # "fail"
  BY <1>1 DEF Inv, Locked, Submitting
<1>12. \A q \in Key \ lost, j \in Job : cluster[j].state = "late" /\ cluster[j].name = q => q # k
  BY <1>1 DEF Inv, CallSound, NoneYet
<1>13. LateIsUnknown'
  BY <1>1, <1>5, <1>11, <1>12, LateStays DEF Inv
<1>14. CallSound(c)'
  BY <1>6 DEF CallSound
<1>15. \A q \in Key : answer[q] # None => answer'[q] = answer[q]
  BY <1>2, <1>5
<1>16. \A d \in Caller : d # c => CallSound(d)'
  BY <1>1, <1>6, <1>15, SubmissionKeeps, JobsAssumption DEF Submitting
<1> QED
  BY <1>7, <1>8, <1>9, <1>10, <1>13, <1>14, <1>16 DEF Inv

-----------------------------------------------------------------------------
(* Refreshes and cancellations *)

\* What a call that asks knows.
LEMMA AtAsking ==
  ASSUME Inv, NEW c \in Caller, call[c].at \in Asking
  PROVE  /\ call[c].key \in Key /\ call[c].sid = answer[call[c].key] /\ answer[call[c].key] # None
         /\ call[c].sid \in Accepted(call[c].key) /\ call[c].sid \in Job
         /\ cluster[call[c].sid].state \in Active \cup Ended
<1>1. call[c].key \in Key /\ call[c].sid = answer[call[c].key] /\ answer[call[c].key] # None
  BY DEF Inv, CallSound, RowFits, Asking
<1>2. call[c].sid \in Accepted(call[c].key)
  BY <1>1 DEF Inv, RowNamesItsJob
<1>3. call[c].sid \in Job /\ cluster[call[c].sid].state \in Active \cup Ended
  BY <1>2 DEF Accepted
<1> QED
  BY <1>1, <1>2, <1>3

\* The state of a row whose job is known is written, and the call returns.
LEMMA WriteStateInv ==
  ASSUME Inv, NEW c \in Caller, call[c].at \in Asking, Returns(c),
         NEW s \in {"UNKNOWN", "PENDING", "RUNNING", "CANCEL_REQUESTED"} \cup Ended,
         row' = [row EXCEPT ![call[c].key].state = s],
         UNCHANGED <<open, answer, cluster, past, lost>>
  PROVE  Inv'
<1> DEFINE k == call[c].key
<1>1. k \in Key /\ answer[k] # None /\ call[c].sid \in Accepted(k)
  BY AtAsking
<1>2. /\ \A i \in Key : row'[i].sid = row[i].sid /\ (i # k => row'[i] = row[i])
      /\ row' \in [Key -> RowRecord]
  BY <1>1 DEF Inv, TypeOK, RowRecord
<1>3. /\ call'[c].at = "idle" /\ Others(c) /\ call' \in [Caller -> CallRecord]
      /\ lock' \in Caller \cup {None} /\ (lock' = lock \/ lock = c)
  BY ReturnsCall DEF Inv
<1>4. TypeOK'
  BY <1>2, <1>3 DEF Inv, TypeOK
<1>5. Locked'
  BY <1>3, LockStays, JobsAssumption DEF Inv, Submitting
<1>6. Named' /\ OneJobPerKey'
  BY DEF Inv, Named, OneJobPerKey
<1>7. RowNamesItsJob'
  BY <1>2 DEF Inv, RowNamesItsJob, Accepted
<1>8. \A q \in Key \ lost, j \in Job : cluster[j].state = "late" /\ cluster[j].name = q => q # k
  BY <1>1 DEF Inv, LateIsUnknown
<1>9. \A d \in Caller : call[d].at = "fail" => call'[d] = call[d]
  BY <1>3 DEF Others, Asking
<1>10. LateIsUnknown'
  BY <1>2, <1>8, <1>9, LateStays DEF Inv
<1>11. Steady
  BY <1>1, <1>2 DEF Steady, Accepted
<1>12. CallSound(c)'
  BY <1>3 DEF CallSound
<1>13. \A d \in Caller : CallSound(d)'
  BY <1>3, <1>11, <1>12, SteadyKeeps DEF Inv, Others
<1> QED
  BY <1>4, <1>5, <1>6, <1>7, <1>10, <1>13 DEF Inv

LEMMA QueryInv ==
  ASSUME Inv, NEW c \in Caller, Query(c)
  PROVE  Inv'
<1> DEFINE k == call[c].key
<1>1. call[c].at = "query" /\ UNCHANGED <<open, row, answer, cluster, past, lost>>
  BY DEF Query, Tables, Outside
<1>2. /\ k \in Key /\ call[c].sid = answer[k] /\ answer[k] # None /\ call[c].sid \in Job
      /\ cluster[call[c].sid].state \in Active \cup Ended
  BY <1>1, AtAsking DEF Asking
<1>3. CASE Returns(c)
  BY <1>1, <1>3, ReturnInv
<1>4. CASE Goes(c, "update", call[c].sid, cluster[call[c].sid].state) /\ UNCHANGED lock
  <2>1. [at |-> "update", key |-> k, sid |-> call[c].sid, seen |-> cluster[call[c].sid].state] \in CallRecord
    BY <1>2 DEF CallRecord
  <2>2. TypeOK /\ Goes(c, "update", call[c].sid, cluster[call[c].sid].state)
    BY <1>4 DEF Inv
  <2>3. /\ call'[c].at = "update" /\ call'[c].key = k /\ call'[c].sid = call[c].sid
        /\ call'[c].seen = cluster[call[c].sid].state
    BY <2>2 DEF TypeOK, Goes, CallRecord
  <2>4. RowFits(c, k)' /\ SeenFits(c, k)' /\ NoneYet(c, k)'
    BY <1>1, <1>2, <2>3 DEF RowFits, SeenFits, NoneYet, Submitting
  <2>5. CallSound(c)'
    BY <1>2, <2>3, <2>4, SoundCall
  <2> QED
    BY <1>1, <1>4, <2>1, <2>2, <2>5, GoInv DEF Submitting
<1> QED
  BY <1>3, <1>4 DEF Query

LEMMA UpdateInv ==
  ASSUME Inv, NEW c \in Caller, Update(c)
  PROVE  Inv'
<1>1. /\ call[c].at = "update" /\ Returns(c) /\ UNCHANGED <<open, answer, cluster, past, lost>>
      /\ row' = [row EXCEPT ![call[c].key].state = BrokerState(call[c].seen)]
  BY DEF Update, Outside
<1>2. call[c].seen \in Active \cup Ended
  BY <1>1 DEF Inv, CallSound, SeenFits
<1>3. BrokerState(call[c].seen) \in {"UNKNOWN", "PENDING", "RUNNING"} \cup Ended
  BY <1>2, BrokerStates
<1> QED
  BY <1>1, <1>3, WriteStateInv DEF Asking

LEMMA RecordCancelInv ==
  ASSUME Inv, NEW c \in Caller, RecordCancel(c)
  PROVE  Inv'
  BY WriteStateInv DEF RecordCancel, Outside, Asking

\* A job changes its state at the scheduler, and stays visible if it was.
LEMMA JobStateKeeps ==
  ASSUME Inv, NEW j \in Job, cluster[j].state \notin {"free"} \cup Ended, NEW s \in Active \cup Ended,
         cluster' = [cluster EXCEPT ![j].state = s],
         UNCHANGED <<row, answer, past, lost>>,
         \A d \in Caller : call[d].at = "fail" => call'[d] = call[d]
  PROVE  /\ cluster' \in [Job -> JobRecord] /\ Named' /\ OneJobPerKey' /\ RowNamesItsJob'
         /\ LateIsUnknown' /\ Steady
         /\ past' \subseteq {i \in Job : cluster'[i].state \in Ended}
<1>1. s # "late" /\ s # "free"
  BY DEF Active, Ended, Pending, Running
<1>2. /\ cluster' \in [Job -> JobRecord]
      /\ cluster'[j].state = s
      /\ \A i \in Job : cluster'[i].name = cluster[i].name /\ (i # j => cluster'[i] = cluster[i])
  BY DEF Inv, TypeOK, JobRecord
<1>3. Named'
  BY <1>1, <1>2 DEF Inv, Named
<1>4. OneJobPerKey'
  BY <1>2 DEF Inv, OneJobPerKey
<1>5. \A q \in Key : Accepted(q) \subseteq Accepted(q)'
  BY <1>2 DEF Accepted
<1>6. RowNamesItsJob'
  <2> SUFFICES ASSUME NEW q \in Key
               PROVE  row[q].sid = answer[q] /\ (answer[q] # None => answer[q] \in Accepted(q)')
    BY DEF RowNamesItsJob, Accepted
  <2> QED
    BY <1>5 DEF Inv, RowNamesItsJob
<1>7. LateIsUnknown'
  BY <1>1, <1>2, LateStays DEF Inv
<1>8. Steady
  BY <1>1, <1>2, <1>5 DEF Steady
<1>9. past' \subseteq {i \in Job : cluster'[i].state \in Ended}
  BY <1>2 DEF Inv, TypeOK
<1> QED
  BY <1>2, <1>3, <1>4, <1>6, <1>7, <1>8, <1>9

LEMMA ScancelInv ==
  ASSUME Inv, NEW c \in Caller, Scancel(c)
  PROVE  Inv'
<1> DEFINE k == call[c].key
           j == call[c].sid
<1>1. call[c].at = "scancel" /\ UNCHANGED <<open, row, answer, past, lost>>
  BY DEF Scancel, Tables
<1>2. /\ k \in Key /\ j = answer[k] /\ answer[k] # None /\ j \in Job
      /\ cluster[j].state \in Active \cup Ended
  BY <1>1, AtAsking DEF Asking
<1>4. /\ Returns(c) \/ (Goes(c, "record", j, "") /\ UNCHANGED lock)
      /\ \/ UNCHANGED cluster
         \/ /\ cluster[j].state \in Active
            /\ cluster' = [cluster EXCEPT ![j].state = "CANCELLED"]
  BY DEF Scancel
<1>5. [at |-> "record", key |-> k, sid |-> j, seen |-> ""] \in CallRecord
  BY <1>2 DEF CallRecord
<1>6. /\ call'[c].at \in {"idle", "record"}
      /\ call'[c].at = "record" => call'[c].key = k /\ call'[c].sid = j
      /\ Others(c) /\ call' \in [Caller -> CallRecord]
      /\ lock' \in Caller \cup {None} /\ (lock' = lock \/ lock = c)
  <2>1. CASE Returns(c)
    BY <2>1, ReturnsCall DEF Inv
  <2>2. CASE Goes(c, "record", j, "") /\ UNCHANGED lock
    <3>1. TypeOK /\ Goes(c, "record", j, "")
      BY <2>2 DEF Inv
    <3>2. lock' \in Caller \cup {None} /\ lock' = lock
      BY <2>2, <3>1 DEF TypeOK
    <3> QED
      BY <1>5, <3>1, <3>2, GoesCall
  <2> QED
    BY <1>4, <2>1, <2>2
<1>7. \A d \in Caller : call[d].at = "fail" => call'[d] = call[d]
  BY <1>1, <1>6 DEF Others
<1>8. /\ cluster' \in [Job -> JobRecord] /\ Named' /\ OneJobPerKey' /\ RowNamesItsJob'
      /\ LateIsUnknown' /\ Steady
      /\ past' \subseteq {i \in Job : cluster'[i].state \in Ended}
  <2>1. CASE UNCHANGED cluster
    <3>1. cluster' \in [Job -> JobRecord] /\ past' \subseteq {i \in Job : cluster'[i].state \in Ended}
      BY <1>1, <2>1 DEF Inv, TypeOK
    <3> QED
      BY <1>1, <1>7, <2>1, <3>1, OnlyCalls
  <2>2. CASE /\ cluster[j].state \in Active
             /\ cluster' = [cluster EXCEPT ![j].state = "CANCELLED"]
    <3>1. cluster[j].state \notin {"free"} \cup Ended
      BY <2>2 DEF Active, Ended, Pending, Running
    <3> QED
      BY <1>1, <1>2, <1>7, <2>2, <3>1, JobStateKeeps DEF Ended
  <2> QED
    BY <1>4, <2>1, <2>2
<1>9. TypeOK'
  BY <1>1, <1>6, <1>8 DEF Inv, TypeOK
<1>10. Locked'
  BY <1>6, LockStays, JobsAssumption DEF Inv, Submitting
<1>11. CallSound(c)'
  <2>1. CASE call'[c].at = "idle"
    BY <2>1 DEF CallSound
  <2>2. CASE call'[c].at = "record"
    <3>1. RowFits(c, k)' /\ SeenFits(c, k)' /\ NoneYet(c, k)'
      BY <1>1, <1>2, <1>6, <2>2 DEF RowFits, SeenFits, NoneYet, Submitting
    <3> QED
      BY <1>2, <1>6, <2>2, <3>1, SoundCall
  <2> QED
    BY <1>6, <2>1, <2>2
<1>12. \A d \in Caller : CallSound(d)'
  BY <1>6, <1>8, <1>11, SteadyKeeps DEF Inv, Others
<1> QED
  BY <1>8, <1>9, <1>10, <1>12 DEF Inv

-----------------------------------------------------------------------------
(* The scheduler, the target and the end of the process *)

LEMMA UpsertTargetInv ==
  ASSUME Inv, NEW o \in BOOLEAN, UpsertTarget(o)
  PROVE  Inv'
<1>1. open' \in BOOLEAN /\ UNCHANGED <<row, answer, lock, call, cluster, past, lost>>
  BY DEF UpsertTarget, Tables, Outside
<1>2. TypeOK' /\ Locked'
  BY <1>1 DEF Inv, TypeOK, Locked
<1>3. Named' /\ OneJobPerKey' /\ RowNamesItsJob' /\ LateIsUnknown' /\ Steady
  BY <1>1, OnlyCalls
<1>4. \A d \in Caller : CallSound(d)'
  BY <1>1, <1>3, SteadyKeeps DEF Inv
<1> QED
  BY <1>2, <1>3, <1>4 DEF Inv

\* A job is let run, or goes on.
LEMMA JobStateInv ==
  ASSUME Inv, NEW j \in Job, cluster[j].state \notin {"free"} \cup Ended, NEW s \in Active \cup Ended,
         cluster' = [cluster EXCEPT ![j].state = s],
         UNCHANGED <<open, row, answer, lock, call, past, lost>>
  PROVE  Inv'
<1>1. /\ cluster' \in [Job -> JobRecord] /\ Named' /\ OneJobPerKey' /\ RowNamesItsJob'
      /\ LateIsUnknown' /\ Steady
      /\ past' \subseteq {i \in Job : cluster'[i].state \in Ended}
  BY JobStateKeeps
<1>2. TypeOK' /\ Locked'
  BY <1>1 DEF Inv, TypeOK, Locked
<1>3. \A d \in Caller : CallSound(d)'
  BY <1>1, SteadyKeeps DEF Inv
<1> QED
  BY <1>1, <1>2, <1>3 DEF Inv

LEMMA LateRunsInv ==
  ASSUME Inv, NEW j \in Job, LateRuns(j)
  PROVE  Inv'
<1>1. "PENDING" \in Active \cup Ended /\ cluster[j].state \notin {"free"} \cup Ended
  BY DEF LateRuns, Active, Pending, Ended
<1> QED
  BY <1>1, JobStateInv DEF LateRuns, Tables

LEMMA JobMovesInv ==
  ASSUME Inv, NEW j \in Job, JobMoves(j)
  PROVE  Inv'
<1>1. cluster[j].state \notin {"free"} \cup Ended
  BY DEF JobMoves, Ended
<1> QED
  BY <1>1, JobStateInv DEF JobMoves, Tables

LEMMA LateDiesInv ==
  ASSUME Inv, NEW j \in Job, LateDies(j)
  PROVE  Inv'
<1>1. /\ cluster[j].state = "late" /\ UNCHANGED <<open, row, answer, lock, call, past, lost>>
      /\ cluster' = [cluster EXCEPT ![j] = [name |-> None, state |-> "free"]]
  BY DEF LateDies, Tables
<1>2. /\ cluster' \in [Job -> JobRecord]
      /\ cluster'[j].name = None /\ cluster'[j].state = "free"
      /\ \A i \in Job : i # j => cluster'[i] = cluster[i]
  BY <1>1 DEF Inv, TypeOK, JobRecord
<1>3. \A k \in Key, i \in Job : cluster'[i].name = k => cluster[i].name = k /\ i # j
  BY <1>2, JobsAssumption
<1>4. Named' /\ OneJobPerKey'
  BY <1>1, <1>2, <1>3 DEF Inv, Named, OneJobPerKey
<1>5. \A q \in Key : Accepted(q) \subseteq Accepted(q)'
  BY <1>1, <1>2 DEF Accepted, Active, Ended, Pending, Running
<1>6. RowNamesItsJob'
  <2> SUFFICES ASSUME NEW q \in Key
               PROVE  row[q].sid = answer[q] /\ (answer[q] # None => answer[q] \in Accepted(q)')
    BY <1>1 DEF RowNamesItsJob, Accepted
  <2> QED
    BY <1>5 DEF Inv, RowNamesItsJob
<1>7. LateIsUnknown'
  BY <1>1, <1>2, <1>3, LateStays DEF Inv
<1>8. Steady
  BY <1>1, <1>2, <1>3, <1>5 DEF Steady
<1>11. past' \subseteq {i \in Job : cluster'[i].state \in Ended}
  <2>1. j \notin past
    BY <1>1 DEF Inv, TypeOK, Ended
  <2> QED
    BY <1>1, <1>2, <2>1 DEF Inv, TypeOK
<1>9. TypeOK' /\ Locked'
  BY <1>1, <1>2, <1>11 DEF Inv, TypeOK, Locked
<1>10. \A d \in Caller : CallSound(d)'
  BY <1>1, <1>8, SteadyKeeps DEF Inv
<1> QED
  BY <1>4, <1>6, <1>7, <1>9, <1>10 DEF Inv

LEMMA MidnightInv ==
  ASSUME Inv, Midnight
  PROVE  Inv'
<1>1. /\ UNCHANGED <<open, row, answer, lock, call, cluster, lost>>
      /\ past' = {j \in Job : cluster[j].state \in Ended} /\ past \subseteq past'
  BY DEF Midnight, Tables, Inv, TypeOK
<1>2. TypeOK' /\ Locked' /\ Named'
  BY <1>1 DEF Inv, TypeOK, Locked, Named
<1>3. OneJobPerKey'
  BY <1>1 DEF Inv, OneJobPerKey
<1>4. RowNamesItsJob'
  BY <1>1 DEF Inv, RowNamesItsJob, Accepted
<1>5. LateIsUnknown'
  BY <1>1, LateStays DEF Inv
<1>6. Steady
  BY <1>1 DEF Steady, Accepted
<1>7. \A d \in Caller : CallSound(d)'
  BY <1>1, <1>6, SteadyKeeps DEF Inv
<1> QED
  BY <1>2, <1>3, <1>4, <1>5, <1>7 DEF Inv

LEMMA CrashInv ==
  ASSUME Inv, Crash
  PROVE  Inv'
<1>1. /\ UNCHANGED <<open, row, answer, past>> /\ lock' = None
      /\ call' = [c \in Caller |-> Idle]
      /\ lost' = lost \cup {k \in Key : /\ row[k].state = "SUBMITTING"
                                       /\ \E j \in Job : cluster'[j] = [name |-> k, state |-> "late"]}
  BY DEF Crash, Tables
<1>2. /\ call' \in [Caller -> CallRecord] /\ \A c \in Caller : call'[c].at = "idle"
      /\ lost \subseteq lost' /\ lost' \subseteq Key
  BY <1>1 DEF Inv, TypeOK, Idle, CallRecord
<1>3. Locked' /\ \A d \in Caller : CallSound(d)'
  BY <1>2 DEF Locked, CallSound, Submitting
<1>4. \A k \in Key \ lost', j \in Job :
         cluster[j].state = "late" /\ cluster[j].name = k /\ cluster'[j] = cluster[j]
         => answer[k] = None /\ row[k].state = "UNKNOWN"
  <2> SUFFICES ASSUME NEW k \in Key \ lost', NEW j \in Job, cluster[j].state = "late",
                      cluster[j].name = k, cluster'[j] = cluster[j]
               PROVE  answer[k] = None /\ row[k].state = "UNKNOWN"
    OBVIOUS
  <2>0. answer[k] = None /\ Uncertain(k)
    BY <1>2 DEF Inv, LateIsUnknown
  <2> SUFFICES ASSUME row[k].state # "UNKNOWN" PROVE FALSE
    BY <2>0
  <2>1. PICK c \in Caller : call[c].at = "fail" /\ call[c].key = k
    BY <2>0 DEF Uncertain
  <2>2. row[k].state = "SUBMITTING"
    BY <2>1 DEF Inv, CallSound, RowFits
  <2>3. cluster'[j] = [name |-> k, state |-> "late"]
    BY DEF Inv, TypeOK, JobRecord
  <2> QED
    BY <1>1, <2>2, <2>3
<1>5. CASE UNCHANGED cluster
  <2>1. TypeOK'
    BY <1>1, <1>2, <1>5 DEF Inv, TypeOK
  <2>2. Named' /\ OneJobPerKey' /\ RowNamesItsJob'
    BY <1>1, <1>2, <1>5 DEF Inv, Named, OneJobPerKey, RowNamesItsJob, Accepted
  <2>3. LateIsUnknown'
    BY <1>1, <1>4, <1>5 DEF LateIsUnknown, Uncertain
  <2> QED
    BY <1>3, <2>1, <2>2, <2>3 DEF Inv
<1>6. ASSUME NEW c \in Caller, NEW j \in Free, call[c].at = "sbatch", Entered(j, call[c].key, "late")
      PROVE  Inv'
  <2> DEFINE k == call[c].key
  <2>1. /\ k \in Key /\ row[k].state = "SUBMITTING"
        /\ k \notin lost => \A i \in Job : cluster[i].name = k => i \in past
    BY <1>6, AtSbatch
  <2>2. k \notin lost' => \A i \in Job : cluster[i].name = k => i \in past
    BY <1>2, <2>1
  <2>3. /\ cluster' \in [Job -> JobRecord] /\ Named' /\ OneJobPerKey' /\ RowNamesItsJob'
        /\ cluster'[j].name = k /\ cluster'[j].state = "late"
        /\ \A i \in Job : i # j => cluster'[i] = cluster[i]
        /\ past' \subseteq {i \in Job : cluster'[i].state \in Ended}
    BY <1>1, <1>2, <1>6, <2>1, <2>2, EnteredKeeps
  <2>4. j \in Job
    BY DEF Free
  <2>5. cluster'[j] = [name |-> k, state |-> "late"]
    BY <2>3, <2>4 DEF JobRecord
  <2>6. k \in lost'
    BY <1>1, <2>1, <2>4, <2>5
  <2>7. LateIsUnknown'
    BY <1>1, <1>4, <2>3, <2>6 DEF LateIsUnknown, Uncertain
  <2>8. TypeOK'
    BY <1>1, <1>2, <2>3 DEF Inv, TypeOK
  <2> QED
    BY <1>3, <2>3, <2>7, <2>8 DEF Inv
<1> QED
  BY <1>5, <1>6 DEF Crash

-----------------------------------------------------------------------------

LEMMA StutterInv ==
  ASSUME Inv, UNCHANGED vars
  PROVE  Inv'
<1>1. UNCHANGED <<open, row, answer, lock, call, cluster, past, lost>>
  BY DEF vars
<1>2. TypeOK' /\ Locked'
  BY <1>1 DEF Inv, TypeOK, Locked
<1>3. Named' /\ OneJobPerKey' /\ RowNamesItsJob' /\ LateIsUnknown' /\ Steady
  BY <1>1, OnlyCalls
<1>4. \A d \in Caller : CallSound(d)'
  BY <1>1, <1>3, SteadyKeeps DEF Inv
<1> QED
  BY <1>2, <1>3, <1>4 DEF Inv

LEMMA ReplayInv ==
  ASSUME Inv, NEW c \in Caller, Replay(c)
  PROVE  Inv'
  BY ReturnInv DEF Replay, Tables, Outside

LEMMA CallStepInv ==
  ASSUME Inv, NEW c \in Caller, CallStep(c)
  PROVE  Inv'
<1>1. CASE Replay(c)        BY <1>1, ReplayInv
<1>2. CASE Prepare(c)       BY <1>2, PrepareInv
<1>3. CASE Hits(c)          BY <1>3, HitsInv
<1>4. CASE Misses(c)        BY <1>4, MissesInv
<1>5. CASE SearchErrs(c)    BY <1>5, SearchErrsInv
<1>6. CASE Accepts(c)       BY <1>6, AcceptsInv
<1>7. CASE Loses(c)         BY <1>7, LosesInv
<1>8. CASE Refused(c)       BY <1>8, RefusedInv
<1>9. CASE RecordFailure(c) BY <1>9, RecordFailureInv
<1>10. CASE Complete(c)     BY <1>10, CompleteInv
<1>11. CASE Query(c)        BY <1>11, QueryInv
<1>12. CASE Update(c)       BY <1>12, UpdateInv
<1>13. CASE Scancel(c)      BY <1>13, ScancelInv
<1>14. CASE RecordCancel(c) BY <1>14, RecordCancelInv
<1> QED
  BY <1>1, <1>2, <1>3, <1>4, <1>5, <1>6, <1>7, <1>8, <1>9, <1>10, <1>11, <1>12, <1>13, <1>14
     DEF CallStep

\* Every step keeps the invariant.
LEMMA NextInv == Inv /\ [Next]_vars => Inv'
<1> SUFFICES ASSUME Inv, [Next]_vars PROVE Inv'
  OBVIOUS
<1>1. ASSUME NEW o \in BOOLEAN, UpsertTarget(o) PROVE Inv'
  BY <1>1, UpsertTargetInv
<1>2. ASSUME NEW c \in Caller, CallStep(c) PROVE Inv'
  BY <1>2, CallStepInv
<1>3. ASSUME NEW c \in Caller, NEW k \in Key, Begin(c, k) \/ Refresh(c, k) \/ Cancel(c, k) PROVE Inv'
  BY <1>3, BeginInv, AskInv
<1>4. ASSUME NEW j \in Job, LateRuns(j) \/ LateDies(j) \/ JobMoves(j) PROVE Inv'
  BY <1>4, LateRunsInv, LateDiesInv, JobMovesInv
<1>5. CASE Midnight \/ Crash
  BY <1>5, MidnightInv, CrashInv
<1>6. CASE UNCHANGED vars
  BY <1>6, StutterInv
<1> QED
  BY <1>1, <1>2, <1>3, <1>4, <1>5, <1>6 DEF Next

\* The invariant holds for every number of keys, calls and jobs.
THEOREM Invariant == Spec => []Inv
<1>1. Init => Inv
  BY InitInv
<1>2. Inv /\ [Next]_vars => Inv'
  BY NextInv
<1> QED
  BY <1>1, <1>2, PTL DEF Spec

-----------------------------------------------------------------------------
(* What callers and the scheduler see *)

\* A step that neither shows a job, nor gives an answer, nor loses a command.
LEMMA Unseen ==
  ASSUME \A k \in Key : Accepted(k)' = Accepted(k), UNCHANGED <<answer, past, lost>>
  PROVE  UNCHANGED Log!vars
<1>1. [k \in Key |-> Accepted(k)]' = [k \in Key |-> Accepted(k)]
  OBVIOUS
<1> QED
  BY <1>1 DEF Log!vars

\* A job is shown: it is the first of its key, unless a command was lost.
LEMMA Shows ==
  ASSUME Inv, NEW k \in Key, NEW j \in Job, cluster[j].state \notin Active \cup Ended,
         \/ k \in lost
         \/ answer[k] = None /\ \A i \in Job : i # j /\ cluster[i].name = k => i \in past,
         cluster'[j].name = k, cluster'[j].state = "PENDING",
         \A i \in Job : i # j => cluster'[i] = cluster[i],
         UNCHANGED <<answer, past, lost>>
  PROVE  Log!Accept(k, j)
<1> DEFINE acc == [q \in Key |-> Accepted(q)]
<1>1. \A q \in Key : j \notin acc[q]
  BY DEF Accepted
<1>2. (answer[k] = None /\ acc[k] \subseteq past) \/ k \in lost
  BY DEF Accepted
<1>3. acc' = [acc EXCEPT ![k] = @ \cup {j}]
  <2>1. Accepted(k)' = Accepted(k) \cup {j}
    BY DEF Accepted, Active, Pending
  <2>2. \A q \in Key : q # k => Accepted(q)' = Accepted(q)
    BY DEF Accepted
  <2> QED
    BY <2>1, <2>2
<1> QED
  BY <1>1, <1>2, <1>3 DEF Log!Accept

\* Where no job enters or leaves the states the scheduler lists, nothing is seen.
LEMMA SameAccepted ==
  ASSUME NEW j \in Job, \A i \in Job : i # j => cluster'[i] = cluster[i],
         \/ cluster'[j] = cluster[j]
         \/ /\ cluster[j].state \notin Active \cup Ended
            /\ cluster'[j].state \notin Active \cup Ended
         \/ /\ cluster[j].state \in Active \cup Ended /\ cluster'[j].state \in Active \cup Ended
            /\ cluster'[j].name = cluster[j].name
  PROVE  \A k \in Key : Accepted(k)' = Accepted(k)
  BY DEF Accepted

LEMMA AcceptsSeen ==
  ASSUME Inv, NEW c \in Caller, Accepts(c)
  PROVE  [Log!Next]_Log!vars
<1> DEFINE k == call[c].key
<1>1. call[c].at = "sbatch" /\ UNCHANGED <<answer, past, lost>>
  BY DEF Accepts, Tables
<1>2. /\ k \in Key /\ answer[k] = None
      /\ k \notin lost => \A j \in Job : cluster[j].name = k => j \in past
  BY <1>1, AtSbatch
<1>3. PICK j \in Free : Entered(j, k, "PENDING")
  BY DEF Accepts
<1>4. j \in Job /\ cluster[j].state \notin Active \cup Ended
  BY DEF Free, Active, Ended, Pending, Running
<1>5. /\ cluster'[j].name = k /\ cluster'[j].state = "PENDING"
      /\ \A i \in Job : i # j => cluster'[i] = cluster[i]
  BY <1>3, <1>4 DEF Inv, TypeOK, Entered
<1>6. Log!Accept(k, j)
  BY <1>1, <1>2, <1>4, <1>5, Shows
<1> QED
  BY <1>2, <1>4, <1>6 DEF Log!Next

LEMMA LateRunsSeen ==
  ASSUME Inv, NEW j \in Job, LateRuns(j)
  PROVE  [Log!Next]_Log!vars
<1> DEFINE k == cluster[j].name
<1>1. /\ cluster[j].state = "late" /\ UNCHANGED <<answer, past, lost>>
      /\ cluster' = [cluster EXCEPT ![j].state = "PENDING"]
  BY DEF LateRuns, Tables
<1>2. k \in Key
  BY <1>1 DEF Inv, Named
<1>3. \/ k \in lost
      \/ answer[k] = None /\ \A i \in Job : i # j /\ cluster[i].name = k => i \in past
  <2>1. j \notin past
    BY <1>1 DEF Inv, TypeOK, Ended
  <2> QED
    BY <1>1, <1>2, <2>1 DEF Inv, OneJobPerKey, LateIsUnknown
<1>4. cluster[j].state \notin Active \cup Ended
  BY <1>1 DEF Active, Ended, Pending, Running
<1>5. /\ cluster'[j].name = k /\ cluster'[j].state = "PENDING"
      /\ \A i \in Job : i # j => cluster'[i] = cluster[i]
  BY <1>1 DEF Inv, TypeOK, JobRecord
<1>6. Log!Accept(k, j)
  BY <1>1, <1>2, <1>3, <1>4, <1>5, Shows
<1> QED
  BY <1>2, <1>6 DEF Log!Next

LEMMA CompleteSeen ==
  ASSUME Inv, NEW c \in Caller, Complete(c)
  PROVE  [Log!Next]_Log!vars
<1> DEFINE k == call[c].key
           acc == [q \in Key |-> Accepted(q)]
<1>1. /\ call[c].at = "complete" /\ UNCHANGED <<cluster, past, lost>>
      /\ answer' = [answer EXCEPT ![k] = call[c].sid]
  BY DEF Complete, Outside
<1>2. k \in Key /\ answer[k] = None /\ call[c].sid \in Accepted(k)
  BY <1>1 DEF Inv, CallSound, SeenFits, RowFits, Submitting
<1>3. call[c].sid \in Job
  BY <1>2 DEF Accepted
<1>4. acc' = acc
  BY <1>1 DEF Accepted
<1>5. Log!Tell(k, call[c].sid)
  BY <1>1, <1>2, <1>4 DEF Log!Tell
<1> QED
  BY <1>2, <1>3, <1>5 DEF Log!Next

\* At most one more key counts as lost.
LEMMA LosesSeen ==
  ASSUME \A k \in Key : Accepted(k)' = Accepted(k), UNCHANGED <<answer, past>>,
         \A q, r \in lost' \ lost : q = r, lost \subseteq lost', lost' \subseteq Key
  PROVE  [Log!Next]_Log!vars
<1>1. CASE lost' = lost
  BY <1>1, Unseen
<1>2. ASSUME NEW k \in lost' \ lost PROVE Log!Next
  <2>1. lost' = lost \cup {k} /\ k \in Key
    BY <1>2
  <2>2. [q \in Key |-> Accepted(q)]' = [q \in Key |-> Accepted(q)]
    OBVIOUS
  <2>3. Log!Lose(k)
    BY <2>1, <2>2 DEF Log!Lose
  <2> QED
    BY <2>1, <2>3 DEF Log!Next
<1> QED
  BY <1>1, <1>2

LEMMA LosesStepSeen ==
  ASSUME Inv, Inv', NEW c \in Caller, Loses(c)
  PROVE  [Log!Next]_Log!vars
<1> DEFINE k == call[c].key
<1>1. /\ UNCHANGED <<answer, past>> /\ lost \subseteq lost' /\ lost' \subseteq lost \cup {k}
      /\ \E j \in Free : Entered(j, k, "late")
  BY DEF Loses, Tables
<1>2. PICK j \in Free : Entered(j, k, "late")
  BY <1>1
<1>3. \A q \in Key : Accepted(q)' = Accepted(q)
  <2>1. /\ j \in Job /\ cluster[j].state = "free" /\ cluster'[j].state = "late"
        /\ \A i \in Job : i # j => cluster'[i] = cluster[i]
    BY <1>2 DEF Free, Entered, Inv, TypeOK
  <2> QED
    BY <2>1, SameAccepted DEF Active, Ended, Pending, Running
<1>4. lost' \subseteq Key
  BY DEF Inv, TypeOK
<1> QED
  BY <1>1, <1>3, <1>4, LosesSeen

LEMMA CrashSeen ==
  ASSUME Inv, Inv', Crash
  PROVE  [Log!Next]_Log!vars
<1>1. /\ UNCHANGED <<answer, row, past>>
      /\ lost' = lost \cup {k \in Key : /\ row[k].state = "SUBMITTING"
                                       /\ \E j \in Job : cluster'[j] = [name |-> k, state |-> "late"]}
  BY DEF Crash, Tables
<1>2. \A q \in Key : Accepted(q)' = Accepted(q)
  <2>1. CASE UNCHANGED cluster
    BY <2>1 DEF Accepted
  <2>2. ASSUME NEW c \in Caller, NEW j \in Free, Entered(j, call[c].key, "late")
        PROVE  \A q \in Key : Accepted(q)' = Accepted(q)
    <3>1. /\ j \in Job /\ cluster[j].state = "free" /\ cluster'[j].state = "late"
          /\ \A i \in Job : i # j => cluster'[i] = cluster[i]
      BY <2>2 DEF Free, Entered, Inv, TypeOK
    <3> QED
      BY <3>1, SameAccepted DEF Active, Ended, Pending, Running
  <2> QED
    BY <2>1, <2>2 DEF Crash
\* A key that is new among the lost is the one of the submission under way.
<1>3. \A q \in lost' \ lost : q = call[lock].key
  <2> SUFFICES ASSUME NEW q \in lost' \ lost PROVE q = call[lock].key
    OBVIOUS
  <2>1. q \in Key /\ row[q].state = "SUBMITTING"
    BY <1>1
  <2>2. PICK j \in Job : cluster'[j] = [name |-> q, state |-> "late"]
    BY <1>1
  <2>3. \E d \in Caller : call[d].at \in {"fail", "sbatch"} /\ call[d].key = q
    <3>1. CASE cluster'[j] = cluster[j]
      BY <2>1, <2>2, <3>1 DEF Inv, LateIsUnknown, Uncertain
    <3>2. CASE cluster'[j] # cluster[j]
      <4>1. PICK c \in Caller, i \in Free : call[c].at = "sbatch" /\ Entered(i, call[c].key, "late")
        BY <3>2 DEF Crash
      <4>2. cluster'[j].name = call[c].key
        BY <3>2, <4>1 DEF Entered, Inv, TypeOK
      <4> QED
        BY <2>2, <4>1, <4>2
    <3> QED
      BY <3>1, <3>2
  <2> QED
    BY <2>3 DEF Inv, Locked, Submitting
<1>4. lost \subseteq lost' /\ lost' \subseteq Key
  BY <1>1 DEF Inv, TypeOK
<1> QED
  BY <1>1, <1>2, <1>3, <1>4, LosesSeen

\* Steps that only change what the scheduler knows of a job it lists.
LEMMA JobStateSeen ==
  ASSUME Inv, NEW j \in Job, cluster[j].state \in Active \cup Ended, NEW s \in Active \cup Ended,
         cluster' = [cluster EXCEPT ![j].state = s], UNCHANGED <<answer, past, lost>>
  PROVE  UNCHANGED Log!vars
<1>1. /\ cluster'[j].name = cluster[j].name /\ cluster'[j].state = s
      /\ \A i \in Job : i # j => cluster'[i] = cluster[i]
  BY DEF Inv, TypeOK, JobRecord
<1> QED
  BY <1>1, SameAccepted, Unseen

LEMMA ScancelSeen ==
  ASSUME Inv, NEW c \in Caller, Scancel(c)
  PROVE  UNCHANGED Log!vars
<1> DEFINE j == call[c].sid
<1>1. call[c].at = "scancel" /\ UNCHANGED <<answer, past, lost>>
  BY DEF Scancel, Tables
<1>2. j \in Job /\ cluster[j].state \in Active \cup Ended
  BY <1>1, AtAsking DEF Asking
<1>3. CASE UNCHANGED cluster
  BY <1>1, <1>3, Unseen DEF Accepted
<1>4. CASE cluster' = [cluster EXCEPT ![j].state = "CANCELLED"]
  BY <1>1, <1>2, <1>4, JobStateSeen DEF Ended
<1> QED
  BY <1>3, <1>4 DEF Scancel

LEMMA JobMovesSeen ==
  ASSUME Inv, NEW j \in Job, JobMoves(j)
  PROVE  UNCHANGED Log!vars
<1>1. PICK s \in Active \cup Ended :
         /\ cluster[j].state \in {"PENDING", "RUNNING", "SUSPENDED"}
         /\ cluster' = [cluster EXCEPT ![j].state = s]
  BY DEF JobMoves
<1>2. cluster[j].state \in Active \cup Ended
  BY <1>1 DEF Active, Pending, Running
<1> QED
  BY <1>1, <1>2, JobStateSeen DEF JobMoves, Tables

LEMMA LateDiesSeen ==
  ASSUME Inv, NEW j \in Job, LateDies(j)
  PROVE  UNCHANGED Log!vars
<1>1. /\ cluster[j].state = "late" /\ cluster'[j].state = "free"
      /\ \A i \in Job : i # j => cluster'[i] = cluster[i]
  BY DEF LateDies, Inv, TypeOK
<1>2. \A q \in Key : Accepted(q)' = Accepted(q)
  BY <1>1, SameAccepted DEF Active, Ended, Pending, Running
<1> QED
  BY <1>2, Unseen DEF LateDies, Tables

\* The jobs that ended today go out of sight.
LEMMA MidnightSeen ==
  ASSUME Inv, Midnight
  PROVE  [Log!Next]_Log!vars
<1> DEFINE acc == [q \in Key |-> Accepted(q)]
<1>1. /\ UNCHANGED <<answer, cluster, lost>>
      /\ past' = {j \in Job : cluster[j].state \in Ended} /\ past \subseteq past'
  BY DEF Midnight, Tables, Inv, TypeOK
<1>2. acc' = acc
  BY <1>1 DEF Accepted
<1>3. \A j \in past' : \E q \in Key : j \in acc[q]
  BY <1>1 DEF Inv, Named, Accepted, Ended
<1>4. past' \in SUBSET UNION {acc[q] : q \in Key}
  BY <1>3
<1>5. Log!Pass(past')
  BY <1>1, <1>2 DEF Log!Pass
<1> QED
  BY <1>4, <1>5 DEF Log!Next

\* Every step is a step of the log or is not seen.
LEMMA StepSeen == Inv /\ Inv' /\ [Next]_vars => [Log!Next]_Log!vars
<1> SUFFICES ASSUME Inv, Inv', [Next]_vars PROVE [Log!Next]_Log!vars
  OBVIOUS
<1>1. CASE UNCHANGED <<cluster, answer, past, lost>>
  BY <1>1, Unseen DEF Accepted
<1>2. ASSUME NEW c \in Caller, CallStep(c) PROVE [Log!Next]_Log!vars
  <2>1. CASE Accepts(c)   BY <2>1, AcceptsSeen
  <2>2. CASE Loses(c)     BY <2>2, LosesStepSeen
  <2>3. CASE Complete(c)  BY <2>3, CompleteSeen
  <2>4. CASE Scancel(c)   BY <2>4, ScancelSeen
  <2>5. CASE Replay(c) \/ Prepare(c) \/ Hits(c) \/ Misses(c) \/ SearchErrs(c) \/ Refused(c)
             \/ RecordFailure(c) \/ Query(c) \/ Update(c) \/ RecordCancel(c)
    BY <1>1, <2>5 DEF Replay, Prepare, Hits, Misses, SearchErrs, Refused, RecordFailure,
                      Query, Update, RecordCancel, Tables, Outside
  <2> QED
    BY <1>2, <2>1, <2>2, <2>3, <2>4, <2>5 DEF CallStep
<1>3. ASSUME NEW c \in Caller, NEW k \in Key, Begin(c, k) \/ Refresh(c, k) \/ Cancel(c, k)
      PROVE  [Log!Next]_Log!vars
  BY <1>1, <1>3 DEF Begin, Refresh, Cancel, Tables, Outside
<1>4. ASSUME NEW j \in Job, LateRuns(j) \/ LateDies(j) \/ JobMoves(j) PROVE [Log!Next]_Log!vars
  BY <1>4, LateRunsSeen, LateDiesSeen, JobMovesSeen
<1>5. CASE Midnight \/ Crash
  BY <1>5, MidnightSeen, CrashSeen
<1>6. ASSUME NEW o \in BOOLEAN, UpsertTarget(o) PROVE [Log!Next]_Log!vars
  BY <1>1, <1>6 DEF UpsertTarget, Tables, Outside
<1>7. CASE UNCHANGED vars
  BY <1>1, <1>7 DEF vars
<1> QED
  BY <1>2, <1>3, <1>4, <1>5, <1>6, <1>7 DEF Next

\* The log is empty at first.
LEMMA InitSeen == Init => Log!Init
<1> SUFFICES ASSUME Init PROVE Log!Init
  OBVIOUS
<1>1. \A k \in Key : Accepted(k) = {}
  BY DEF Init, Accepted, Active, Ended, Pending, Running
<1>2. answer = [k \in Key |-> None] /\ past = {} /\ lost = {}
  BY DEF Init
<1> QED
  BY <1>1, <1>2 DEF Log!Init

\* Submitting jobs with the broker is keeping a submission log: whatever fails,
\* is repeated or runs at the same time, the scheduler accepts a second job for a
\* key only while its caller has been told none and the first ended before today,
\* and what the caller is told it is told for ever (_submit_scheduler_job).
THEOREM Implementation == Spec => LogImplemented
<1>1. Init => Log!Init
  BY InitSeen
<1>2. Spec => []Inv
  BY Invariant
<1>3. Inv /\ Inv' /\ [Next]_vars => [Log!Next]_Log!vars
  BY StepSeen
<1> QED
  BY <1>1, <1>2, <1>3, PTL DEF Spec, LogImplemented, Log!Spec
----------------------------------------------------------------------------
(* The end of a job *)

\* How a job ended, as a call has heard it.
HeardIsTrue ==
    \A c \in Caller : call[c].at \in {"complete", "update"} /\ call[c].seen \in Ended
                         => cluster[call[c].sid].state = call[c].seen

\* A job that has ended stays as it is.
LEMMA EndedStays ==
  ASSUME Inv, [Next]_vars, NEW j \in Job, cluster[j].state \in Ended
  PROVE  cluster'[j].state = cluster[j].state
<1>1. cluster[j].state \notin Active \cup {"free", "late"}
  BY DEF Active, Ended, Pending, Running
<1>2. ASSUME NEW i \in Free, NEW k, NEW s, Entered(i, k, s) PROVE cluster'[j] = cluster[j]
  BY <1>1, <1>2 DEF Free, Entered, Inv, TypeOK
<1>3. ASSUME NEW c \in Caller, CallStep(c) PROVE cluster'[j].state = cluster[j].state
  <2>1. CASE Accepts(c)   BY <1>2, <2>1 DEF Accepts
  <2>2. CASE Loses(c)     BY <1>2, <2>2 DEF Loses
  <2>3. CASE Scancel(c)   BY <1>1, <2>3 DEF Scancel, Inv, TypeOK, JobRecord
  <2>4. CASE Replay(c) \/ Prepare(c) \/ Hits(c) \/ Misses(c) \/ SearchErrs(c) \/ Refused(c)
             \/ RecordFailure(c) \/ Complete(c) \/ Query(c) \/ Update(c) \/ RecordCancel(c)
    BY <2>4 DEF Replay, Prepare, Hits, Misses, SearchErrs, Refused, RecordFailure,
                Complete, Query, Update, RecordCancel, Outside
  <2> QED
    BY <1>3, <2>1, <2>2, <2>3, <2>4 DEF CallStep
<1>4. ASSUME NEW c \in Caller, NEW k \in Key, Begin(c, k) \/ Refresh(c, k) \/ Cancel(c, k)
      PROVE  cluster'[j].state = cluster[j].state
  BY <1>4 DEF Begin, Refresh, Cancel, Outside
<1>5. ASSUME NEW i \in Job, LateRuns(i) \/ LateDies(i) \/ JobMoves(i)
      PROVE  cluster'[j].state = cluster[j].state
  <2>1. CASE LateRuns(i)  BY <1>1, <2>1 DEF LateRuns, Inv, TypeOK, JobRecord
  <2>2. CASE LateDies(i)  BY <1>1, <2>2 DEF LateDies, Inv, TypeOK, JobRecord
  <2>3. CASE JobMoves(i)
    <3>1. cluster[i].state \in Active
      BY <2>3 DEF JobMoves, Active, Pending, Running
    <3>2. i # j
      BY <1>1, <3>1
    <3> QED
      BY <2>3, <3>2 DEF JobMoves, Inv, TypeOK
  <2> QED
    BY <1>5, <2>1, <2>2, <2>3
<1>6. CASE Midnight \/ Crash
  BY <1>2, <1>6 DEF Midnight, Crash
<1>7. ASSUME NEW o \in BOOLEAN, UpsertTarget(o) PROVE cluster'[j].state = cluster[j].state
  BY <1>7 DEF UpsertTarget, Outside
<1>8. CASE UNCHANGED vars
  BY <1>8 DEF vars
<1> QED
  BY <1>3, <1>4, <1>5, <1>6, <1>7, <1>8 DEF Next

\* A call hears of an end from the scheduler only.
LEMMA HeardStep ==
  ASSUME Inv, [Next]_vars, NEW c \in Caller,
         call'[c].at \in {"complete", "update"}, call'[c].seen \in Ended
  PROVE  \/ call'[c] = call[c]
         \/ UNCHANGED cluster /\ call'[c].seen = cluster[call'[c].sid].state
<1>1. ASSUME NEW d \in Caller, NEW at, NEW sid, NEW seen, Goes(d, at, sid, seen),
             at \in {"complete", "update"} /\ seen \in Ended =>
                UNCHANGED cluster /\ seen = cluster[sid].state
      PROVE  \/ call'[c] = call[c]
             \/ UNCHANGED cluster /\ call'[c].seen = cluster[call'[c].sid].state
  <2>1. CASE d = c
    <3>1. call'[c].at = at /\ call'[c].sid = sid /\ call'[c].seen = seen
      BY <1>1, <2>1 DEF Goes, Inv, TypeOK, CallRecord
    <3> QED
      BY <1>1, <3>1
  <2>2. CASE d # c
    BY <1>1, <2>2 DEF Goes, Inv, TypeOK
  <2> QED
    BY <2>1, <2>2
<1>2. ASSUME NEW d \in Caller, Returns(d) PROVE call'[c] = call[c]
  BY <1>2, ReturnsCall DEF Inv, Others
<1>3. "SUBMITTED" \notin Ended
  BY DEF Ended
<1>4. ASSUME NEW d \in Caller, CallStep(d)
      PROVE  \/ call'[c] = call[c]
             \/ UNCHANGED cluster /\ call'[c].seen = cluster[call'[c].sid].state
  <2>1. CASE Hits(d)     BY <1>1, <2>1 DEF Hits, Outside
  <2>2. CASE Query(d)    BY <1>1, <1>2, <2>2 DEF Query, Outside
  <2>3. CASE Accepts(d)
    <3>1. PICK j \in Free : \/ Goes(d, "complete", j, "SUBMITTED")
                            \/ \E s \in {"UNKNOWN", "ACCESS_REQUIRED"} : Goes(d, "fail", None, s)
      BY <2>3 DEF Accepts
    <3> QED
      BY <1>1, <1>3, <3>1
  <2>4. CASE Prepare(d)  BY <1>1, <2>4 DEF Prepare
  <2>5. CASE Misses(d) \/ SearchErrs(d)
    BY <1>1, <1>2, <2>5 DEF Misses, SearchErrs
  <2>6. CASE Loses(d) \/ Refused(d)
    BY <1>1, <2>6 DEF Loses, Refused
  <2>7. CASE Scancel(d)  BY <1>1, <1>2, <2>7 DEF Scancel
  <2>8. CASE Replay(d) \/ RecordFailure(d) \/ Complete(d) \/ Update(d) \/ RecordCancel(d)
    BY <1>2, <2>8 DEF Replay, RecordFailure, Complete, Update, RecordCancel
  <2> QED
    BY <1>4, <2>1, <2>2, <2>3, <2>4, <2>5, <2>6, <2>7, <2>8 DEF CallStep
<1>5. ASSUME NEW d \in Caller, NEW k \in Key, Begin(d, k) \/ Refresh(d, k) \/ Cancel(d, k)
      PROVE  call'[c] = call[c]
  BY <1>5 DEF Begin, Refresh, Cancel, Idle, Inv, TypeOK
<1>6. CASE Midnight \/ Crash
  <2>1. CASE Midnight  BY <2>1 DEF Midnight
  <2>2. CASE Crash     BY <2>2 DEF Crash, Idle
  <2> QED
    BY <1>6, <2>1, <2>2
<1>7. ASSUME NEW j \in Job, LateRuns(j) \/ LateDies(j) \/ JobMoves(j) PROVE call'[c] = call[c]
  BY <1>7 DEF LateRuns, LateDies, JobMoves
<1>8. ASSUME NEW o \in BOOLEAN, UpsertTarget(o) PROVE call'[c] = call[c]
  BY <1>8 DEF UpsertTarget
<1>9. CASE UNCHANGED vars
  BY <1>9 DEF vars
<1> QED
  BY <1>4, <1>5, <1>6, <1>7, <1>8, <1>9 DEF Next

\* A row is told of an end by a call that has heard of it.
LEMMA WrittenStep ==
  ASSUME Inv, [Next]_vars, NEW k \in Key, row'[k].sid # None, row'[k].state \in Ended
  PROVE  \/ row'[k] = row[k]
         \/ \E c \in Caller : /\ call[c].at \in {"complete", "update"}
                              /\ call[c].seen = row'[k].state /\ call[c].sid = row'[k].sid
<1>1. ASSUME NEW x \in {"SUBMITTED"} \cup Active \cup Ended, BrokerState(x) \in Ended
      PROVE  BrokerState(x) = x
  BY <1>1 DEF BrokerState, Active, Ended, Pending, Running
<1>2. ASSUME NEW c \in Caller, CallStep(c), row'[k] # row[k]
      PROVE  \E d \in Caller : /\ call[d].at \in {"complete", "update"}
                               /\ call[d].seen = row'[k].state /\ call[d].sid = row'[k].sid
  <2>1. CASE Prepare(c)
    <3>1. row' = row \/ row' = [row EXCEPT ![call[c].key].state = "SUBMITTING"]
      BY <2>1 DEF Prepare
    <3>2. row'[k] = row[k] \/ row'[k].state = "SUBMITTING"
      BY <3>1 DEF Inv, TypeOK, RowRecord
    <3> QED
      BY <1>2, <3>2 DEF Ended
  <2>2. CASE RecordFailure(c)
    <3>1. call[c].at = "fail" /\ row' = [row EXCEPT ![call[c].key].state = call[c].seen]
      BY <2>2 DEF RecordFailure
    <3>2. answer[call[c].key] = None
      BY <3>1 DEF Inv, CallSound, RowFits, Submitting
    <3>3. k = call[c].key /\ row'[k].sid = row[k].sid
      BY <1>2, <3>1 DEF Inv, TypeOK, RowRecord
    <3> QED
      BY <3>2, <3>3 DEF Inv, RowNamesItsJob
  <2>3. CASE Complete(c)
    <3>1. /\ call[c].at = "complete"
          /\ row' = [row EXCEPT ![call[c].key] = [state |-> BrokerState(call[c].seen), sid |-> call[c].sid]]
      BY <2>3 DEF Complete
    <3>2. call[c].seen \in {"SUBMITTED"} \cup Active \cup Ended
      BY <3>1 DEF Inv, CallSound, SeenFits
    <3>3. row'[k].state = BrokerState(call[c].seen) /\ row'[k].sid = call[c].sid
      BY <1>2, <3>1 DEF Inv, TypeOK
    <3> QED
      BY <1>1, <3>1, <3>2, <3>3
  <2>4. CASE Update(c)
    <3>1. /\ call[c].at = "update"
          /\ row' = [row EXCEPT ![call[c].key].state = BrokerState(call[c].seen)]
      BY <2>4 DEF Update
    <3>2. call[c].seen \in Active \cup Ended
      BY <3>1 DEF Inv, CallSound, SeenFits
    <3>3. k = call[c].key /\ row'[k].state = BrokerState(call[c].seen) /\ row'[k].sid = row[k].sid
      BY <1>2, <3>1 DEF Inv, TypeOK, RowRecord
    <3>4. row[k].sid = answer[k] /\ call[c].sid = answer[k]
      BY <3>1, <3>3, AtAsking DEF Inv, RowNamesItsJob, Asking
    <3> QED
      BY <1>1, <3>1, <3>2, <3>3, <3>4
  <2>5. CASE RecordCancel(c)
    <3>1. row' = [row EXCEPT ![call[c].key].state = "CANCEL_REQUESTED"]
      BY <2>5 DEF RecordCancel
    <3>2. row'[k].state = "CANCEL_REQUESTED"
      BY <1>2, <3>1 DEF Inv, TypeOK, RowRecord
    <3> QED
      BY <3>2 DEF Ended
  <2>6. CASE Replay(c) \/ Hits(c) \/ Misses(c) \/ SearchErrs(c) \/ Accepts(c) \/ Loses(c)
             \/ Refused(c) \/ Query(c) \/ Scancel(c)
    BY <1>2, <2>6 DEF Replay, Hits, Misses, SearchErrs, Accepts, Loses, Refused, Query, Scancel, Tables
  <2> QED
    BY <1>2, <2>1, <2>2, <2>3, <2>4, <2>5, <2>6 DEF CallStep
<1>3. ASSUME NEW c \in Caller, NEW q \in Key, Begin(c, q) \/ Refresh(c, q) \/ Cancel(c, q)
      PROVE  row' = row
  BY <1>3 DEF Begin, Refresh, Cancel, Tables
<1>4. ASSUME NEW j \in Job, LateRuns(j) \/ LateDies(j) \/ JobMoves(j) PROVE row' = row
  BY <1>4 DEF LateRuns, LateDies, JobMoves, Tables
<1>5. CASE Midnight \/ Crash
  BY <1>5 DEF Midnight, Crash, Tables
<1>6. ASSUME NEW o \in BOOLEAN, UpsertTarget(o) PROVE row' = row
  BY <1>6 DEF UpsertTarget, Tables
<1>7. CASE UNCHANGED vars
  BY <1>7 DEF vars
<1> QED
  BY <1>2, <1>3, <1>4, <1>5, <1>6, <1>7 DEF Next

\* A row that says how its job ended is right, in whatever order refreshes and
\* cancellations write it (refresh_scheduler_job, update).
THEOREM FinalStates == Spec => []FinalStatesAreTrue
<1>1. Init => FinalStatesAreTrue /\ HeardIsTrue
  <2> SUFFICES ASSUME Init PROVE FinalStatesAreTrue /\ HeardIsTrue
    OBVIOUS
  <2>1. \A k \in Key : row[k].sid = None
    BY DEF Init
  <2>2. \A c \in Caller : call[c].at = "idle"
    BY DEF Init, Idle
  <2> QED
    BY <2>1, <2>2 DEF FinalStatesAreTrue, HeardIsTrue
<1>2. Inv /\ Inv' /\ FinalStatesAreTrue /\ HeardIsTrue /\ [Next]_vars
        => (FinalStatesAreTrue /\ HeardIsTrue)'
  <2> SUFFICES ASSUME Inv, Inv', FinalStatesAreTrue, HeardIsTrue, [Next]_vars
               PROVE  FinalStatesAreTrue' /\ HeardIsTrue'
    OBVIOUS
  <2>1. \A c \in Caller : call[c].at \in {"complete", "update"} => call[c].sid \in Job
    BY AtAsking DEF Asking, Inv, CallSound, SeenFits, Accepted
  <2>2. HeardIsTrue'
    BY <2>1, HeardStep, EndedStays DEF HeardIsTrue
  <2>3. ASSUME NEW k \in Key, row'[k].sid # None, row'[k].state \in Ended
        PROVE  cluster'[row'[k].sid].state = row'[k].state
    <3>1. CASE row'[k] = row[k]
      <4>1. row[k].sid \in Job
        BY <2>3, <3>1 DEF Inv, TypeOK, RowRecord
      <4> QED
        BY <2>3, <3>1, <4>1, EndedStays DEF FinalStatesAreTrue
    <3>2. ASSUME NEW c \in Caller, call[c].at \in {"complete", "update"},
                 call[c].seen = row'[k].state, call[c].sid = row'[k].sid
          PROVE  cluster'[row'[k].sid].state = row'[k].state
      BY <2>1, <2>3, <3>2, EndedStays DEF HeardIsTrue
    <3> QED
      BY <2>3, <3>1, <3>2, WrittenStep
  <2> QED
    BY <2>2, <2>3 DEF FinalStatesAreTrue
<1> QED
  BY <1>1, <1>2, Invariant, PTL DEF Spec

\* The tables of submitted jobs are true: no key has two jobs of one day but one
\* of which a command was lost, a row names the job that was submitted under its
\* key, and tells no end but its job's (_submit_scheduler_job,
\* refresh_scheduler_job).
THEOREM TrueRows == Spec => []JobRowsAreTrue
<1>1. Inv /\ FinalStatesAreTrue => JobRowsAreTrue
  BY DEF Inv, JobRowsAreTrue
<1> QED
  BY <1>1, Invariant, FinalStates, PTL
-----------------------------------------------------------------------------
(* Transfers *)

\* Only a row that is being transferred, or was deferred since, has a thread; a
\* row that was never used has no scp.
HasThread(t) ==
    /\ thread[t] # "none" => xfer[t] \in {"TRANSFERRING", "DEFERRED"}
    /\ xfer[t] = "none" => t \notin scp

\* What is in the directory, as the thread knows it.
CopyIsRight(t) ==
    /\ t \in scp => stage[t] = "partial" /\ thread[t] \in {"none", "copying"} /\ xfer[t] # "COMPLETED"
    /\ thread[t] = "copying" => t \in scp
    /\ thread[t] = "success" => stage[t] = "full"

TransferInv ==
    /\ T!TypeOK /\ T!CompletedIsThere
    /\ \A t \in Transfer : HasThread(t) /\ CopyIsRight(t)

LEMMA TransferInit == T!Init => TransferInv
  BY DEF T!Init, TransferInv, T!TypeOK, T!CompletedIsThere, HasThread, CopyIsRight, T!Failure

LEMMA TransferStep == TransferInv /\ [T!Next]_T!vars => TransferInv'
<1> SUFFICES ASSUME TransferInv, [T!Next]_T!vars PROVE TransferInv'
  OBVIOUS
<1> USE DEF TransferInv, T!TypeOK, T!CompletedIsThere, HasThread, CopyIsRight, T!Failure
<1>1. ASSUME NEW t \in Transfer, T!Start(t) PROVE TransferInv'
  BY <1>1 DEF T!Start, T!Goes
<1>2. ASSUME NEW t \in Transfer, T!Resolve(t) PROVE TransferInv'
  BY <1>2 DEF T!Resolve, T!Goes
<1>3. ASSUME NEW t \in Transfer, T!Mkdir(t) PROVE TransferInv'
  BY <1>3 DEF T!Mkdir, T!Goes
<1>4. ASSUME NEW t \in Transfer, T!CopyStarts(t) PROVE TransferInv'
  BY <1>4 DEF T!CopyStarts, T!Goes
<1>5. ASSUME NEW t \in Transfer, T!CopyEnds(t) PROVE TransferInv'
  BY <1>5 DEF T!CopyEnds
<1>6. ASSUME NEW t \in Transfer, T!RecordSuccess(t) \/ T!RecordFailure(t) PROVE TransferInv'
  BY <1>6 DEF T!RecordSuccess, T!RecordFailure, T!Goes
<1>7. CASE T!Boot \/ T!CommandLine
  <2>1. xfer' = T!Deferred /\ up' \in BOOLEAN /\ UNCHANGED <<thread, scp, stage>>
    BY <1>7 DEF T!Boot, T!CommandLine
  <2>2. \A t \in Transfer : /\ xfer[t] = "TRANSFERRING" => xfer'[t] = "DEFERRED"
                            /\ xfer[t] # "TRANSFERRING" => xfer'[t] = xfer[t]
    BY <2>1 DEF T!Deferred
  <2>3. T!TypeOK'
    BY <2>1 DEF T!Deferred
  <2>4. T!CompletedIsThere' /\ \A t \in Transfer : HasThread(t)' /\ CopyIsRight(t)'
    BY <2>1, <2>2
  <2> QED
    BY <2>3, <2>4
<1>8. CASE T!Crash
  BY <1>8 DEF T!Crash
<1>9. CASE UNCHANGED T!vars
  BY <1>9 DEF T!vars
<1> QED
  BY <1>1, <1>2, <1>3, <1>4, <1>5, <1>6, <1>7, <1>8, <1>9 DEF T!Next, T!ThreadStep

\* What is called completed is on the login node as a whole, and stays there.
THEOREM CompletedTransfers == T!Spec => [](T!TypeOK /\ T!CompletedIsThere)
<1>1. TransferInv => T!TypeOK /\ T!CompletedIsThere
  BY DEF TransferInv
<1> QED
  BY <1>1, TransferInit, TransferStep, PTL DEF T!Spec

THEOREM FinalOutcomes == T!Spec => T!OutcomeIsFinal
<1>1. TransferInv /\ [T!Next]_T!vars =>
        [\A t \in Transfer :
          thread[t] = "none" /\ xfer[t] \notin {"none", "TRANSFERRING"} => xfer'[t] = xfer[t]]_T!vars
  <2> SUFFICES ASSUME TransferInv, T!Next, NEW t \in Transfer,
                      thread[t] = "none", xfer[t] \notin {"none", "TRANSFERRING"}
               PROVE  xfer'[t] = xfer[t]
    OBVIOUS
  <2>1. ASSUME NEW s \in Transfer, T!Start(s) \/ T!ThreadStep(s) \/ T!CopyEnds(s)
        PROVE  xfer'[t] = xfer[t]
    BY <2>1 DEF T!Start, T!ThreadStep, T!CopyEnds, T!Resolve, T!Mkdir, T!CopyStarts,
                T!RecordSuccess, T!RecordFailure, T!Failure, TransferInv, T!TypeOK
  <2>2. CASE T!Boot \/ T!CommandLine \/ T!Crash
    BY <2>2 DEF T!Boot, T!CommandLine, T!Crash, T!Deferred
  <2> QED
    BY <2>1, <2>2 DEF T!Next
<1> QED
  BY <1>1, TransferInit, TransferStep, PTL DEF T!Spec, T!OutcomeIsFinal

-----------------------------------------------------------------------------
(* Jobs and transfers side by side *)

LEMMA PartsMove == SpecMC => Spec /\ T!Spec
<1>1. InitMC => Init /\ T!Init
  BY DEF InitMC
<1>2. [NextMC]_allvars => [Next]_vars /\ [T!Next]_T!vars
  BY DEF NextMC, allvars, tvars, T!vars
<1> QED
  BY <1>1, <1>2, PTL DEF SpecMC, Spec, T!Spec

\* The tables of submitted jobs stay true, and submitting jobs implements the log,
\* while uploads go on beside them (_submit_scheduler_job, refresh_scheduler_job).
THEOREM JobsAreKept == SpecMC => []JobRowsAreTrue /\ LogImplemented
  BY PartsMove, TrueRows, Implementation, PTL

\* What is called completed is on the login node as a whole, and a transfer whose
\* thread is gone keeps its outcome, although the broker may stop at any time, and
\* a second process may defer what still runs (_perform_scheduler_upload,
\* record_success, record_failure, _defer_interrupted_scheduler_transfers).
THEOREM TransfersAreKept == SpecMC => OutcomesAreFinal
  BY PartsMove, CompletedTransfers, FinalOutcomes, PTL DEF OutcomesAreFinal
=============================================================================
