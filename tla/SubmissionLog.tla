---------------------------- MODULE SubmissionLog ----------------------------
(***************************************************************************)
(* What the submission of a job under a key promises, whatever the broker  *)
(* does inside: the scheduler accepts one job for the key, the caller is    *)
(* told that job, and is told the same one for ever.  A second job may be   *)
(* accepted only while the caller has been told none and the first is out   *)
(* of sight, or after a command was lost in a way the broker does not take  *)
(* for uncertain.                                                          *)
(***************************************************************************)
CONSTANTS Key, Job, None

VARIABLES
    accepted,       \* per key: the jobs the scheduler has accepted for it
    told,           \* per key: the job the caller has been told, or None
    past,           \* jobs that are out of sight
    lost            \* keys with a lost command

vars == <<accepted, told, past, lost>>

Init ==
    /\ accepted = [k \in Key |-> {}]
    /\ told = [k \in Key |-> None]
    /\ past = {} /\ lost = {}

Accept(k, j) ==
    /\ (told[k] = None /\ accepted[k] \subseteq past) \/ k \in lost
    /\ \A i \in Key : j \notin accepted[i]
    /\ accepted' = [accepted EXCEPT ![k] = @ \cup {j}]
    /\ UNCHANGED <<told, past, lost>>

Tell(k, j) ==
    /\ told[k] = None /\ j \in accepted[k]
    /\ told' = [told EXCEPT ![k] = j]
    /\ UNCHANGED <<accepted, past, lost>>

Lose(k) ==
    /\ lost' = lost \cup {k}
    /\ UNCHANGED <<accepted, told, past>>

\* The jobs of J go out of sight.
Pass(J) ==
    /\ past' = past \cup J
    /\ UNCHANGED <<accepted, told, lost>>

Next ==
    \/ \E k \in Key : Lose(k) \/ \E j \in Job : Accept(k, j) \/ Tell(k, j)
    \/ \E J \in SUBSET UNION {accepted[k] : k \in Key} : Pass(J)

Spec == Init /\ [][Next]_vars
=============================================================================
