---------------------------- MODULE RoutineCalls -----------------------------
(***************************************************************************)
(* An agent's call of gpu_apply (mcp_server.py) against a broker and a       *)
(* connection that fail: each call has a key of its own, and is sent a       *)
(* second time under the same key when the first attempt ends without an     *)
(* answer (client.py).  The broker may carry out an attempt after the agent  *)
(* has given it up (api.py, claim_request_now; service.py,                   *)
(* _create_request_in_session).                                             *)
(*                                                                         *)
(* The attempts wait for the locks of all servers in the order in which they *)
(* came: both ask for the same servers, 20 seconds apart.  One GPU a call is *)
(* asked for; GPUs are counted, not told apart.                              *)
(***************************************************************************)
EXTENDS Naturals, Sequences, FiniteSets

CONSTANTS
    Call,           \* calls of gpu_apply
    Grant,          \* bound: leases these calls may be given in all
    Gpus,           \* the number of GPUs
    None

\* Grants are finitely many, and neither they nor calls are taken for a refusal or
\* for nothing.
GoodGrants ==
    /\ IsFiniteSet(Grant) /\ Gpus \in Nat
    /\ None \notin Grant \cup Call /\ "refused" \notin Grant \cup {None}

VARIABLES
    call,           \* what the agent knows: the attempt it waits for, or the outcome
    queue,          \* the attempts at the broker, the first of which holds the locks
    answers,        \* answers on their way
    remembered,     \* the table of idempotency records: key -> the lease of the answer
    grant,          \* lease -> the call it was given to, and whether it is open
    free,           \* GPUs a claim may be given
    kept            \* GPUs held by keepalive workers

vars == <<call, queue, answers, remembered, grant, free, kept>>

Outcome == Grant \cup {"refused"}

Attempt == [call : Call, try : {1, 2}, phase : {"claim", "reclaim", "again"}]

Open == {g \in Grant : grant[g].open}

TypeOK ==
    /\ call \in [Call -> [try : 0 .. 2, over : BOOLEAN, got : Outcome \cup {None}]]
    /\ queue \in Seq(Attempt)
    /\ answers \subseteq [call : Call, try : {1, 2}, got : Outcome]
    /\ remembered \in [Call -> Grant \cup {None}]
    /\ grant \in [Grant -> [call : Call \cup {None}, open : BOOLEAN]]
    /\ \A i \in 2 .. Len(queue) : queue[i].phase = "claim"
    /\ free + kept + Cardinality(Open) \in 0 .. Gpus

Init ==
    /\ call = [c \in Call |-> [try |-> 0, over |-> FALSE, got |-> None]]
    /\ queue = <<>> /\ answers = {}
    /\ remembered = [c \in Call |-> None]
    /\ grant = [g \in Grant |-> [call |-> None, open |-> FALSE]]
    /\ free \in 0 .. Gpus /\ kept \in 0 .. Gpus - free

-----------------------------------------------------------------------------
(* The agent's side *)

\* Defect: the key names the process, not the call.
KeyOfProcess(c) == CHOOSE k \in Call : TRUE

\* The key of a call; any name will do that no other call has.
KeyOf(c) == c

\* An attempt is sent, and reaches the broker or not.
Sent(c, n) ==
    /\ call' = [call EXCEPT ![c].try = n]
    /\ \/ queue' = Append(queue, [call |-> c, try |-> n, phase |-> "claim"])
       \/ UNCHANGED queue

Apply(c) ==
    /\ call[c].try = 0
    /\ Sent(c, 1)
    /\ UNCHANGED <<answers, remembered, grant, free, kept>>

\* The connection breaks, or the time is over: once, the call is repeated.
Fails(c) ==
    /\ ~call[c].over
    /\ \/ call[c].try = 1 /\ Sent(c, 2)
       \/ call[c].try = 2 /\ call' = [call EXCEPT ![c].over = TRUE] /\ UNCHANGED queue
    /\ UNCHANGED <<answers, remembered, grant, free, kept>>

\* An answer is lost, or comes; it is heard only where it is waited for.
Arrives(a) ==
    /\ answers' = answers \ {a}
    /\ \/ UNCHANGED call
       \/ /\ call[a.call].try = a.try /\ ~call[a.call].over
          /\ call' = [call EXCEPT ![a.call].over = TRUE, ![a.call].got = a.got]
    /\ UNCHANGED <<queue, remembered, grant, free, kept>>

-----------------------------------------------------------------------------
(* The broker's side *)

\* Defect: the locks are not kept, attempts overtake each other.
AnyWaiting == DOMAIN queue

\* The attempt that holds the locks.
Working == {1} \cap DOMAIN queue

At(i, phases) == i \in Working /\ queue[i].phase \in phases

Gone(i) == queue' = SubSeq(queue, 1, i - 1) \o SubSeq(queue, i + 1, Len(queue))

Answered(i, result) ==
    /\ Gone(i)
    /\ answers' = answers \cup {[call |-> queue[i].call, try |-> queue[i].try, got |-> result]}

Proceeds(i, phase) == queue' = [queue EXCEPT ![i].phase = phase] /\ UNCHANGED answers

Record(i) == remembered[KeyOf(queue[i].call)]

Replay(i) ==
    /\ At(i, {"claim", "again"}) /\ Record(i) # None
    /\ Answered(i, Record(i))
    /\ UNCHANGED <<call, remembered, grant, free, kept>>

Given(i, g) ==
    /\ grant[g].call = None
    /\ grant' = [grant EXCEPT ![g] = [call |-> queue[i].call, open |-> TRUE]]
    /\ free' = free - 1
    /\ Answered(i, g)

\* Defect: the answer is not remembered.
AllocateForgetting(i) ==
    /\ At(i, {"claim", "again"}) /\ Record(i) = None /\ free > 0
    /\ \E g \in Grant : Given(i, g)
    /\ UNCHANGED <<call, remembered, kept>>

\* The lease and the record of its answer are one transaction.
Allocate(i) ==
    /\ At(i, {"claim", "again"}) /\ Record(i) = None /\ free > 0
    /\ \E g \in Grant : Given(i, g) /\ remembered' = [remembered EXCEPT ![KeyOf(queue[i].call)] = g]
    /\ UNCHANGED <<call, kept>>

\* A refusal leaves nothing behind, not even a record.
Refuse(i) ==
    /\ At(i, {"claim", "again"}) /\ Record(i) = None /\ free = 0
    /\ \/ queue[i].phase = "claim" /\ kept > 0 /\ Proceeds(i, "reclaim")
       \/ (queue[i].phase = "again" \/ kept = 0) /\ Answered(i, "refused")
    /\ UNCHANGED <<call, remembered, grant, free, kept>>

\* Defect: a GPU that a worker has left is counted for both.
ReclaimTwice(i) ==
    /\ At(i, {"reclaim"})
    /\ free' = free + 1 /\ Proceeds(i, "again")
    /\ UNCHANGED <<call, remembered, grant, kept>>

\* A worker yields, or does not; and the call goes on, or ends with the error of
\* the adapter.  Going on without a GPU: the stop of a repeated call is itself a
\* replay, and ends no ownership.
Reclaim(i) ==
    /\ At(i, {"reclaim"})
    /\ \/ kept > 0 /\ free' = free + 1 /\ kept' = kept - 1
       \/ UNCHANGED <<free, kept>>
    /\ Proceeds(i, "again") \/ Answered(i, "refused")
    /\ UNCHANGED <<call, remembered, grant>>

\* A lease ends: released by its agent, reclaimed, or ended by the operator.
Ends(g) ==
    /\ grant[g].open
    /\ grant' = [grant EXCEPT ![g].open = FALSE] /\ free' = free + 1
    /\ UNCHANGED <<call, queue, answers, remembered, kept>>

\* Keepers start only under the locks; other requests come and go without.
Others ==
    /\ \/ queue = <<>> /\ free > 0 /\ free' = free - 1 /\ kept' = kept + 1
       \/ free > 0 /\ free' = free - 1 /\ UNCHANGED kept
       \/ free + kept + Cardinality(Open) < Gpus /\ free' = free + 1 /\ UNCHANGED kept
    /\ UNCHANGED <<call, queue, answers, remembered, grant>>

\* The broker stops and starts again: attempts are lost, answers under way may be.
Crash ==
    /\ queue' = <<>> /\ answers' \in {{}, answers}
    /\ UNCHANGED <<call, remembered, grant, free, kept>>

Next ==
    \/ \E c \in Call : Apply(c) \/ Fails(c)
    \/ \E a \in answers : Arrives(a)
    \/ \E i \in Working : Replay(i) \/ Allocate(i) \/ Refuse(i) \/ Reclaim(i)
    \/ \E g \in Grant : Ends(g)
    \/ Others \/ Crash

Spec == Init /\ [][Next]_vars

-----------------------------------------------------------------------------
(* Properties *)

\* However attempts and answers are lost, delayed and repeated, a call is given
\* one lease at most ("so it cannot allocate a second lease for this tool
\* invocation", gpu_apply).
OneLeasePerCall ==
    \A f, g \in Grant : grant[f].call = grant[g].call /\ grant[f].call # None => f = g

\* The lease an agent is told is one it was given, not that of another call.
AnswersAreOwn ==
    \A c \in Call : call[c].got \in Grant => grant[call[c].got].call = c

\* A call that was refused holds nothing, and a late attempt gives it nothing
\* afterwards: no lease is left that its agent believes it has not got.
RefusedHoldsNothing ==
    \A c \in Call : call[c].got = "refused" => \A g \in Open : grant[g].call # c
=============================================================================
