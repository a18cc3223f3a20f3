---------------------------- MODULE ResourcesProofs ----------------------------
(***************************************************************************)
(* What a request is given, for every number of plans, servers, leases,     *)
(* claims and calls: the invariants of the three parts MCResources plays    *)
(* beside the placement, and of their union.                                *)
(***************************************************************************)
EXTENDS MCResources, PlacementProofs, SequenceTheorems

LEMMA PlanSizes ==
    /\ MaxPlans \in Nat \ {0} /\ Size \subseteq Nat \X Nat
    /\ MaxSeconds \in Nat \ {0} /\ Hundred \in Nat \ {0}
  BY ResourcesAssumption DEF L!Bounds

-----------------------------------------------------------------------------
(* The choice of a plan: an invariant of the loop *)

Decided(k) == decided[k] \in {"smallest-feasible", "marginal-benefit-qualified"}

\* Everything up to the candidate taken was reached by steps that pay, and
\* nothing beyond it is decided for.
Reached ==
    /\ selected \in DOMAIN plans
    /\ \A k \in 1 .. selected - 1 : L!Useful(plans[k], plans[k + 1])
    /\ \A k \in DOMAIN plans : k <= selected <=> Decided(k)
    /\ L!Saved(plans[1], plans[selected]) >= (selected - 1) * minSaved
    /\ \A j, k \in DOMAIN plans : plans[j].key = plans[k].key => j = k

Loop ==
    /\ L!TypeOK
    /\ step = "check" => selected = 1 /\ \A k \in DOMAIN plans : decided[k] = "not-reached"
    /\ step \in {"choose", "store", "done"} => Reached
    /\ step = "choose" => at = selected + 1
    /\ L!Chosen => (selected + 1 \in DOMAIN plans => ~L!Useful(plans[selected], plans[selected + 1]))
    /\ step = "done" => rows = {selected}

LEMMA InitLoop == L!Init => Loop
  BY PlanSizes DEF L!Init, Loop, L!TypeOK, L!Chosen, L!Reasons

LEMMA TypeStep == ASSUME L!TypeOK, L!Next PROVE L!TypeOK'
<1> PICK n \in 1 .. MaxPlans : plans \in [1 .. n -> L!Plan] /\ decided \in [1 .. n -> L!Reasons]
  BY DEF L!TypeOK
<1> USE PlanSizes DEF L!TypeOK, L!Reasons
<1>1. CASE L!Check
  BY <1>1 DEF L!Check
<1>2. CASE L!Take
  BY <1>2 DEF L!Take
<1>3. CASE L!Exhaust
  BY <1>3 DEF L!Exhaust
<1>4. CASE L!Store
  BY <1>4 DEF L!Store
<1> QED  BY <1>1, <1>2, <1>3, <1>4 DEF L!Next

\* A candidate whose step pays extends what was reached.
LEMMA StepPays ==
  ASSUME Loop, L!Take, L!Useful(plans[selected], plans[at])
  PROVE  Reached' /\ at' = selected' + 1
<1> PICK n \in 1 .. MaxPlans : plans \in [1 .. n -> L!Plan] /\ decided \in [1 .. n -> L!Reasons]
  BY DEF Loop, L!TypeOK
<1>1. Reached /\ at = selected + 1 /\ at \in 1 .. n /\ selected \in 1 .. n /\ DOMAIN plans = 1 .. n
  BY DEF Loop, L!Take, Reached
<1>2. selected' = at /\ at' = at + 1 /\ plans' = plans /\ minSaved' = minSaved
      /\ minFraction' = minFraction
      /\ decided' = [decided EXCEPT ![at] = "marginal-benefit-qualified"]
  BY DEF L!Take
<1>3. \A k \in 1 .. selected' - 1 : L!Useful(plans[k], plans[k + 1])
  BY <1>1, <1>2 DEF Reached
<1>4. \A k \in DOMAIN plans : k <= selected' <=> Decided(k)'
  BY <1>1, <1>2 DEF Reached, Decided
<1>5. L!Saved(plans[1], plans[at]) >= (at - 1) * minSaved
  <2> DEFINE s0 == plans[1].secs
             s1 == plans[selected].secs
             s2 == plans[at].secs
  <2>1. s0 \in Int /\ s1 \in Int /\ s2 \in Int /\ minSaved \in Int /\ selected \in Int
    <3>1. \A k \in 1 .. n : plans[k].secs \in Int
      BY PlanSizes DEF L!Plan
    <3>2. minSaved \in Int
      BY PlanSizes DEF Loop, L!TypeOK
    <3> QED  BY <1>1, <3>1, <3>2
  <2>2. s0 - s1 >= (selected - 1) * minSaved /\ s1 - s2 >= minSaved
    BY <1>1 DEF Reached, L!Saved, L!Useful
  <2>3. (at - 1) * minSaved = (selected - 1) * minSaved + minSaved
    BY <1>1, <2>1
  <2>4. (selected - 1) * minSaved \in Int /\ (at - 1) * minSaved \in Int
    BY <1>1, <2>1
  <2> HIDE DEF s0, s1, s2
  <2>5. s0 - s2 >= (at - 1) * minSaved
    BY <2>1, <2>2, <2>3, <2>4
  <2> QED  BY <2>5 DEF L!Saved, s0, s1, s2
<1> QED  BY <1>1, <1>2, <1>3, <1>4, <1>5 DEF Reached, L!Useful, L!Saved

LEMMA LoopStep == ASSUME Loop, L!Next PROVE Loop'
<1>1. L!TypeOK'
  BY TypeStep DEF Loop
<1> PICK n \in 1 .. MaxPlans : plans \in [1 .. n -> L!Plan] /\ decided \in [1 .. n -> L!Reasons]
  BY DEF Loop, L!TypeOK
<1>2. CASE L!Check
  <2>1. CASE L!Valid
    <3>1. selected = 1 /\ selected' = 1 /\ at' = 2 /\ step' = "choose" /\ plans' = plans
          /\ minSaved' = minSaved /\ decided' = [decided EXCEPT ![1] = "smallest-feasible"]
      BY <1>2, <2>1 DEF L!Check, Loop
    <3>2. plans[1].secs \in Int /\ minSaved \in Int
      BY PlanSizes DEF L!Plan, Loop, L!TypeOK
    <3>3. L!Saved(plans[1], plans[1]) >= (1 - 1) * minSaved
      BY <3>2 DEF L!Saved
    <3>4. \A k \in DOMAIN plans : k <= 1 <=> Decided(k)'
      BY <1>2, <3>1 DEF Decided, Loop, L!Check
    <3>5. Reached'
      BY <2>1, <3>1, <3>3, <3>4 DEF Reached, L!Valid, L!Saved
    <3> QED  BY <1>1, <3>1, <3>5 DEF Loop, L!Chosen
  <2>2. CASE ~L!Valid
    BY <1>1, <1>2, <2>2 DEF L!Check, Loop, L!Chosen
  <2> QED  BY <2>1, <2>2
<1>3. CASE L!Take
  <2>1. CASE L!Useful(plans[selected], plans[at])
    BY <1>1, <1>3, <2>1, StepPays DEF L!Take, Loop, L!Chosen
  <2>2. CASE ~L!Useful(plans[selected], plans[at])
    <3>1. Reached /\ at = selected + 1 /\ at \in 1 .. n
      BY <1>3 DEF L!Take, Loop
    <3>2. selected' = selected /\ step' = "store" /\ plans' = plans /\ minSaved' = minSaved
          /\ minFraction' = minFraction
          /\ decided' = [decided EXCEPT ![at] = "marginal-benefit-below-threshold"]
      BY <1>3, <2>2 DEF L!Take
    <3>3. \A k \in DOMAIN plans : k <= selected <=> Decided(k)'
      BY <3>1, <3>2 DEF Reached, Decided
    <3>4. Reached'
      BY <3>1, <3>2, <3>3 DEF Reached, L!Useful, L!Saved
    <3>5. ~L!Useful(plans[selected], plans[selected + 1])'
      BY <2>2, <3>1, <3>2 DEF L!Useful, L!Saved
    <3> QED  BY <1>1, <3>2, <3>4, <3>5 DEF Loop, L!Chosen
  <2> QED  BY <2>1, <2>2
<1>4. CASE L!Exhaust
  BY <1>1, <1>4 DEF L!Exhaust, Loop, L!Chosen, Reached, Decided, L!Useful, L!Saved
<1>5. CASE L!Store
  BY <1>1, <1>5 DEF L!Store, Loop, L!Chosen, Reached, Decided, L!Useful, L!Saved
<1> QED  BY <1>2, <1>3, <1>4, <1>5 DEF L!Next

LEMMA LoopStays == ASSUME Loop, UNCHANGED L!vars PROVE Loop'
  BY DEF Loop, L!TypeOK, L!Chosen, Reached, Decided, L!Useful, L!Saved, L!vars

-----------------------------------------------------------------------------
(* Repeated calls: one lease for each, and the answer of its own *)

\* A lease and the record of its answer are written together, and say the same.
RecordsMatch ==
    /\ \A c \in Call : remembered[c] # None => grant[remembered[c]].call = c
    /\ \A g \in Grant : grant[g].call # None => remembered[grant[g].call] = g
    /\ \A g \in Grant : grant[g].open => grant[g].call # None

\* What agents are told, and are about to be told, is what is recorded.
AnswersMatch ==
    /\ \A a \in answers : a.got \in Grant => remembered[a.call] = a.got
    /\ \A c \in Call : call[c].got \in Grant => remembered[c] = call[c].got

\* Attempts of one call wait in the order in which they were sent.
AttemptsInOrder ==
    /\ \A i \in DOMAIN queue : queue[i].try <= call[queue[i].call].try
    /\ \A i, j \in DOMAIN queue : i < j /\ queue[i].call = queue[j].call => queue[i].try < queue[j].try
    /\ \A i \in DOMAIN queue : queue[i].phase = "reclaim" => remembered[queue[i].call] = None

\* A refusal is the answer to the last attempt that could have succeeded, or a
\* later attempt was sent.
RefusalsAreLast ==
    /\ \A a \in answers : a.try <= call[a.call].try
    /\ \A a \in answers : a.got = "refused" =>
          /\ \A i \in DOMAIN queue : queue[i].call = a.call => a.try < queue[i].try
          /\ a.try = call[a.call].try => remembered[a.call] = None
    /\ \A c \in Call : call[c].got = "refused" =>
          /\ call[c].over /\ call[c].try # 0
          /\ remembered[c] = None /\ \A i \in DOMAIN queue : queue[i].call # c

CallsInv ==
    /\ R!TypeOK /\ idle \in Nat /\ keeping \in Nat
    /\ RecordsMatch /\ AnswersMatch /\ AttemptsInOrder /\ RefusalsAreLast

LEMMA SameSets ==
  /\ \A S : R!Cardinality(S) = Cardinality(S)
  /\ \A S : R!IsFiniteSet(S) <=> IsFiniteSet(S)
BY DEF R!Cardinality, Cardinality, R!IsFiniteSet, IsFiniteSet

LEMMA QueueIs ==
  ASSUME R!TypeOK
  PROVE  /\ Len(queue) \in Nat /\ DOMAIN queue = 1 .. Len(queue)
         /\ \A i \in DOMAIN queue : queue[i] \in R!Attempt
         /\ R!Working \subseteq {1} /\ (1 \in R!Working <=> Len(queue) > 0)
<1>1. queue \in Seq(R!Attempt)
  BY DEF R!TypeOK
<1>2. Len(queue) \in Nat /\ DOMAIN queue = 1 .. Len(queue) /\ queue \in [1 .. Len(queue) -> R!Attempt]
  BY <1>1, LenProperties
<1> QED
  BY <1>2 DEF R!Working

\* The attempt that holds the locks is done: the others move up.
LEMMA MovesUp ==
  ASSUME R!TypeOK, NEW i \in R!Working, R!Gone(i)
  PROVE  /\ i = 1 /\ queue' \in Seq(R!Attempt) /\ DOMAIN queue' = 1 .. Len(queue) - 1
         /\ Len(queue') = Len(queue) - 1
         /\ \A k \in DOMAIN queue' : k + 1 \in DOMAIN queue /\ queue'[k] = queue[k + 1]
         /\ \A k \in DOMAIN queue' : queue'[k].phase = "claim"
<1>1. i = 1 /\ Len(queue) \in Nat /\ DOMAIN queue = 1 .. Len(queue) /\ Len(queue) > 0
      /\ \A k \in 1 .. Len(queue) : queue[k] \in R!Attempt
  BY QueueIs
<1> DEFINE Low == SubSeq(queue, 1, i - 1)  U == SubSeq(queue, i + 1, Len(queue))
<1>2. Low = <<>>
  BY <1>1, SubSeqEmpty
<1>3. U \in Seq(R!Attempt) /\ Len(U) = Len(queue) - 1
      /\ \A k \in 1 .. Len(queue) - 1 : U[k] = queue[k + 1]
  <2>1. \A k \in 2 .. Len(queue) : queue[k] \in R!Attempt
    BY <1>1
  <2>2. /\ SubSeq(queue, 2, Len(queue)) \in Seq(R!Attempt)
        /\ Len(SubSeq(queue, 2, Len(queue)))
              = IF 2 <= Len(queue) THEN Len(queue) - 2 + 1 ELSE 0
        /\ \A k \in 1 .. Len(queue) - 2 + 1 : SubSeq(queue, 2, Len(queue))[k] = queue[2 + k - 1]
    BY <1>1, <2>1, SubSeqProperties
  <2> QED
    BY <1>1, <2>2
<1>4. queue' = U
  <2>1. queue' = Low \o U
    BY DEF R!Gone
  <2> HIDE DEF Low, U
  <2> QED
    BY <1>2, <1>3, <2>1, ConcatEmptySeq
<1>5. DOMAIN queue' = 1 .. Len(queue) - 1
  <2> HIDE DEF U
  <2> QED
    BY <1>3, <1>4, LenProperties
<1>6. \A k \in 1 .. Len(queue) - 1 : queue'[k] = queue[k + 1] /\ k + 1 \in 1 .. Len(queue)
  BY <1>1, <1>3, <1>4
<1>7. \A k \in 2 .. Len(queue) : queue[k].phase = "claim"
  BY DEF R!TypeOK
<1>8. \A k \in 1 .. Len(queue) - 1 : queue'[k].phase = "claim"
  BY <1>1, <1>6, <1>7
<1> HIDE DEF U
<1> QED
  BY <1>1, <1>3, <1>4, <1>5, <1>6, <1>8

\* An attempt joins the queue, or is lost on its way.
LEMMA SentIs ==
  ASSUME R!TypeOK, NEW c \in Call, NEW n \in {1, 2}, R!Sent(c, n)
  PROVE  /\ call' = [call EXCEPT ![c].try = n]
         /\ queue' \in Seq(R!Attempt) /\ DOMAIN queue \subseteq DOMAIN queue'
         /\ DOMAIN queue' \subseteq 1 .. Len(queue) + 1
         /\ \A k \in DOMAIN queue : queue'[k] = queue[k]
         /\ \A k \in DOMAIN queue' \ DOMAIN queue :
               /\ k = Len(queue) + 1
               /\ queue'[k] = [call |-> c, try |-> n, phase |-> "claim"]
<1> DEFINE a == [call |-> c, try |-> n, phase |-> "claim"]
<1>1. queue \in Seq(R!Attempt) /\ a \in R!Attempt
  BY DEF R!TypeOK, R!Attempt
<1>2. Len(queue) \in Nat /\ DOMAIN queue = 1 .. Len(queue)
  BY QueueIs
<1>3. CASE queue' = Append(queue, a)
  <2>1. /\ Append(queue, a) \in Seq(R!Attempt) /\ Len(Append(queue, a)) = Len(queue) + 1
        /\ \A k \in 1 .. Len(queue) : Append(queue, a)[k] = queue[k]
        /\ Append(queue, a)[Len(queue) + 1] = a
    <3> HIDE DEF a
    <3> QED
      BY <1>1, AppendProperties
  <2>2. DOMAIN queue' = 1 .. Len(queue) + 1
    <3> HIDE DEF a
    <3> QED
      BY <1>3, <2>1, LenProperties
  <2> QED
    BY <1>2, <1>3, <2>1, <2>2 DEF R!Sent
<1>4. CASE UNCHANGED queue
  BY <1>1, <1>2, <1>4 DEF R!Sent
<1> QED
  BY <1>3, <1>4 DEF R!Sent

\* The attempt that holds the locks goes on.
LEMMA ProceedsIs ==
  ASSUME R!TypeOK, NEW i \in R!Working, NEW p \in {"reclaim", "again"}, R!Proceeds(i, p)
  PROVE  /\ i = 1 /\ queue' \in Seq(R!Attempt) /\ DOMAIN queue' = DOMAIN queue /\ Len(queue') = Len(queue)
         /\ \A k \in DOMAIN queue : queue'[k].call = queue[k].call /\ queue'[k].try = queue[k].try
         /\ \A k \in DOMAIN queue \ {1} : queue'[k] = queue[k]
         /\ queue'[1].phase = p
<1>1. i = 1 /\ DOMAIN queue = 1 .. Len(queue) /\ Len(queue) \in Nat /\ Len(queue) > 0
      /\ queue \in Seq(R!Attempt)
  BY QueueIs DEF R!TypeOK
<1>2. queue[1] \in R!Attempt
  BY <1>1, QueueIs
<1> DEFINE b == [queue[1] EXCEPT !.phase = p]
<1>3. b \in R!Attempt /\ b.call = queue[1].call /\ b.try = queue[1].try /\ b.phase = p
  BY <1>2 DEF R!Attempt
<1>4. queue' = [queue EXCEPT ![1] = b]
  BY <1>1 DEF R!Proceeds
<1>5. queue' \in Seq(R!Attempt) /\ Len(queue') = Len(queue)
      /\ \A j \in 1 .. Len(queue) : queue'[j] = IF j = 1 THEN b ELSE queue[j]
  <2> HIDE DEF b
  <2> QED
    BY <1>1, <1>3, <1>4, ExceptSeq
<1>6. DOMAIN queue' = 1 .. Len(queue)
  BY <1>5, LenProperties
<1> HIDE DEF b
<1> QED
  BY <1>1, <1>3, <1>5, <1>6

LEMMA CallsInit == ASSUME R!GoodGrants, R!Init PROVE CallsInv
<1>1. R!Open = {}
  BY DEF R!Init, R!Open
<1>2. Cardinality(R!Open) = 0
  BY <1>1, FS_EmptySet
<1>3. queue \in Seq(R!Attempt) /\ Len(queue) = 0 /\ DOMAIN queue = {}
  BY EmptySeq DEF R!Init
<1>4. R!TypeOK /\ idle \in Nat /\ keeping \in Nat
  <2>1. idle \in Nat /\ keeping \in Nat /\ idle + keeping + Cardinality(R!Open) \in 0 .. Gpus
    BY <1>2 DEF R!Init, R!GoodGrants
  <2>2. /\ call \in [Call -> [try : 0 .. 2, over : BOOLEAN, got : R!Outcome \cup {None}]]
        /\ answers \subseteq [call : Call, try : {1, 2}, got : R!Outcome]
        /\ remembered \in [Call -> Grant \cup {None}]
        /\ grant \in [Grant -> [call : Call \cup {None}, open : BOOLEAN]]
    BY DEF R!Init
  <2>3. \A i \in 2 .. Len(queue) : queue[i].phase = "claim"
    BY <1>3
  <2>4. queue \in Seq(R!Attempt)
    BY <1>3
  <2> QED
    BY <2>1, <2>2, <2>3, <2>4, SameSets DEF R!TypeOK
<1>5. RecordsMatch /\ AnswersMatch
  BY DEF R!Init, R!GoodGrants, RecordsMatch, AnswersMatch
<1>6. AttemptsInOrder /\ RefusalsAreLast
  BY <1>3 DEF R!Init, R!GoodGrants, AttemptsInOrder, RefusalsAreLast
<1> QED
  BY <1>4, <1>5, <1>6 DEF CallsInv

LEMMA AnswerIs ==
  ASSUME R!TypeOK, NEW a \in answers
  PROVE  a.call \in Call /\ a.try \in {1, 2} /\ a.got \in R!Outcome
  BY DEF R!TypeOK

\* An attempt is answered with what is recorded, or refused where nothing is.
LEMMA AnsweredStep ==
  ASSUME R!GoodGrants, CallsInv, NEW i \in R!Working, NEW result \in R!Outcome,
         R!Answered(i, result), UNCHANGED call,
         remembered' \in [Call -> Grant \cup {None}],
         \A d \in Call : d # queue[i].call \/ remembered[d] # None => remembered'[d] = remembered[d],
         result \in Grant => remembered'[queue[i].call] = result,
         result = "refused" => remembered'[queue[i].call] = None
  PROVE  /\ AnswersMatch' /\ AttemptsInOrder' /\ RefusalsAreLast'
         /\ answers' \subseteq [call : Call, try : {1, 2}, got : R!Outcome]
         /\ queue' \in Seq(R!Attempt) /\ \A k \in 2 .. Len(queue') : queue'[k].phase = "claim"
<1> DEFINE c == queue[i].call  n == queue[i].try
           new == [call |-> c, try |-> n, got |-> result]
<1>1. /\ i = 1 /\ queue' \in Seq(R!Attempt) /\ DOMAIN queue' = 1 .. Len(queue) - 1
      /\ Len(queue') = Len(queue) - 1
      /\ \A k \in DOMAIN queue' : k + 1 \in DOMAIN queue /\ queue'[k] = queue[k + 1]
      /\ \A k \in DOMAIN queue' : queue'[k].phase = "claim"
  BY MovesUp DEF CallsInv, R!Answered
<1>2. Len(queue) \in Nat /\ DOMAIN queue = 1 .. Len(queue) /\ i \in DOMAIN queue
      /\ c \in Call /\ n \in {1, 2} /\ \A k \in DOMAIN queue : queue[k] \in R!Attempt
  BY <1>1, QueueIs DEF CallsInv, R!Attempt
<1>3. answers' = answers \cup {new} /\ new \in [call : Call, try : {1, 2}, got : R!Outcome]
  BY <1>2 DEF R!Answered
<1>4. answers' \subseteq [call : Call, try : {1, 2}, got : R!Outcome]
  BY <1>3 DEF CallsInv, R!TypeOK
<1>5. \A k \in 2 .. Len(queue') : queue'[k].phase = "claim"
  BY <1>1
<1>6. \A a \in answers : a.call \in Call /\ a.try \in {1, 2} /\ a.got \in R!Outcome
  BY AnswerIs DEF CallsInv
<1>7. call \in [Call -> [try : 0 .. 2, over : BOOLEAN, got : R!Outcome \cup {None}]]
  BY DEF CallsInv, R!TypeOK
<1>8. \A d \in Call : remembered[d] # None => remembered'[d] = remembered[d]
  OBVIOUS
<1>9. AnswersMatch'
  <2>1. \A a \in answers : a.got \in Grant => remembered'[a.call] = a.got
    BY <1>6, <1>8 DEF CallsInv, AnswersMatch, R!GoodGrants
  <2>2. new.got \in Grant => remembered'[new.call] = new.got
    OBVIOUS
  <2>3. \A d \in Call : call'[d].got \in Grant => remembered'[d] = call'[d].got
    BY <1>8 DEF CallsInv, AnswersMatch, R!GoodGrants
  <2> HIDE DEF new
  <2> QED
    BY <1>3, <2>1, <2>2, <2>3 DEF AnswersMatch
<1>10. AttemptsInOrder'
  <2>1. \A k \in DOMAIN queue' : queue'[k].try <= call'[queue'[k].call].try
    BY <1>1 DEF CallsInv, AttemptsInOrder
  <2>2. \A k, l \in DOMAIN queue' : k < l /\ queue'[k].call = queue'[l].call => queue'[k].try < queue'[l].try
    <3> SUFFICES ASSUME NEW k \in DOMAIN queue', NEW l \in DOMAIN queue', k < l,
                        queue'[k].call = queue'[l].call
                 PROVE  queue'[k].try < queue'[l].try
      OBVIOUS
    <3>1. k + 1 < l + 1 /\ k + 1 \in DOMAIN queue /\ l + 1 \in DOMAIN queue
      BY <1>1, <1>2
    <3>2. queue[k + 1].call = queue[l + 1].call => queue[k + 1].try < queue[l + 1].try
      BY <3>1 DEF CallsInv, AttemptsInOrder
    <3> QED
      BY <1>1, <3>2
  <2> QED
    BY <1>1, <2>1, <2>2 DEF AttemptsInOrder
<1>11. \A k \in DOMAIN queue' : queue'[k].call = c => n < queue'[k].try
  <2> SUFFICES ASSUME NEW k \in DOMAIN queue', queue'[k].call = c PROVE n < queue'[k].try
    OBVIOUS
  <2>1. 1 < k + 1 /\ k + 1 \in DOMAIN queue /\ queue[k + 1].call = queue[1].call
    BY <1>1, <1>2
  <2> QED
    BY <1>1, <1>2, <2>1 DEF CallsInv, AttemptsInOrder
<1>12. n <= call[c].try
  BY <1>2 DEF CallsInv, AttemptsInOrder
<1>13. \A a \in answers : a.got = "refused" =>
          /\ \A k \in DOMAIN queue' : queue'[k].call = a.call => a.try < queue'[k].try
          /\ a.try = call[a.call].try => remembered'[a.call] = None
  <2> SUFFICES ASSUME NEW a \in answers, a.got = "refused"
               PROVE  /\ \A k \in DOMAIN queue' : queue'[k].call = a.call => a.try < queue'[k].try
                      /\ a.try = call[a.call].try => remembered'[a.call] = None
    OBVIOUS
  <2>1. /\ \A k \in DOMAIN queue : queue[k].call = a.call => a.try < queue[k].try
        /\ a.try = call[a.call].try => remembered[a.call] = None
    BY DEF CallsInv, RefusalsAreLast
  <2>2. a.try = call[a.call].try => a.call # c
    BY <1>2, <1>6, <1>7, <1>12, <2>1
  <2> QED
    BY <1>1, <1>6, <2>1, <2>2
<1>14. RefusalsAreLast'
  <2>1. \A a \in answers' : a.try <= call'[a.call].try
    <3>1. \A a \in answers : a.try <= call[a.call].try
      BY DEF CallsInv, RefusalsAreLast
    <3>2. new.try = n /\ new.call = c
      OBVIOUS
    <3> HIDE DEF new, c, n
    <3> QED
      BY <1>3, <1>12, <3>1, <3>2
  <2>2. \A a \in answers' : a.got = "refused" =>
          /\ \A k \in DOMAIN queue' : queue'[k].call = a.call => a.try < queue'[k].try
          /\ a.try = call'[a.call].try => remembered'[a.call] = None
    <3>1. new.try = n /\ new.call = c /\ (new.got = "refused" => remembered'[c] = None)
      OBVIOUS
    <3> HIDE DEF new, c, n
    <3> QED
      BY <1>3, <1>11, <1>13, <3>1
  <2>3. \A d \in Call : call'[d].got = "refused" =>
          /\ call'[d].over /\ call'[d].try # 0
          /\ remembered'[d] = None /\ \A k \in DOMAIN queue' : queue'[k].call # d
    BY <1>1, <1>2 DEF CallsInv, RefusalsAreLast
  <2> QED
    BY <2>1, <2>2, <2>3 DEF RefusalsAreLast
<1> QED
  BY <1>1, <1>4, <1>5, <1>9, <1>10, <1>14

LEMMA OpenIs ==
  ASSUME R!GoodGrants
  PROVE  R!Open \subseteq Grant /\ IsFiniteSet(R!Open) /\ Cardinality(R!Open) \in Nat
<1>1. R!Open \in SUBSET Grant /\ IsFiniteSet(Grant)
  BY SameSets DEF R!Open, R!GoodGrants
<1>2. IsFiniteSet(R!Open)
  BY <1>1, FS_Subset
<1> QED
  BY <1>1, <1>2, FS_CardinalityType

LEMMA ApplyOrFails ==
  ASSUME R!GoodGrants, CallsInv, NEW c \in Call, R!Apply(c) \/ R!Fails(c)
  PROVE  CallsInv'
<1>1. UNCHANGED <<answers, remembered, grant, idle, keeping>>
  BY DEF R!Apply, R!Fails
<1>2. R!Open' = R!Open
  BY <1>1 DEF R!Open
<1>3. call \in [Call -> [try : 0 .. 2, over : BOOLEAN, got : R!Outcome \cup {None}]]
  BY DEF CallsInv, R!TypeOK
<1>4. Len(queue) \in Nat /\ DOMAIN queue = 1 .. Len(queue)
      /\ \A k \in DOMAIN queue : queue[k] \in R!Attempt
  BY QueueIs DEF CallsInv
<1>5. \A a \in answers : a.call \in Call /\ a.try \in {1, 2} /\ a.got \in R!Outcome
  BY AnswerIs DEF CallsInv
<1>6. RecordsMatch'
  BY <1>1 DEF CallsInv, RecordsMatch
<1>7. ASSUME NEW n \in {1, 2}, R!Sent(c, n), call[c].try < n, call[c].got # "refused"
      PROVE  CallsInv'
  <2>1. /\ call' = [call EXCEPT ![c].try = n]
        /\ queue' \in Seq(R!Attempt) /\ DOMAIN queue \subseteq DOMAIN queue'
        /\ DOMAIN queue' \subseteq 1 .. Len(queue) + 1
        /\ \A k \in DOMAIN queue : queue'[k] = queue[k]
        /\ \A k \in DOMAIN queue' \ DOMAIN queue :
               /\ k = Len(queue) + 1
               /\ queue'[k] = [call |-> c, try |-> n, phase |-> "claim"]
    BY <1>7, SentIs DEF CallsInv
  <2>2. /\ call' \in [Call -> [try : 0 .. 2, over : BOOLEAN, got : R!Outcome \cup {None}]]
        /\ call'[c].try = n /\ \A d \in Call : call'[d].got = call[d].got /\ call'[d].over = call[d].over
        /\ \A d \in Call \ {c} : call'[d] = call[d]
    BY <1>3, <2>1
  <2>3. DOMAIN queue' = 1 .. Len(queue')
    BY <2>1, LenProperties
  <2>4. \A k \in DOMAIN queue' : k \in Nat /\ (k \in DOMAIN queue \/
           (k = Len(queue) + 1 /\ queue'[k].call = c /\ queue'[k].try = n /\ queue'[k].phase = "claim"))
    BY <2>1
  <2>5. R!TypeOK' /\ idle' \in Nat /\ keeping' \in Nat
    <3>1. \A k \in 2 .. Len(queue') : queue'[k].phase = "claim"
      <4> SUFFICES ASSUME NEW k \in 2 .. Len(queue') PROVE queue'[k].phase = "claim"
        OBVIOUS
      <4>1. k \in DOMAIN queue'
        BY <2>3
      <4>2. CASE k \in DOMAIN queue
        <5>1. queue[k].phase = "claim"
          BY <1>4, <4>2 DEF CallsInv, R!TypeOK
        <5> QED
          BY <2>1, <4>2, <5>1
      <4> QED
        BY <2>4, <4>1, <4>2
    <3> QED
      BY <1>1, <1>2, <2>1, <2>2, <3>1 DEF CallsInv, R!TypeOK, R!Outcome
  <2>6. AnswersMatch'
    BY <1>1, <2>2 DEF CallsInv, AnswersMatch
  <2>7. AttemptsInOrder'
    <3>1. \A k \in DOMAIN queue' : queue'[k].try <= call'[queue'[k].call].try
      <4> SUFFICES ASSUME NEW k \in DOMAIN queue' PROVE queue'[k].try <= call'[queue'[k].call].try
        OBVIOUS
      <4>1. CASE k \in DOMAIN queue
        <5>1. queue[k].try <= call[queue[k].call].try /\ queue[k].call \in Call /\ queue[k].try \in Nat
          BY <1>4, <4>1 DEF CallsInv, AttemptsInOrder, R!Attempt
        <5> QED
          BY <1>3, <1>7, <2>1, <2>2, <4>1, <5>1
      <4> QED
        BY <2>2, <2>4, <4>1
    <3>2. \A k, l \in DOMAIN queue' : k < l /\ queue'[k].call = queue'[l].call => queue'[k].try < queue'[l].try
      <4> SUFFICES ASSUME NEW k \in DOMAIN queue', NEW l \in DOMAIN queue', k < l,
                          queue'[k].call = queue'[l].call
                   PROVE  queue'[k].try < queue'[l].try
        OBVIOUS
      <4>1. k \in DOMAIN queue
        BY <1>4, <2>4
      <4>2. queue[k].try <= call[queue[k].call].try /\ queue[k].try \in Nat /\ queue'[k] = queue[k]
            /\ queue[k].call \in Call /\ call[queue[k].call].try \in Nat
        BY <1>3, <1>4, <2>1, <4>1 DEF CallsInv, AttemptsInOrder, R!Attempt
      <4>3. CASE l \in DOMAIN queue
        BY <2>1, <4>1, <4>3 DEF CallsInv, AttemptsInOrder
      <4> QED
        BY <1>7, <2>4, <4>2, <4>3
    <3>3. \A k \in DOMAIN queue' : queue'[k].phase = "reclaim" => remembered'[queue'[k].call] = None
      BY <1>1, <2>1, <2>4 DEF CallsInv, AttemptsInOrder
    <3> QED
      BY <3>1, <3>2, <3>3 DEF AttemptsInOrder
  <2>8. RefusalsAreLast'
    <3>1. \A a \in answers : a.try <= call[a.call].try
      BY DEF CallsInv, RefusalsAreLast
    <3>2. \A a \in answers : a.call = c => a.try < n
      BY <1>3, <1>5, <1>7, <3>1
    <3>3. \A a \in answers : a.try <= call'[a.call].try
      BY <1>3, <1>5, <2>2, <3>1, <3>2
    <3>4. \A a \in answers : a.got = "refused" =>
             /\ \A k \in DOMAIN queue' : queue'[k].call = a.call => a.try < queue'[k].try
             /\ a.try = call'[a.call].try => remembered'[a.call] = None
      <4> SUFFICES ASSUME NEW a \in answers, a.got = "refused"
                   PROVE  /\ \A k \in DOMAIN queue' : queue'[k].call = a.call => a.try < queue'[k].try
                          /\ a.try = call'[a.call].try => remembered'[a.call] = None
        OBVIOUS
      <4>1. /\ \A k \in DOMAIN queue : queue[k].call = a.call => a.try < queue[k].try
            /\ a.try = call[a.call].try => remembered[a.call] = None
        BY DEF CallsInv, RefusalsAreLast
      <4>2. \A k \in DOMAIN queue' : queue'[k].call = a.call => a.try < queue'[k].try
        BY <2>1, <2>4, <3>2, <4>1
      <4>3. a.try = call'[a.call].try => remembered'[a.call] = None
        <5>1. CASE a.call = c
          BY <1>5, <2>2, <3>2, <5>1
        <5>2. CASE a.call # c
          BY <1>1, <1>5, <2>2, <4>1, <5>2
        <5> QED
          BY <5>1, <5>2
      <4> QED
        BY <4>2, <4>3
    <3>5. \A d \in Call : call'[d].got = "refused" =>
            /\ call'[d].over /\ call'[d].try # 0
            /\ remembered'[d] = None /\ \A k \in DOMAIN queue' : queue'[k].call # d
      BY <1>1, <1>7, <2>1, <2>2, <2>4 DEF CallsInv, RefusalsAreLast
    <3> QED
      BY <1>1, <3>3, <3>4, <3>5 DEF RefusalsAreLast
  <2> QED
    BY <1>6, <2>5, <2>6, <2>7, <2>8 DEF CallsInv
<1>8. \A d \in Call : call[d].got = "refused" => call[d].over /\ call[d].try # 0
  BY DEF CallsInv, RefusalsAreLast
<1>9. CASE R!Apply(c)
  <2>1. R!Sent(c, 1) /\ call[c].try < 1 /\ call[c].got # "refused"
    BY <1>8, <1>9 DEF R!Apply
  <2> QED
    BY <1>7, <2>1
<1>10. CASE R!Fails(c) /\ call[c].try = 1 /\ R!Sent(c, 2)
  <2>1. call[c].try < 2 /\ call[c].got # "refused"
    BY <1>8, <1>10 DEF R!Fails
  <2> QED
    BY <1>7, <1>10, <2>1
<1>11. CASE R!Fails(c) /\ call' = [call EXCEPT ![c].over = TRUE] /\ UNCHANGED queue
  <2>1. /\ call' \in [Call -> [try : 0 .. 2, over : BOOLEAN, got : R!Outcome \cup {None}]]
        /\ \A d \in Call : call'[d].got = call[d].got /\ call'[d].try = call[d].try
        /\ \A d \in Call : call[d].over => call'[d].over
    BY <1>3, <1>11
  <2>2. R!TypeOK' /\ idle' \in Nat /\ keeping' \in Nat
    BY <1>1, <1>2, <1>11, <2>1 DEF CallsInv, R!TypeOK, R!Outcome
  <2>3. AnswersMatch' /\ RefusalsAreLast'
    BY <1>1, <1>5, <1>11, <2>1 DEF CallsInv, AnswersMatch, RefusalsAreLast
  <2>4. AttemptsInOrder'
    BY <1>1, <1>4, <1>11, <2>1 DEF CallsInv, AttemptsInOrder, R!Attempt
  <2> QED
    BY <1>6, <2>2, <2>3, <2>4 DEF CallsInv
<1> QED
  BY <1>9, <1>10, <1>11 DEF R!Fails

LEMMA ArrivesStep ==
  ASSUME R!GoodGrants, CallsInv, NEW a \in answers, R!Arrives(a)
  PROVE  CallsInv'
<1>1. UNCHANGED <<queue, remembered, grant, idle, keeping>> /\ answers' = answers \ {a}
  BY DEF R!Arrives
<1>2. R!Open' = R!Open
  BY <1>1 DEF R!Open
<1>3. call \in [Call -> [try : 0 .. 2, over : BOOLEAN, got : R!Outcome \cup {None}]]
  BY DEF CallsInv, R!TypeOK
<1>4. \A k \in DOMAIN queue : queue[k] \in R!Attempt
  BY QueueIs DEF CallsInv
<1>5. \A b \in answers : b.call \in Call /\ b.try \in {1, 2} /\ b.got \in R!Outcome
  BY AnswerIs DEF CallsInv
<1>6. /\ call' \in [Call -> [try : 0 .. 2, over : BOOLEAN, got : R!Outcome \cup {None}]]
      /\ \A d \in Call : call'[d].try = call[d].try
      /\ \A d \in Call :
            \/ call'[d] = call[d]
            \/ d = a.call /\ a.try = call[d].try /\ call'[d].over /\ call'[d].got = a.got
  <2>1. CASE UNCHANGED call
    BY <1>3, <2>1
  <2>2. CASE /\ call[a.call].try = a.try
             /\ call' = [call EXCEPT ![a.call].over = TRUE, ![a.call].got = a.got]
    BY <1>3, <1>5, <2>2
  <2> QED
    BY <2>1, <2>2 DEF R!Arrives
<1>7. R!TypeOK' /\ idle' \in Nat /\ keeping' \in Nat
  BY <1>1, <1>2, <1>6 DEF CallsInv, R!TypeOK, R!Outcome
<1>8. RecordsMatch'
  BY <1>1 DEF CallsInv, RecordsMatch
<1>9. AnswersMatch'
  BY <1>1, <1>6 DEF CallsInv, AnswersMatch
<1>10. AttemptsInOrder'
  BY <1>1, <1>4, <1>6 DEF CallsInv, AttemptsInOrder, R!Attempt
<1>11. RefusalsAreLast'
  <2>1. \A b \in answers' : b.try <= call'[b.call].try
    BY <1>1, <1>5, <1>6 DEF CallsInv, RefusalsAreLast
  <2>2. \A b \in answers' : b.got = "refused" =>
          /\ \A k \in DOMAIN queue' : queue'[k].call = b.call => b.try < queue'[k].try
          /\ b.try = call'[b.call].try => remembered'[b.call] = None
    BY <1>1, <1>5, <1>6 DEF CallsInv, RefusalsAreLast
  <2>3. ASSUME NEW d \in Call, call'[d].got = "refused"
        PROVE  /\ call'[d].over /\ call'[d].try # 0
               /\ remembered'[d] = None /\ \A k \in DOMAIN queue' : queue'[k].call # d
    <3>1. CASE call'[d] = call[d]
      BY <1>1, <2>3, <3>1 DEF CallsInv, RefusalsAreLast
    <3>2. CASE d = a.call /\ a.try = call[d].try /\ call'[d].over /\ call'[d].got = a.got
      <4>1. /\ \A k \in DOMAIN queue : queue[k].call = d => call[d].try < queue[k].try
            /\ remembered[d] = None
        BY <2>3, <3>2 DEF CallsInv, RefusalsAreLast
      <4>2. \A k \in DOMAIN queue : queue[k].call = d => queue[k].try <= call[d].try /\ queue[k].try \in Nat
        BY <1>4 DEF CallsInv, AttemptsInOrder, R!Attempt
      <4>3. call[d].try \in Nat /\ call'[d].try # 0
        BY <1>3, <1>5, <1>6, <3>2
      <4> QED
        BY <1>1, <3>2, <4>1, <4>2, <4>3
    <3> QED
      BY <1>6, <3>1, <3>2
  <2> QED
    BY <2>1, <2>2, <2>3 DEF RefusalsAreLast
<1> QED
  BY <1>7, <1>8, <1>9, <1>10, <1>11 DEF CallsInv

LEMMA HeadIs ==
  ASSUME R!GoodGrants, CallsInv, NEW i \in R!Working
  PROVE  /\ i = 1 /\ i \in DOMAIN queue /\ queue[i] \in R!Attempt /\ queue[i].call \in Call
         /\ R!Record(i) = remembered[queue[i].call]
  BY QueueIs DEF CallsInv, R!Attempt, R!Record, R!KeyOf

\* An attempt is answered, and no lease is given.
LEMMA AnsweredOnly ==
  ASSUME R!GoodGrants, CallsInv, NEW i \in R!Working, NEW result \in R!Outcome,
         R!Answered(i, result), UNCHANGED <<call, remembered, grant>>,
         idle' \in Nat, keeping' \in Nat, idle' + keeping' = idle + keeping,
         result \in Grant => R!Record(i) = result,
         result = "refused" => R!Record(i) = None
  PROVE  CallsInv'
<1>1. R!Open' = R!Open
  BY DEF R!Open
<1>2. R!Record(i) = remembered[queue[i].call]
  BY HeadIs
<1>3. remembered \in [Call -> Grant \cup {None}]
  BY DEF CallsInv, R!TypeOK
<1>4. /\ AnswersMatch' /\ AttemptsInOrder' /\ RefusalsAreLast'
      /\ answers' \subseteq [call : Call, try : {1, 2}, got : R!Outcome]
      /\ queue' \in Seq(R!Attempt) /\ \A k \in 2 .. Len(queue') : queue'[k].phase = "claim"
  BY <1>2, <1>3, AnsweredStep
<1>5. RecordsMatch'
  BY DEF CallsInv, RecordsMatch
<1>6. idle' + keeping' + R!Cardinality(R!Open)' \in 0 .. Gpus
  BY <1>1 DEF CallsInv, R!TypeOK
<1>7. R!TypeOK'
  BY <1>4, <1>6 DEF CallsInv, R!TypeOK, R!Outcome
<1> QED
  BY <1>4, <1>5, <1>7 DEF CallsInv

LEMMA ReplayStep ==
  ASSUME R!GoodGrants, CallsInv, NEW i \in R!Working, R!Replay(i)
  PROVE  CallsInv'
<1>1. R!Record(i) \in Grant /\ R!Record(i) \in R!Outcome /\ R!Record(i) # "refused"
  BY HeadIs DEF CallsInv, R!TypeOK, R!Replay, R!GoodGrants, R!Outcome
<1> QED
  BY <1>1, AnsweredOnly DEF R!Replay, CallsInv

\* The attempt that holds the locks goes on, and nothing is promised.
LEMMA ProceedsOnly ==
  ASSUME R!GoodGrants, CallsInv, NEW i \in R!Working, NEW p \in {"reclaim", "again"},
         R!Proceeds(i, p), UNCHANGED <<call, remembered, grant>>,
         idle' \in Nat, keeping' \in Nat, idle' + keeping' = idle + keeping,
         R!Record(i) = None
  PROVE  CallsInv'
<1>1. /\ i = 1 /\ queue' \in Seq(R!Attempt) /\ DOMAIN queue' = DOMAIN queue /\ Len(queue') = Len(queue)
      /\ \A k \in DOMAIN queue : queue'[k].call = queue[k].call /\ queue'[k].try = queue[k].try
      /\ \A k \in DOMAIN queue \ {1} : queue'[k] = queue[k]
      /\ UNCHANGED answers
  BY ProceedsIs DEF CallsInv, R!Proceeds
<1>2. R!Open' = R!Open
  BY DEF R!Open
<1>3. i \in DOMAIN queue /\ remembered[queue[i].call] = None
      /\ Len(queue) \in Nat /\ DOMAIN queue = 1 .. Len(queue)
  BY HeadIs, QueueIs DEF CallsInv
<1>4. idle' + keeping' + R!Cardinality(R!Open)' \in 0 .. Gpus
  BY <1>2 DEF CallsInv, R!TypeOK
<1>5. \A k \in 2 .. Len(queue') : queue'[k].phase = "claim"
  BY <1>1, <1>3 DEF CallsInv, R!TypeOK
<1>6. R!TypeOK'
  BY <1>1, <1>4, <1>5 DEF CallsInv, R!TypeOK, R!Outcome
<1>7. RecordsMatch' /\ AnswersMatch'
  BY <1>1 DEF CallsInv, RecordsMatch, AnswersMatch
<1>8. AttemptsInOrder'
  <2>1. \A k \in DOMAIN queue' : queue'[k].try <= call'[queue'[k].call].try
    BY <1>1 DEF CallsInv, AttemptsInOrder
  <2>2. \A k, l \in DOMAIN queue' : k < l /\ queue'[k].call = queue'[l].call => queue'[k].try < queue'[l].try
    BY <1>1 DEF CallsInv, AttemptsInOrder
  <2>3. \A k \in DOMAIN queue' : queue'[k].phase = "reclaim" => remembered'[queue'[k].call] = None
    BY <1>1, <1>3 DEF CallsInv, AttemptsInOrder
  <2> QED
    BY <2>1, <2>2, <2>3 DEF AttemptsInOrder
<1>9. RefusalsAreLast'
  BY <1>1 DEF CallsInv, RefusalsAreLast
<1> QED
  BY <1>6, <1>7, <1>8, <1>9 DEF CallsInv

LEMMA RefuseStep ==
  ASSUME R!GoodGrants, CallsInv, NEW i \in R!Working, R!Refuse(i)
  PROVE  CallsInv'
<1>1. UNCHANGED <<call, remembered, grant, idle, keeping>> /\ R!Record(i) = None
      /\ idle \in Nat /\ keeping \in Nat
  BY DEF R!Refuse, CallsInv
<1>2. CASE R!Proceeds(i, "reclaim")
  BY <1>1, <1>2, ProceedsOnly
<1>3. CASE R!Answered(i, "refused")
  BY <1>1, <1>3, AnsweredOnly DEF R!Outcome, R!GoodGrants
<1> QED
  BY <1>2, <1>3 DEF R!Refuse

LEMMA ReclaimStep ==
  ASSUME R!GoodGrants, CallsInv, NEW i \in R!Working, R!Reclaim(i)
  PROVE  CallsInv'
<1>1. R!Record(i) = None
  BY HeadIs DEF R!Reclaim, R!At, CallsInv, AttemptsInOrder
<1>2. UNCHANGED <<call, remembered, grant>>
      /\ idle' \in Nat /\ keeping' \in Nat /\ idle' + keeping' = idle + keeping
  BY DEF R!Reclaim, CallsInv
<1>3. CASE R!Proceeds(i, "again")
  BY <1>1, <1>2, <1>3, ProceedsOnly
<1>4. CASE R!Answered(i, "refused")
  BY <1>1, <1>2, <1>4, AnsweredOnly DEF R!Outcome, R!GoodGrants
<1> QED
  BY <1>3, <1>4 DEF R!Reclaim

LEMMA AllocateStep ==
  ASSUME R!GoodGrants, CallsInv, NEW i \in R!Working, R!Allocate(i)
  PROVE  CallsInv'
<1> DEFINE c == queue[i].call
<1>1. i = 1 /\ i \in DOMAIN queue /\ c \in Call /\ remembered[c] = None
      /\ queue[i] \in R!Attempt
  BY HeadIs DEF R!Allocate
<1>2. PICK g \in Grant : R!Given(i, g) /\ remembered' = [remembered EXCEPT ![c] = g]
  BY DEF R!Allocate, R!KeyOf
<1>3. /\ grant[g].call = None
      /\ grant' = [grant EXCEPT ![g] = [call |-> c, open |-> TRUE]]
      /\ idle' = idle - 1 /\ R!Answered(i, g) /\ idle > 0 /\ UNCHANGED <<call, keeping>>
  BY <1>2 DEF R!Given, R!Allocate
<1>4. remembered \in [Call -> Grant \cup {None}] /\ grant \in [Grant -> [call : Call \cup {None}, open : BOOLEAN]]
      /\ idle \in Nat /\ keeping \in Nat /\ idle + keeping + Cardinality(R!Open) \in 0 .. Gpus
  BY SameSets DEF CallsInv, R!TypeOK
<1>5. /\ remembered' \in [Call -> Grant \cup {None}] /\ remembered'[c] = g
      /\ \A d \in Call : d # c => remembered'[d] = remembered[d]
  BY <1>1, <1>2, <1>4
<1>6. /\ grant' \in [Grant -> [call : Call \cup {None}, open : BOOLEAN]]
      /\ grant'[g].call = c /\ grant'[g].open /\ \A h \in Grant : h # g => grant'[h] = grant[h]
  BY <1>1, <1>3, <1>4
<1>7. g \in R!Outcome /\ g # "refused" /\ c # None
  BY <1>1 DEF R!Outcome, R!GoodGrants
<1>8. /\ AnswersMatch' /\ AttemptsInOrder' /\ RefusalsAreLast'
      /\ answers' \subseteq [call : Call, try : {1, 2}, got : R!Outcome]
      /\ queue' \in Seq(R!Attempt) /\ \A k \in 2 .. Len(queue') : queue'[k].phase = "claim"
  BY <1>1, <1>3, <1>5, <1>7, AnsweredStep
<1>9. g \notin R!Open /\ R!Open' = R!Open \cup {g}
  <2>1. grant[g].open => grant[g].call # None
    BY DEF CallsInv, RecordsMatch
  <2> QED
    BY <1>3, <1>6, <2>1 DEF R!Open
<1>10. Cardinality(R!Open') = Cardinality(R!Open) + 1
  BY <1>9, OpenIs, FS_AddElement
<1>11. R!TypeOK' /\ idle' \in Nat /\ keeping' \in Nat
  <2>1. idle' \in Nat /\ keeping' \in Nat /\ idle' + keeping' + Cardinality(R!Open') \in 0 .. Gpus
    BY <1>3, <1>4, <1>10, OpenIs
  <2> QED
    BY <1>3, <1>5, <1>6, <1>8, <2>1, SameSets DEF CallsInv, R!TypeOK, R!Outcome
<1>12. RecordsMatch'
  <2>1. \A d \in Call : remembered[d] # g
    BY <1>3, <1>4 DEF CallsInv, RecordsMatch, R!GoodGrants
  <2>2. \A d \in Call : remembered'[d] # None => grant'[remembered'[d]].call = d
    BY <1>4, <1>5, <1>6, <2>1 DEF CallsInv, RecordsMatch
  <2>3. \A h \in Grant : grant'[h].call # None => remembered'[grant'[h].call] = h
    <3> SUFFICES ASSUME NEW h \in Grant, h # g, grant[h].call # None
                 PROVE  remembered'[grant[h].call] = h
      BY <1>5, <1>6
    <3>1. remembered[grant[h].call] = h /\ grant[h].call \in Call
      BY <1>4 DEF CallsInv, RecordsMatch
    <3> QED
      BY <1>1, <1>5, <3>1 DEF R!GoodGrants
  <2>4. \A h \in Grant : grant'[h].open => grant'[h].call # None
    BY <1>6, <1>7 DEF CallsInv, RecordsMatch
  <2> QED
    BY <2>2, <2>3, <2>4 DEF RecordsMatch
<1> QED
  BY <1>8, <1>11, <1>12 DEF CallsInv

LEMMA EndsStep ==
  ASSUME R!GoodGrants, CallsInv, NEW g \in Grant, R!Ends(g)
  PROVE  CallsInv'
<1>1. grant[g].open /\ grant' = [grant EXCEPT ![g].open = FALSE] /\ idle' = idle + 1
      /\ UNCHANGED <<call, queue, answers, remembered, keeping>>
  BY DEF R!Ends
<1>2. grant \in [Grant -> [call : Call \cup {None}, open : BOOLEAN]]
      /\ idle \in Nat /\ keeping \in Nat /\ idle + keeping + Cardinality(R!Open) \in 0 .. Gpus
  BY SameSets DEF CallsInv, R!TypeOK
<1>3. /\ grant' \in [Grant -> [call : Call \cup {None}, open : BOOLEAN]]
      /\ \A h \in Grant : grant'[h].call = grant[h].call
      /\ \A h \in Grant : grant'[h].open <=> grant[h].open /\ h # g
  BY <1>1, <1>2
<1>4. g \in R!Open /\ R!Open' = R!Open \ {g}
  BY <1>1, <1>3 DEF R!Open
<1>5. Cardinality(R!Open') = Cardinality(R!Open) - 1
  BY <1>4, OpenIs, FS_RemoveElement
<1>6. R!TypeOK' /\ idle' \in Nat /\ keeping' \in Nat
  <2>1. idle' \in Nat /\ keeping' \in Nat /\ idle' + keeping' + Cardinality(R!Open') \in 0 .. Gpus
    BY <1>1, <1>2, <1>5, OpenIs
  <2> QED
    BY <1>1, <1>3, <2>1, SameSets DEF CallsInv, R!TypeOK, R!Outcome
<1>7. RecordsMatch'
  BY <1>1, <1>2, <1>3 DEF CallsInv, RecordsMatch, R!TypeOK, R!GoodGrants
<1>8. AnswersMatch' /\ AttemptsInOrder' /\ RefusalsAreLast'
  BY <1>1 DEF CallsInv, AnswersMatch, AttemptsInOrder, RefusalsAreLast
<1> QED
  BY <1>6, <1>7, <1>8 DEF CallsInv

LEMMA OthersStep == ASSUME R!GoodGrants, CallsInv, R!Others PROVE CallsInv'
<1>1. UNCHANGED <<call, queue, answers, remembered, grant>>
  BY DEF R!Others
<1>2. R!Open' = R!Open
  BY <1>1 DEF R!Open
<1>3. idle \in Nat /\ keeping \in Nat /\ idle + keeping + Cardinality(R!Open) \in 0 .. Gpus
      /\ Cardinality(R!Open) \in Nat /\ Gpus \in Nat
  BY SameSets, OpenIs DEF CallsInv, R!TypeOK, R!GoodGrants
<1>4. idle' \in Nat /\ keeping' \in Nat /\ idle' + keeping' + Cardinality(R!Open) \in 0 .. Gpus
  BY <1>3, SameSets DEF R!Others
<1>5. R!TypeOK'
  BY <1>1, <1>2, <1>4, SameSets DEF CallsInv, R!TypeOK, R!Outcome
<1>6. RecordsMatch' /\ AnswersMatch' /\ AttemptsInOrder' /\ RefusalsAreLast'
  BY <1>1 DEF CallsInv, RecordsMatch, AnswersMatch, AttemptsInOrder, RefusalsAreLast
<1> QED
  BY <1>4, <1>5, <1>6 DEF CallsInv

LEMMA CallsCrash == ASSUME R!GoodGrants, CallsInv, R!Crash PROVE CallsInv'
<1>1. queue' = <<>> /\ answers' \subseteq answers /\ UNCHANGED <<call, remembered, grant, idle, keeping>>
  BY DEF R!Crash
<1>2. R!Open' = R!Open
  BY <1>1 DEF R!Open
<1>3. queue' \in Seq(R!Attempt) /\ Len(queue') = 0 /\ DOMAIN queue' = {}
  BY <1>1, EmptySeq
<1>4. \A k \in 2 .. Len(queue') : queue'[k].phase = "claim"
  BY <1>3
<1>5. R!TypeOK' /\ idle' \in Nat /\ keeping' \in Nat
  BY <1>1, <1>2, <1>3, <1>4 DEF CallsInv, R!TypeOK, R!Outcome
<1>6. RecordsMatch' /\ AnswersMatch'
  BY <1>1 DEF CallsInv, RecordsMatch, AnswersMatch
<1>7. AttemptsInOrder' /\ RefusalsAreLast'
  BY <1>1, <1>3 DEF CallsInv, AttemptsInOrder, RefusalsAreLast
<1> QED
  BY <1>5, <1>6, <1>7 DEF CallsInv

LEMMA CallsStep == ASSUME R!GoodGrants, CallsInv, [R!Next]_(R!vars) PROVE CallsInv'
<1>1. ASSUME NEW c \in Call, R!Apply(c) \/ R!Fails(c) PROVE CallsInv'
  BY <1>1, ApplyOrFails
<1>2. ASSUME NEW a \in answers, R!Arrives(a) PROVE CallsInv'
  BY <1>2, ArrivesStep
<1>3. ASSUME NEW i \in R!Working, R!Replay(i) \/ R!Allocate(i) \/ R!Refuse(i) \/ R!Reclaim(i)
      PROVE  CallsInv'
  BY <1>3, ReplayStep, AllocateStep, RefuseStep, ReclaimStep
<1>4. ASSUME NEW g \in Grant, R!Ends(g) PROVE CallsInv'
  BY <1>4, EndsStep
<1>5. CASE UNCHANGED R!vars
  <2>1. UNCHANGED <<call, queue, answers, remembered, grant, idle, keeping>>
    BY <1>5 DEF R!vars
  <2>2. R!Open' = R!Open
    BY <2>1 DEF R!Open
  <2> QED
    BY <2>1, <2>2 DEF CallsInv, R!TypeOK, R!Outcome, RecordsMatch, AnswersMatch, AttemptsInOrder,
          RefusalsAreLast
<1> QED
  BY <1>1, <1>2, <1>3, <1>4, <1>5, OthersStep, CallsCrash DEF R!Next

THEOREM CallsInvariant == ASSUME R!GoodGrants PROVE R!Spec => []CallsInv
<1>1. R!Init => CallsInv
  BY CallsInit
<1>2. CallsInv /\ [R!Next]_(R!vars) => CallsInv'
  BY CallsStep
<1> QED
  BY <1>1, <1>2, PTL DEF R!Spec

LEMMA CallsAreOwn == ASSUME R!GoodGrants, CallsInv PROVE R!OneLeasePerCall /\ R!AnswersAreOwn
<1>1. R!OneLeasePerCall
  BY DEF CallsInv, RecordsMatch, R!OneLeasePerCall
<1>2. R!AnswersAreOwn
  BY DEF CallsInv, RecordsMatch, AnswersMatch, R!AnswersAreOwn, R!GoodGrants
<1> QED
  BY <1>1, <1>2

-----------------------------------------------------------------------------
(* Sums *)

Pick(s) == CHOOSE x \in s : TRUE

\* g is the running total of f over the subsets of S.
Running(g, f, S) ==
    g = [s \in SUBSET S |-> IF s = {} THEN 0 ELSE f[Pick(s)] + g[s \ {Pick(s)}]]

LEMMA TotalDef == ASSUME NEW f PROVE K!Total(f) = (CHOOSE g : Running(g, f, DOMAIN f))[DOMAIN f]
  BY DEF K!Total, K!MapThenSumSet, K!MapThenFoldSet, Running, Pick

LEMMA PickIn == ASSUME NEW s, s # {} PROVE Pick(s) \in s
  BY DEF Pick

LEMMA RunningAt ==
  ASSUME NEW f, NEW S, NEW g, Running(g, f, S), NEW s \in SUBSET S
  PROVE  g[s] = IF s = {} THEN 0 ELSE f[Pick(s)] + g[s \ {Pick(s)}]
  BY DEF Running

LEMMA RunningEmpty == ASSUME NEW f, NEW S, NEW g, Running(g, f, S) PROVE g[{}] = 0
<1>1. {} \in SUBSET S
  OBVIOUS
<1> QED
  BY <1>1 DEF Running

LEMMA Determined ==
  ASSUME NEW S, IsFiniteSet(S), NEW f, NEW g, Running(g, f, S),
         NEW T \in SUBSET S, NEW h, NEW k, Running(k, h, T), \A x \in T : h[x] = f[x],
         NEW s \in SUBSET T
  PROVE  k[s] = g[s]
<1> DEFINE B == {u \in SUBSET T : k[u] # g[u]}
<1>1. SUFFICES ASSUME B # {} PROVE FALSE
  OBVIOUS
<1>2. PICK t \in B : \A u \in B : u \subseteq t => u = t
  <2>1. IsFiniteSet(T) /\ B \subseteq SUBSET T
    BY FS_Subset
  <2> HIDE DEF B
  <2> QED
    BY <1>1, <2>1, Smallest
<1>3. t # {}
  <2> SUFFICES ASSUME t = {} PROVE k[t] = g[t]
    BY <1>2
  <2>1. k[{}] = 0 /\ g[{}] = 0
    BY RunningEmpty
  <2> QED
    BY <2>1
<1>4. Pick(t) \in t /\ t \ {Pick(t)} \notin B
  BY <1>2, <1>3, PickIn
<1>5. k[t \ {Pick(t)}] = g[t \ {Pick(t)}]
  BY <1>4
<1> QED
  BY <1>2, <1>3, <1>4, <1>5, RunningAt

LEMMA RunningExists ==
  ASSUME NEW S, IsFiniteSet(S), NEW f
  PROVE  \E g : Running(g, f, S)
<1> DEFINE B == {u \in SUBSET S : ~ \E g : Running(g, f, u)}
<1>1. SUFFICES ASSUME B # {} PROVE FALSE
  OBVIOUS
<1>2. PICK t \in B : \A u \in B : u \subseteq t => u = t
  <2>1. B \subseteq SUBSET S
    OBVIOUS
  <2> HIDE DEF B
  <2> QED
    BY <1>1, <2>1, Smallest
<1> DEFINE G == [u \in SUBSET t |-> CHOOSE g : Running(g, f, u)]
           N == [u \in SUBSET t |-> IF u = {} THEN 0 ELSE f[Pick(u)] + G[u \ {Pick(u)}][u \ {Pick(u)}]]
<1>3. \A u \in SUBSET t : u # t => Running(G[u], f, u)
  <2> SUFFICES ASSUME NEW u \in SUBSET t, u # t PROVE Running(G[u], f, u)
    OBVIOUS
  <2>1. \E g : Running(g, f, u)
    BY <1>2
  <2> QED
    BY <2>1
<1>4. \A v \in SUBSET t : v # t => N[v] = G[v][v]
  <2> SUFFICES ASSUME NEW v \in SUBSET t, v # t, v # {} PROVE N[v] = G[v][v]
    <3> SUFFICES ASSUME NEW v \in SUBSET t, v # t, v = {} PROVE N[v] = G[v][v]
      OBVIOUS
    <3>1. Running(G[v], f, v) /\ v \in SUBSET v
      BY <1>3
    <3>2. G[v][v] = 0
      <4> HIDE DEF G
      <4> QED
        BY <3>1, RunningEmpty
    <3> QED
      BY <3>2
  <2> DEFINE p == Pick(v)
  <2>1. p \in v /\ v \ {p} \in SUBSET v /\ v \ {p} \in SUBSET t /\ v \ {p} # t
    BY PickIn
  <2>2. Running(G[v], f, v) /\ Running(G[v \ {p}], f, v \ {p}) /\ IsFiniteSet(v)
    BY <1>3, <2>1, FS_Subset
  <2>3. G[v \ {p}][v \ {p}] = G[v][v \ {p}]
    <3> HIDE DEF G, p
    <3> QED
      BY <2>1, <2>2, Determined
  <2>4. G[v][v] = f[p] + G[v][v \ {p}]
    <3> HIDE DEF G
    <3> QED
      BY <2>2, RunningAt
  <2> QED
    BY <2>3, <2>4
<1>5. \A u \in SUBSET t : N[u] = IF u = {} THEN 0 ELSE f[Pick(u)] + N[u \ {Pick(u)}]
  <2> SUFFICES ASSUME NEW u \in SUBSET t, u # {} PROVE N[u] = f[Pick(u)] + N[u \ {Pick(u)}]
    <3> HIDE DEF G
    <3> QED
      OBVIOUS
  <2>1. Pick(u) \in u /\ u \ {Pick(u)} \in SUBSET t /\ u \ {Pick(u)} # t
    BY PickIn
  <2>2. N[u \ {Pick(u)}] = G[u \ {Pick(u)}][u \ {Pick(u)}]
    BY <1>4, <2>1
  <2>3. N[u] = f[Pick(u)] + G[u \ {Pick(u)}][u \ {Pick(u)}]
    OBVIOUS
  <2> QED
    BY <2>2, <2>3
<1>6. Running(N, f, t)
  <2>1. N = [u \in SUBSET t |-> N[u]]
    <3> HIDE DEF G
    <3> QED
      OBVIOUS
  <2> HIDE DEF N
  <2>2. N = [u \in SUBSET t |-> IF u = {} THEN 0 ELSE f[Pick(u)] + N[u \ {Pick(u)}]]
    BY <1>5, <2>1
  <2> QED
    BY <2>2 DEF Running
<1> QED
  BY <1>2, <1>6

LEMMA TotalRunning ==
  ASSUME NEW S, IsFiniteSet(S), NEW f, DOMAIN f = S
  PROVE  \E g : Running(g, f, S) /\ K!Total(f) = g[S]
  BY TotalDef, RunningExists

LEMMA RunningNat ==
  ASSUME NEW S, IsFiniteSet(S), NEW f \in [S -> Nat], NEW g, Running(g, f, S)
  PROVE  \A s \in SUBSET S : g[s] \in Nat
<1> DEFINE B == {u \in SUBSET S : g[u] \notin Nat}
<1>1. SUFFICES ASSUME B # {} PROVE FALSE
  OBVIOUS
<1>2. PICK t \in B : \A u \in B : u \subseteq t => u = t
  <2>1. B \subseteq SUBSET S
    OBVIOUS
  <2> HIDE DEF B
  <2> QED
    BY <1>1, <2>1, Smallest
<1>3. g[t] = IF t = {} THEN 0 ELSE f[Pick(t)] + g[t \ {Pick(t)}]
  BY <1>2, RunningAt
<1>4. t # {} => Pick(t) \in t /\ g[t \ {Pick(t)}] \in Nat
  BY <1>2, PickIn
<1> QED
  BY <1>2, <1>3, <1>4

\* The order in which numbers are added does not matter.
LEMMA AnyFirst ==
  ASSUME NEW S, IsFiniteSet(S), NEW f \in [S -> Nat], NEW g, Running(g, f, S)
  PROVE  \A s \in SUBSET S : \A x \in s : g[s] = f[x] + g[s \ {x}]
<1> DEFINE B == {u \in SUBSET S : \E x \in u : g[u] # f[x] + g[u \ {x}]}
<1>1. SUFFICES ASSUME B # {} PROVE FALSE
  OBVIOUS
<1>2. PICK t \in B : \A u \in B : u \subseteq t => u = t
  <2>1. B \subseteq SUBSET S
    OBVIOUS
  <2> HIDE DEF B
  <2> QED
    BY <1>1, <2>1, Smallest
<1>3. PICK x \in t : g[t] # f[x] + g[t \ {x}]
  BY <1>2
<1> DEFINE p == Pick(t)
<1>4. p \in t /\ g[t] = f[p] + g[t \ {p}] /\ p # x
  <2>1. p \in t
    BY <1>3, PickIn
  <2>2. g[t] = f[p] + g[t \ {p}]
    <3>1. t \in SUBSET S /\ t # {}
      BY <2>1
    <3> QED
      BY <3>1, RunningAt
  <2> QED
    BY <1>3, <2>1, <2>2
<1>5. t \ {p} \notin B /\ t \ {x} \notin B
  BY <1>2, <1>4
<1>6. g[t \ {p}] = f[x] + g[(t \ {p}) \ {x}] /\ g[t \ {x}] = f[p] + g[(t \ {x}) \ {p}]
  BY <1>4, <1>5
<1>7. (t \ {x}) \ {p} = (t \ {p}) \ {x}
  OBVIOUS
<1>8. f[x] \in Nat /\ f[p] \in Nat /\ g[(t \ {p}) \ {x}] \in Nat
  BY <1>2, <1>4, RunningNat
<1>9. g[t] = f[x] + g[t \ {x}]
  <2> DEFINE n == g[(t \ {p}) \ {x}]
  <2>1. g[t] = f[p] + (f[x] + n)
    BY <1>4, <1>6
  <2>2. g[t \ {x}] = f[p] + n
    BY <1>6, <1>7
  <2>3. f[x] \in Nat /\ f[p] \in Nat /\ n \in Nat
    BY <1>8
  <2> HIDE DEF n, p, B
  <2> QED
    BY <2>1, <2>2, <2>3
<1> QED
  BY <1>3, <1>9

-----------------------------------------------------------------------------

LEMMA TotalNat ==
  ASSUME NEW S, IsFiniteSet(S), NEW f \in [S -> Nat]
  PROVE  K!Total(f) \in Nat
  BY TotalRunning, RunningNat

LEMMA TotalEmpty == ASSUME NEW f, DOMAIN f = {} PROVE K!Total(f) = 0
  BY TotalRunning, RunningAt, FS_EmptySet

\* One number is added to the sum of the others.
LEMMA TotalWith ==
  ASSUME NEW S, IsFiniteSet(S), NEW x, x \notin S, NEW f \in [S -> Nat], NEW n \in Nat,
         NEW h, h = [y \in S \cup {x} |-> IF y = x THEN n ELSE f[y]]
  PROVE  K!Total(h) = n + K!Total(f)
<1> DEFINE W == S \cup {x}
<1>1. IsFiniteSet(W) /\ h \in [W -> Nat] /\ DOMAIN f = S
  BY FS_AddElement
<1>2. PICK g : Running(g, h, W) /\ K!Total(h) = g[W]
  BY <1>1, TotalRunning
<1>3. PICK k : Running(k, f, S) /\ K!Total(f) = k[S]
  BY <1>1, TotalRunning
<1>4. g[W] = h[x] + g[W \ {x}]
  BY <1>1, <1>2, AnyFirst
<1>5. W \ {x} = S
  OBVIOUS
<1>6. k[S] = g[S]
  BY <1>1, <1>2, <1>3, Determined
<1> QED
  BY <1>2, <1>3, <1>4, <1>5, <1>6

\* A part of the numbers adds up to no more than all of them.
LEMMA TotalPart ==
  ASSUME NEW S, IsFiniteSet(S), NEW f \in [S -> Nat], NEW T \in SUBSET S,
         NEW h, h = [x \in T |-> f[x]]
  PROVE  K!Total(h) \in Nat /\ K!Total(f) \in Nat /\ K!Total(h) <= K!Total(f)
<1>1. IsFiniteSet(T) /\ h \in [T -> Nat] /\ DOMAIN f = S /\ DOMAIN h = T
  BY FS_Subset
<1>2. PICK g : Running(g, f, S) /\ K!Total(f) = g[S]
  BY <1>1, TotalRunning
<1>3. PICK k : Running(k, h, T) /\ K!Total(h) = k[T]
  BY <1>1, TotalRunning
<1>4. k[T] = g[T]
  BY <1>1, <1>2, <1>3, Determined
<1> DEFINE B == {u \in SUBSET S : T \subseteq u /\ ~ (g[T] <= g[u])}
<1>5. \A u \in SUBSET S : g[u] \in Nat
  BY <1>2, RunningNat
<1>6. SUFFICES ASSUME B # {} PROVE FALSE
  BY <1>2, <1>3, <1>4, <1>5
<1>7. PICK t \in B : \A u \in B : u \subseteq t => u = t
  <2>1. B \subseteq SUBSET S
    OBVIOUS
  <2> HIDE DEF B
  <2> QED
    BY <1>6, <2>1, Smallest
<1>8. PICK x \in t : x \notin T
  <2> SUFFICES ASSUME t \subseteq T PROVE FALSE
    OBVIOUS
  <2>1. t = T /\ g[T] \in Nat
    BY <1>5, <1>7
  <2> QED
    BY <1>7, <2>1
<1>9. t \in SUBSET S /\ g[t] = f[x] + g[t \ {x}]
  BY <1>2, <1>8, AnyFirst
<1>10. t \ {x} \notin B
  BY <1>7, <1>8
<1>11. g[T] <= g[t \ {x}] /\ f[x] \in Nat /\ g[t \ {x}] \in Nat /\ g[T] \in Nat /\ g[t] \in Nat
  BY <1>5, <1>8, <1>9, <1>10
<1>12. g[T] <= g[t]
  <2> HIDE DEF B
  <2> QED
    BY <1>9, <1>11
<1> QED
  BY <1>7, <1>12

-----------------------------------------------------------------------------
(* CPU and memory: what was promised adds up *)

\* The leases on a server that have not been moved.
Own(e) == {l \in K!Leases(e) : ~lease[l].moved}

OwnCpu(e) == K!Total([l \in Own(e) |-> lease[l].cpu])
OwnMem(e) == K!Total([l \in Own(e) |-> lease[l].mem])

CapacityInv == K!TypeOK /\ K!AdmittedFits

LEMMA FiniteUsers == ASSUME K!Sizes PROVE IsFiniteSet(Lease) /\ IsFiniteSet(HostClaim)
  BY DEF K!Sizes, K!IsFiniteSet, IsFiniteSet

LEMMA FitsIs ==
  K!AdmittedFits <=>
    \A e \in Endpoint : /\ OwnCpu(e) + K!GenericCpu(e) <= Cores + (K!Tenth \div 2)
                        /\ OwnMem(e) + K!GenericMem(e) <= Memory
  BY DEF K!AdmittedFits, K!Within, K!Promised, OwnCpu, OwnMem, Own

LEMMA CommittedIs ==
  ASSUME K!Sizes, K!TypeOK, NEW e
  PROVE  /\ K!Leases(e) \in SUBSET Lease /\ Own(e) \in SUBSET K!Leases(e)
         /\ [l \in K!Leases(e) |-> lease[l].cpu] \in [K!Leases(e) -> Nat]
         /\ [l \in K!Leases(e) |-> lease[l].mem] \in [K!Leases(e) -> Nat]
         /\ K!Claims(e) \in SUBSET HostClaim
         /\ [c \in K!Claims(e) |-> claim[c].cpu] \in [K!Claims(e) -> Nat]
         /\ [c \in K!Claims(e) |-> claim[c].mem] \in [K!Claims(e) -> Nat]
  BY DEF K!Sizes, K!TypeOK, K!Leases, K!Claims, Own, K!Commitment, K!Allocation

LEMMA SumsAre ==
  ASSUME K!Sizes, K!TypeOK, NEW e
  PROVE  /\ K!DirectCpu(e) \in Nat /\ K!DirectMem(e) \in Nat
         /\ K!GenericCpu(e) \in Nat /\ K!GenericMem(e) \in Nat
         /\ OwnCpu(e) \in Nat /\ OwnMem(e) \in Nat
         /\ OwnCpu(e) <= K!DirectCpu(e) /\ OwnMem(e) <= K!DirectMem(e)
<1>1. /\ K!Leases(e) \in SUBSET Lease /\ Own(e) \in SUBSET K!Leases(e)
      /\ [l \in K!Leases(e) |-> lease[l].cpu] \in [K!Leases(e) -> Nat]
      /\ [l \in K!Leases(e) |-> lease[l].mem] \in [K!Leases(e) -> Nat]
      /\ K!Claims(e) \in SUBSET HostClaim
      /\ [c \in K!Claims(e) |-> claim[c].cpu] \in [K!Claims(e) -> Nat]
      /\ [c \in K!Claims(e) |-> claim[c].mem] \in [K!Claims(e) -> Nat]
  BY CommittedIs
<1>2. IsFiniteSet(K!Leases(e)) /\ IsFiniteSet(K!Claims(e))
  BY <1>1, FiniteUsers, FS_Subset
<1>3. K!GenericCpu(e) \in Nat /\ K!GenericMem(e) \in Nat
  BY <1>1, <1>2, TotalNat DEF K!GenericCpu, K!GenericMem
<1>4. /\ [l \in Own(e) |-> lease[l].cpu] = [l \in Own(e) |-> [m \in K!Leases(e) |-> lease[m].cpu][l]]
      /\ [l \in Own(e) |-> lease[l].mem] = [l \in Own(e) |-> [m \in K!Leases(e) |-> lease[m].mem][l]]
  BY <1>1
<1>5. OwnCpu(e) \in Nat /\ K!DirectCpu(e) \in Nat /\ OwnCpu(e) <= K!DirectCpu(e)
  BY <1>1, <1>2, <1>4, TotalPart DEF OwnCpu, K!DirectCpu
<1>6. OwnMem(e) \in Nat /\ K!DirectMem(e) \in Nat /\ OwnMem(e) <= K!DirectMem(e)
  BY <1>1, <1>2, <1>4, TotalPart DEF OwnMem, K!DirectMem
<1> QED
  BY <1>3, <1>5, <1>6

LEMMA SameClaims ==
  ASSUME UNCHANGED claim, NEW e
  PROVE  K!GenericCpu(e)' = K!GenericCpu(e) /\ K!GenericMem(e)' = K!GenericMem(e)
  BY DEF K!GenericCpu, K!GenericMem, K!Claims

LEMMA SameLeases ==
  ASSUME UNCHANGED lease, NEW e
  PROVE  OwnCpu(e)' = OwnCpu(e) /\ OwnMem(e)' = OwnMem(e)
  BY DEF OwnCpu, OwnMem, Own, K!Leases

\* Leases leave a server, or stay there as they were.
LEMMA LeaseLeaves ==
  ASSUME K!Sizes, K!TypeOK, NEW e, Own(e)' \subseteq Own(e), \A l \in Own(e)' : lease'[l] = lease[l]
  PROVE  OwnCpu(e)' <= OwnCpu(e) /\ OwnMem(e)' <= OwnMem(e) /\ OwnCpu(e)' \in Nat /\ OwnMem(e)' \in Nat
<1> DEFINE f == [l \in Own(e) |-> lease[l].cpu]  h == [l \in Own(e) |-> lease[l].mem]
<1>1. Own(e) \in SUBSET Lease /\ f \in [Own(e) -> Nat] /\ h \in [Own(e) -> Nat]
  BY CommittedIs DEF Own
<1>2. IsFiniteSet(Own(e)) /\ Own(e)' \in SUBSET Own(e)
  BY <1>1, FiniteUsers, FS_Subset
<1>3. /\ [l \in Own(e) |-> lease[l].cpu]' = [l \in Own(e)' |-> f[l]]
      /\ [l \in Own(e) |-> lease[l].mem]' = [l \in Own(e)' |-> h[l]]
  OBVIOUS
<1>4. OwnCpu(e)' = K!Total([l \in Own(e)' |-> f[l]]) /\ OwnMem(e)' = K!Total([l \in Own(e)' |-> h[l]])
  BY <1>3 DEF OwnCpu, OwnMem
<1>5. OwnCpu(e) = K!Total(f) /\ OwnMem(e) = K!Total(h)
  BY DEF OwnCpu, OwnMem
<1> HIDE DEF f, h
<1> QED
  BY <1>1, <1>2, <1>4, <1>5, TotalPart

\* A lease comes to a server.
LEMMA LeaseComes ==
  ASSUME K!Sizes, K!TypeOK, NEW e, NEW l, l \notin Own(e), NEW cpu \in Nat, NEW mem \in Nat,
         Own(e)' = Own(e) \cup {l}, lease'[l].cpu = cpu, lease'[l].mem = mem,
         \A m \in Own(e) : lease'[m] = lease[m]
  PROVE  OwnCpu(e)' = cpu + OwnCpu(e) /\ OwnMem(e)' = mem + OwnMem(e)
<1> DEFINE f == [m \in Own(e) |-> lease[m].cpu]  h == [m \in Own(e) |-> lease[m].mem]
<1>1. Own(e) \in SUBSET Lease /\ f \in [Own(e) -> Nat] /\ h \in [Own(e) -> Nat]
  BY CommittedIs DEF Own
<1>2. IsFiniteSet(Own(e))
  BY <1>1, FiniteUsers, FS_Subset
<1>3. /\ [m \in Own(e) |-> lease[m].cpu]' = [m \in Own(e) \cup {l} |-> IF m = l THEN cpu ELSE f[m]]
      /\ [m \in Own(e) |-> lease[m].mem]' = [m \in Own(e) \cup {l} |-> IF m = l THEN mem ELSE h[m]]
  OBVIOUS
<1>4. /\ OwnCpu(e)' = K!Total([m \in Own(e) \cup {l} |-> IF m = l THEN cpu ELSE f[m]])
      /\ OwnMem(e)' = K!Total([m \in Own(e) \cup {l} |-> IF m = l THEN mem ELSE h[m]])
  BY <1>3 DEF OwnCpu, OwnMem
<1>5. OwnCpu(e) = K!Total(f) /\ OwnMem(e) = K!Total(h)
  BY DEF OwnCpu, OwnMem
<1> HIDE DEF f, h
<1>6. OwnCpu(e)' = cpu + OwnCpu(e)
  BY <1>1, <1>2, <1>4, <1>5, TotalWith
<1>7. OwnMem(e)' = mem + OwnMem(e)
  <2> DEFINE k == [m \in Own(e) \cup {l} |-> IF m = l THEN mem ELSE h[m]]
  <2>1. K!Total(k) = mem + K!Total(h)
    BY <1>1, <1>2, TotalWith
  <2> QED
    BY <1>4, <1>5, <2>1
<1> QED
  BY <1>6, <1>7

\* The same for claims.
LEMMA ClaimLeaves ==
  ASSUME K!Sizes, K!TypeOK, NEW e, K!Claims(e)' \subseteq K!Claims(e),
         \A c \in K!Claims(e)' : claim'[c] = claim[c]
  PROVE  /\ K!GenericCpu(e)' <= K!GenericCpu(e) /\ K!GenericMem(e)' <= K!GenericMem(e)
         /\ K!GenericCpu(e)' \in Nat /\ K!GenericMem(e)' \in Nat
<1> DEFINE f == [c \in K!Claims(e) |-> claim[c].cpu]  h == [c \in K!Claims(e) |-> claim[c].mem]
<1>1. K!Claims(e) \in SUBSET HostClaim /\ f \in [K!Claims(e) -> Nat] /\ h \in [K!Claims(e) -> Nat]
  BY CommittedIs
<1>2. IsFiniteSet(K!Claims(e)) /\ K!Claims(e)' \in SUBSET K!Claims(e)
  BY <1>1, FiniteUsers, FS_Subset
<1>3. /\ [c \in K!Claims(e) |-> claim[c].cpu]' = [c \in K!Claims(e)' |-> f[c]]
      /\ [c \in K!Claims(e) |-> claim[c].mem]' = [c \in K!Claims(e)' |-> h[c]]
  OBVIOUS
<1>4. /\ K!GenericCpu(e)' = K!Total([c \in K!Claims(e)' |-> f[c]])
      /\ K!GenericMem(e)' = K!Total([c \in K!Claims(e)' |-> h[c]])
  BY <1>3 DEF K!GenericCpu, K!GenericMem
<1>5. K!GenericCpu(e) = K!Total(f) /\ K!GenericMem(e) = K!Total(h)
  BY DEF K!GenericCpu, K!GenericMem
<1> HIDE DEF f, h
<1> QED
  BY <1>1, <1>2, <1>4, <1>5, TotalPart

LEMMA ClaimComes ==
  ASSUME K!Sizes, K!TypeOK, NEW e, NEW c, c \notin K!Claims(e), NEW cpu \in Nat, NEW mem \in Nat,
         K!Claims(e)' = K!Claims(e) \cup {c}, claim'[c].cpu = cpu, claim'[c].mem = mem,
         \A m \in K!Claims(e) : claim'[m] = claim[m]
  PROVE  K!GenericCpu(e)' = cpu + K!GenericCpu(e) /\ K!GenericMem(e)' = mem + K!GenericMem(e)
<1> DEFINE f == [m \in K!Claims(e) |-> claim[m].cpu]  h == [m \in K!Claims(e) |-> claim[m].mem]
<1>1. K!Claims(e) \in SUBSET HostClaim /\ f \in [K!Claims(e) -> Nat] /\ h \in [K!Claims(e) -> Nat]
  BY CommittedIs
<1>2. IsFiniteSet(K!Claims(e))
  BY <1>1, FiniteUsers, FS_Subset
<1>3. /\ [m \in K!Claims(e) |-> claim[m].cpu]'
            = [m \in K!Claims(e) \cup {c} |-> IF m = c THEN cpu ELSE f[m]]
      /\ [m \in K!Claims(e) |-> claim[m].mem]'
            = [m \in K!Claims(e) \cup {c} |-> IF m = c THEN mem ELSE h[m]]
  OBVIOUS
<1>4. /\ K!GenericCpu(e)' = K!Total([m \in K!Claims(e) \cup {c} |-> IF m = c THEN cpu ELSE f[m]])
      /\ K!GenericMem(e)' = K!Total([m \in K!Claims(e) \cup {c} |-> IF m = c THEN mem ELSE h[m]])
  BY <1>3 DEF K!GenericCpu, K!GenericMem
<1>5. K!GenericCpu(e) = K!Total(f) /\ K!GenericMem(e) = K!Total(h)
  BY DEF K!GenericCpu, K!GenericMem
<1> HIDE DEF f, h
<1> QED
  BY <1>1, <1>2, <1>4, <1>5, TotalWith

LEMMA CapacityInit == ASSUME K!Sizes, K!Init PROVE CapacityInv
<1>1. K!TypeOK
  BY DEF K!Init, K!TypeOK
<1>2. ASSUME NEW e \in Endpoint
      PROVE  OwnCpu(e) = 0 /\ OwnMem(e) = 0 /\ K!GenericCpu(e) = 0 /\ K!GenericMem(e) = 0
  <2>1. Own(e) = {} /\ K!Claims(e) = {}
    BY DEF K!Init, Own, K!Leases, K!Claims
  <2> QED
    BY <2>1, TotalEmpty DEF OwnCpu, OwnMem, K!GenericCpu, K!GenericMem
<1> QED
  BY <1>1, <1>2, FitsIs DEF CapacityInv, K!Sizes, K!Tenth

LEMMA FitsNow ==
  ASSUME CapacityInv, NEW e \in Endpoint
  PROVE  OwnCpu(e) + K!GenericCpu(e) <= Cores + 1 /\ OwnMem(e) + K!GenericMem(e) <= Memory
  BY FitsIs DEF CapacityInv, K!Tenth

LEMMA FitsNext ==
  ASSUME K!TypeOK',
         \A e \in Endpoint : /\ OwnCpu(e)' + K!GenericCpu(e)' <= Cores + 1
                             /\ OwnMem(e)' + K!GenericMem(e)' <= Memory
  PROVE  CapacityInv'
<1>1. K!Tenth \div 2 = 1
  BY DEF K!Tenth
<1>2. K!AdmittedFits' <=>
        \A e \in Endpoint : /\ OwnCpu(e)' + K!GenericCpu(e)' <= Cores + (K!Tenth \div 2)
                            /\ OwnMem(e)' + K!GenericMem(e)' <= Memory
  BY DEF K!AdmittedFits, K!Within, K!Promised, OwnCpu, OwnMem, Own, K!Tenth
<1> QED
  BY <1>1, <1>2 DEF CapacityInv

LEMMA LendStep ==
  ASSUME K!Sizes, CapacityInv, NEW l \in Lease, NEW S \in K!Servers, NEW cpu \in CpuAsks,
         NEW mem \in MemAsks, K!Lend(l, S, cpu, mem)
  PROVE  CapacityInv'
<1> DEFINE new == [at |-> S, cpu |-> cpu, mem |-> mem, moved |-> FALSE]
<1>1. lease[l] = None /\ lease' = [lease EXCEPT ![l] = new] /\ UNCHANGED <<reading, online, claim>>
      /\ \A e \in S : e \in online /\ K!FitsLease(e, cpu, mem)
  BY DEF K!Lend
<1>2. new \in K!Commitment /\ new # None /\ cpu \in Nat /\ mem \in Nat
  <2>1. new \in K!Commitment
    BY DEF K!Commitment, K!Servers
  <2>2. new # None
    BY <2>1 DEF K!Sizes
  <2> QED
    BY <2>1, <2>2 DEF K!Sizes
<1>3. K!TypeOK /\ lease \in [Lease -> K!Commitment \cup {None}]
  BY DEF CapacityInv, K!TypeOK
<1>4. lease' \in [Lease -> K!Commitment \cup {None}] /\ lease'[l] = new
      /\ \A m \in Lease : m # l => lease'[m] = lease[m]
  <2> HIDE DEF new
  <2> QED
    BY <1>1, <1>2, <1>3
<1>5. K!TypeOK'
  BY <1>1, <1>4 DEF CapacityInv, K!TypeOK, K!Reading, K!Commitment, K!Allocation
<1>6. ASSUME NEW e \in Endpoint
      PROVE  OwnCpu(e)' + K!GenericCpu(e)' <= Cores + 1 /\ OwnMem(e)' + K!GenericMem(e)' <= Memory
  <2>1. l \notin Own(e) /\ Own(e) \subseteq Lease
    BY <1>1 DEF Own, K!Leases
  <2>2. /\ K!DirectCpu(e) \in Nat /\ K!DirectMem(e) \in Nat
        /\ K!GenericCpu(e) \in Nat /\ K!GenericMem(e) \in Nat
        /\ OwnCpu(e) \in Nat /\ OwnMem(e) \in Nat
        /\ OwnCpu(e) <= K!DirectCpu(e) /\ OwnMem(e) <= K!DirectMem(e)
    BY <1>3, SumsAre
  <2>3. OwnCpu(e) + K!GenericCpu(e) <= Cores + 1 /\ OwnMem(e) + K!GenericMem(e) <= Memory
    BY FitsNow
  <2>4. K!GenericCpu(e)' = K!GenericCpu(e) /\ K!GenericMem(e)' = K!GenericMem(e)
    BY <1>1, SameClaims
  <2>5. CASE e \in S
    <3>1. Own(e)' = Own(e) \cup {l}
      BY <1>1, <1>2, <1>4, <2>5 DEF Own, K!Leases
    <3>2. OwnCpu(e)' = cpu + OwnCpu(e) /\ OwnMem(e)' = mem + OwnMem(e)
      BY <1>2, <1>3, <1>4, <2>1, <3>1, LeaseComes
    <3>3. /\ cpu # 0 => K!DirectCpu(e) + K!GenericCpu(e) + cpu <= Cores
          /\ mem # 0 => K!DirectMem(e) + K!GenericMem(e) + mem <= Memory
      BY <1>1, <2>5 DEF K!FitsLease
    <3> QED
      BY <1>2, <2>2, <2>3, <2>4, <3>2, <3>3 DEF K!Sizes
  <2>6. CASE e \notin S
    <3>1. Own(e)' \subseteq Own(e)
      BY <1>1, <1>2, <1>4, <2>6 DEF Own, K!Leases
    <3>2. OwnCpu(e)' <= OwnCpu(e) /\ OwnMem(e)' <= OwnMem(e) /\ OwnCpu(e)' \in Nat /\ OwnMem(e)' \in Nat
      BY <1>3, <1>4, <2>1, <3>1, LeaseLeaves
    <3> QED
      BY <2>2, <2>3, <2>4, <3>2 DEF K!Sizes
  <2> QED
    BY <2>5, <2>6
<1> QED
  BY <1>5, <1>6, FitsNext

\* A lease leaves its servers, or is marked as moved: less is left of what was
\* checked when it was given.
LEMMA LeaseGoes ==
  ASSUME K!Sizes, CapacityInv, NEW l \in Lease, UNCHANGED claim, K!TypeOK',
         lease'[l] = None \/ lease'[l].moved, \A m \in Lease : m # l => lease'[m] = lease[m]
  PROVE  CapacityInv'
<1>1. K!TypeOK
  BY DEF CapacityInv
<1>2. ASSUME NEW e \in Endpoint
      PROVE  OwnCpu(e)' + K!GenericCpu(e)' <= Cores + 1 /\ OwnMem(e)' + K!GenericMem(e)' <= Memory
  <2>1. Own(e)' \subseteq Own(e) /\ \A m \in Own(e)' : lease'[m] = lease[m]
    BY DEF Own, K!Leases
  <2>2. OwnCpu(e)' <= OwnCpu(e) /\ OwnMem(e)' <= OwnMem(e) /\ OwnCpu(e)' \in Nat /\ OwnMem(e)' \in Nat
    BY <1>1, <2>1, LeaseLeaves
  <2>3. K!GenericCpu(e)' = K!GenericCpu(e) /\ K!GenericMem(e)' = K!GenericMem(e)
    BY SameClaims
  <2> QED
    BY <1>1, <2>2, <2>3, SumsAre, FitsNow DEF K!Sizes
<1> QED
  BY <1>2, FitsNext

LEMMA MoveOrEnd ==
  ASSUME K!Sizes, CapacityInv, NEW l \in Lease, (\E S \in K!Servers : K!Move(l, S)) \/ K!End(l)
  PROVE  CapacityInv'
<1>1. K!TypeOK /\ lease \in [Lease -> K!Commitment \cup {None}] /\ lease[l] # None
      /\ UNCHANGED <<reading, online, claim>>
  BY DEF CapacityInv, K!TypeOK, K!Move, K!End
<1>2. ASSUME NEW S \in K!Servers, K!Move(l, S)
      PROVE  CapacityInv'
  <2>1. lease' = [lease EXCEPT ![l].at = S, ![l].moved = TRUE]
    BY <1>2 DEF K!Move
  <2>2. lease[l] \in K!Commitment
    BY <1>1
  <2>3. /\ lease' \in [Lease -> K!Commitment \cup {None}] /\ lease'[l].moved
        /\ \A m \in Lease : m # l => lease'[m] = lease[m]
    BY <1>1, <2>1, <2>2 DEF K!Commitment, K!Servers
  <2>4. K!TypeOK'
    BY <1>1, <2>3 DEF K!TypeOK, K!Reading, K!Commitment, K!Allocation
  <2> QED
    BY <1>1, <2>3, <2>4, LeaseGoes
<1>3. CASE K!End(l)
  <2>1. /\ lease' \in [Lease -> K!Commitment \cup {None}] /\ lease'[l] = None
        /\ \A m \in Lease : m # l => lease'[m] = lease[m]
    BY <1>1, <1>3 DEF K!End
  <2>2. K!TypeOK'
    BY <1>1, <2>1 DEF K!TypeOK, K!Reading, K!Commitment, K!Allocation
  <2> QED
    BY <1>1, <2>1, <2>2, LeaseGoes
<1> QED
  BY <1>2, <1>3

\* What Less leaves is there, if anything is left.
LEMMA LessIs ==
  ASSUME NEW a \in Nat, NEW b \in Nat
  PROVE  K!Less(a, b) \in Nat /\ (K!Less(a, b) > 0 => a = b + K!Less(a, b))
  BY DEF K!Less

LEMMA RoundedIs == ASSUME NEW n \in Nat PROVE K!Rounded(n) \in Nat /\ K!Rounded(n) <= n + 1 /\ K!Rounded(0) = 0
<1>1. \A m \in Nat : 3 * (m \div 3) \in Nat /\ 3 * (m \div 3) <= m
  OBVIOUS
<1>2. 3 * ((n + 1) \div 3) \in Nat /\ 3 * ((n + 1) \div 3) <= n + 1
  BY <1>1
<1>3. 3 * ((0 + 1) \div 3) = 0
  OBVIOUS
<1> QED
  BY <1>2, <1>3 DEF K!Rounded, K!Tenth

\* What a claim may still get beside the leases and claims that are there.
LEMMA RoomOfCores ==
  ASSUME K!Sizes, K!TypeOK, NEW e, reading[e] \in K!Reading, NEW cpu \in Nat,
         cpu # 0 => K!Rounded(K!FreeCpu(e)) >= cpu,
         OwnCpu(e) + K!GenericCpu(e) <= Cores + 1
  PROVE  OwnCpu(e) + K!GenericCpu(e) + cpu <= Cores + 1
<1> DEFINE load == reading[e].load  own == OwnCpu(e)  d == K!DirectCpu(e)  g == K!GenericCpu(e)
           a == K!Less(Cores, load)  b == K!Less(a, d)  n == K!Less(b, g)
<1>1. load \in Nat /\ Cores \in Nat /\ own \in Nat /\ d \in Nat /\ g \in Nat /\ own <= d
  BY SumsAre DEF K!Sizes, K!Reading
<1>2. n = K!FreeCpu(e)
  BY DEF K!FreeCpu
<1> HIDE DEF load, own, d, g
<1>3. a \in Nat /\ (a > 0 => Cores = load + a)
  BY <1>1, LessIs
<1> HIDE DEF a
<1>4. b \in Nat /\ (b > 0 => a = d + b)
  BY <1>1, <1>3, LessIs
<1> HIDE DEF b
<1>5. n \in Nat /\ (n > 0 => b = g + n)
  BY <1>1, <1>4, LessIs
<1> HIDE DEF n
<1>6. CASE cpu = 0
  BY <1>1, <1>6 DEF own, g
<1>7. CASE cpu # 0
  <2>1. K!Rounded(n) \in Nat /\ K!Rounded(n) <= n + 1 /\ K!Rounded(n) >= cpu /\ (n = 0 => K!Rounded(n) = 0)
    BY <1>2, <1>5, <1>7, RoundedIs
  <2>2. n > 0 /\ cpu <= n + 1
    BY <1>5, <1>7, <2>1
  <2>3. own + g + cpu <= Cores + 1
    BY <1>1, <1>3, <1>4, <1>5, <2>2
  <2> QED
    BY <2>3 DEF own, g
<1> QED
  BY <1>6, <1>7

LEMMA RoomOfMemory ==
  ASSUME K!Sizes, K!TypeOK, NEW e, reading[e] \in K!Reading, NEW mem \in Nat,
         mem # 0 => K!FreeMem(e) >= mem, OwnMem(e) + K!GenericMem(e) <= Memory
  PROVE  OwnMem(e) + K!GenericMem(e) + mem <= Memory
<1> DEFINE rest == reading[e].rest  own == OwnMem(e)  d == K!DirectMem(e)  g == K!GenericMem(e)
           a == K!Less(rest, d)  n == K!Less(a, g)
<1>1. rest \in Nat /\ rest <= Memory /\ Memory \in Nat /\ own \in Nat /\ d \in Nat /\ g \in Nat /\ own <= d
  <2>1. rest \in 0 .. Memory /\ Memory \in Nat
    BY DEF K!Sizes, K!Reading
  <2> QED
    BY <2>1, SumsAre
<1>2. n = K!FreeMem(e)
  BY DEF K!FreeMem
<1> HIDE DEF rest, own, d, g
<1>3. a \in Nat /\ (a > 0 => rest = d + a)
  BY <1>1, LessIs
<1> HIDE DEF a
<1>4. n \in Nat /\ (n > 0 => a = g + n)
  BY <1>1, <1>3, LessIs
<1> HIDE DEF n
<1>5. CASE mem = 0
  BY <1>1, <1>5 DEF own, g
<1>6. CASE mem # 0
  <2>1. own + g + mem <= Memory
    BY <1>1, <1>2, <1>3, <1>4, <1>6
  <2> QED
    BY <2>1 DEF own, g
<1> QED
  BY <1>5, <1>6

LEMMA ClaimStep ==
  ASSUME K!Sizes, CapacityInv, NEW c \in HostClaim, NEW cpu \in CpuAsks, NEW mem \in MemAsks,
         K!Allocate(c, cpu, mem)
  PROVE  CapacityInv'
<1>1. PICK e \in K!Eligible(cpu, mem) : claim' = [claim EXCEPT ![c] = [at |-> e, cpu |-> cpu, mem |-> mem]]
  BY DEF K!Allocate
<1> DEFINE new == [at |-> e, cpu |-> cpu, mem |-> mem]
<1>2. /\ claim[c] = None /\ claim' = [claim EXCEPT ![c] = new] /\ UNCHANGED <<reading, online, lease>>
      /\ (cpu # 0 \/ mem # 0)
  BY <1>1 DEF K!Allocate
<1>3. /\ e \in online /\ cpu \in Nat /\ mem \in Nat
      /\ (cpu # 0 => K!Rounded(K!FreeCpu(e)) >= cpu) /\ (mem # 0 => K!FreeMem(e) >= mem)
  BY DEF K!Eligible, K!Sizes
<1>4. /\ K!TypeOK /\ claim \in [HostClaim -> K!Allocation \cup {None}]
      /\ reading \in [Endpoint -> K!Reading \cup {None}]
  BY DEF CapacityInv, K!TypeOK
<1>5. e \in Endpoint /\ reading[e] \in K!Reading
  BY <1>3, <1>4 DEF K!TypeOK
<1>6. new \in K!Allocation /\ new # None
  <2>1. new \in K!Allocation
    BY <1>5 DEF K!Allocation
  <2> QED
    BY <2>1 DEF K!Sizes
<1>7. /\ claim' \in [HostClaim -> K!Allocation \cup {None}] /\ claim'[c] = new
      /\ \A m \in HostClaim : m # c => claim'[m] = claim[m]
  <2> HIDE DEF new
  <2> QED
    BY <1>2, <1>4, <1>6
<1>8. K!TypeOK'
  <2>1. new.cpu + new.mem > 0
    BY <1>2, <1>3
  <2> HIDE DEF new
  <2> QED
    BY <1>2, <1>4, <1>7, <2>1 DEF K!TypeOK, K!Reading, K!Commitment, K!Allocation
<1>9. ASSUME NEW d \in Endpoint
      PROVE  OwnCpu(d)' + K!GenericCpu(d)' <= Cores + 1 /\ OwnMem(d)' + K!GenericMem(d)' <= Memory
  <2>1. OwnCpu(d)' = OwnCpu(d) /\ OwnMem(d)' = OwnMem(d)
    BY <1>2, SameLeases
  <2>2. OwnCpu(d) + K!GenericCpu(d) <= Cores + 1 /\ OwnMem(d) + K!GenericMem(d) <= Memory
    BY FitsNow
  <2>3. /\ K!DirectCpu(d) \in Nat /\ K!DirectMem(d) \in Nat
        /\ K!GenericCpu(d) \in Nat /\ K!GenericMem(d) \in Nat
        /\ OwnCpu(d) \in Nat /\ OwnMem(d) \in Nat
        /\ OwnCpu(d) <= K!DirectCpu(d) /\ OwnMem(d) <= K!DirectMem(d)
    BY <1>4, SumsAre
  <2>4. CASE d = e
    <3>1. c \notin K!Claims(e) /\ K!Claims(e)' = K!Claims(e) \cup {c}
          /\ \A m \in K!Claims(e) : claim'[m] = claim[m]
      BY <1>2, <1>6, <1>7 DEF K!Claims
    <3>2. K!GenericCpu(e)' = cpu + K!GenericCpu(e) /\ K!GenericMem(e)' = mem + K!GenericMem(e)
      BY <1>3, <1>4, <1>7, <3>1, ClaimComes
    <3>3. OwnCpu(e) + K!GenericCpu(e) + cpu <= Cores + 1
      <4>1. OwnCpu(e) + K!GenericCpu(e) <= Cores + 1
        BY <2>2, <2>4
      <4> QED
        BY <1>3, <1>4, <1>5, <4>1, RoomOfCores
    <3>4. OwnMem(e) + K!GenericMem(e) + mem <= Memory
      <4>1. OwnMem(e) + K!GenericMem(e) <= Memory
        BY <2>2, <2>4
      <4> QED
        BY <1>3, <1>4, <1>5, <4>1, RoomOfMemory
    <3> QED
      BY <1>3, <2>1, <2>3, <2>4, <3>2, <3>3, <3>4
  <2>5. CASE d # e
    <3>1. K!Claims(d)' \subseteq K!Claims(d) /\ \A m \in K!Claims(d)' : claim'[m] = claim[m]
      BY <1>6, <1>7, <2>5 DEF K!Claims
    <3>2. /\ K!GenericCpu(d)' <= K!GenericCpu(d) /\ K!GenericMem(d)' <= K!GenericMem(d)
          /\ K!GenericCpu(d)' \in Nat /\ K!GenericMem(d)' \in Nat
      BY <1>4, <3>1, ClaimLeaves
    <3> QED
      BY <2>1, <2>2, <2>3, <3>2 DEF K!Sizes
  <2> QED
    BY <2>4, <2>5
<1> QED
  BY <1>8, <1>9, FitsNext

LEMMA OtherCapacitySteps ==
  ASSUME K!Sizes, CapacityInv, UNCHANGED claim \/ (\E c \in HostClaim : K!Free(c)), UNCHANGED lease, K!TypeOK'
  PROVE  CapacityInv'
<1>1. K!TypeOK
  BY DEF CapacityInv
<1>2. ASSUME NEW e \in Endpoint
      PROVE  OwnCpu(e)' + K!GenericCpu(e)' <= Cores + 1 /\ OwnMem(e)' + K!GenericMem(e)' <= Memory
  <2>1. K!Claims(e)' \subseteq K!Claims(e) /\ \A m \in K!Claims(e)' : claim'[m] = claim[m]
    BY <1>1 DEF K!Claims, K!Free, K!TypeOK
  <2>2. /\ K!GenericCpu(e)' <= K!GenericCpu(e) /\ K!GenericMem(e)' <= K!GenericMem(e)
        /\ K!GenericCpu(e)' \in Nat /\ K!GenericMem(e)' \in Nat
    BY <1>1, <2>1, ClaimLeaves
  <2>3. OwnCpu(e)' = OwnCpu(e) /\ OwnMem(e)' = OwnMem(e)
    BY SameLeases
  <2> QED
    BY <1>1, <2>2, <2>3, SumsAre, FitsNow DEF K!Sizes
<1> QED
  BY <1>2, FitsNext

LEMMA CapacityStep == ASSUME K!Sizes, CapacityInv, [K!Next]_K!vars PROVE CapacityInv'
<1>1. K!TypeOK
  BY DEF CapacityInv
<1>2. CASE \E l \in Lease, S \in K!Servers :
             K!Move(l, S) \/ \E cpu \in CpuAsks, mem \in MemAsks : K!Lend(l, S, cpu, mem)
  BY <1>2, LendStep, MoveOrEnd
<1>3. CASE \E l \in Lease : K!End(l)
  BY <1>3, MoveOrEnd
<1>4. CASE \E c \in HostClaim, cpu \in CpuAsks, mem \in MemAsks : K!Allocate(c, cpu, mem)
  BY <1>4, ClaimStep
<1>5. ASSUME NEW c \in HostClaim, K!Free(c)
      PROVE  CapacityInv'
  <2>1. K!TypeOK'
    BY <1>1, <1>5 DEF K!TypeOK, K!Free, K!Reading, K!Commitment, K!Allocation
  <2> QED
    BY <1>5, <2>1, OtherCapacitySteps DEF K!Free
<1>6. ASSUME NEW e \in Endpoint, K!Read(e) \/ K!Lose(e)
      PROVE  CapacityInv'
  <2>1. UNCHANGED <<lease, claim>>
    BY <1>6 DEF K!Read, K!Lose
  <2>2. CASE K!Read(e)
    <3>1. PICK r \in K!Reading : reading' = [reading EXCEPT ![e] = r] /\ online' = online \cup {e}
      BY <2>2 DEF K!Read
    <3>2. r # None
      BY DEF K!Sizes
    <3>3. K!TypeOK'
      BY <1>1, <2>1, <3>1, <3>2 DEF K!TypeOK
    <3> QED
      BY <2>1, <3>3, OtherCapacitySteps
  <2>3. CASE K!Lose(e)
    <3>1. K!TypeOK'
      BY <1>1, <2>1, <2>3 DEF K!TypeOK, K!Lose
    <3> QED
      BY <2>1, <3>1, OtherCapacitySteps
  <2> QED
    BY <1>6, <2>2, <2>3
<1>7. CASE UNCHANGED K!vars
  <2>1. K!TypeOK' /\ UNCHANGED <<lease, claim>>
    BY <1>1, <1>7 DEF K!TypeOK, K!vars
  <2> QED
    BY <2>1, OtherCapacitySteps
<1> QED
  BY <1>2, <1>3, <1>4, <1>5, <1>6, <1>7 DEF K!Next

\* Leases and claims together are never promised more than a server has: the
\* broker checks a lease against both sums, and a claim against a reading that
\* both sums are taken off (_eligible_gpus, _select_host_capacity_unit).
THEOREM CapacityInvariant == ASSUME K!Sizes PROVE K!Spec => []CapacityInv
<1>1. K!Init => CapacityInv
  BY CapacityInit
<1>2. CapacityInv /\ [K!Next]_K!vars => CapacityInv'
  BY CapacityStep
<1> QED
  BY <1>1, <1>2, PTL DEF K!Spec

-----------------------------------------------------------------------------
(* The parts together *)

\* A planner at rest satisfies the invariant of the loop.
LEMMA RestIsLoop == Rest => Loop
<1> SUFFICES ASSUME Rest PROVE Loop
  OBVIOUS
<1> DEFINE p == CHOOSE q \in L!Plan : TRUE
<1>1. p \in L!Plan
  BY ResourcesAssumption
<1>2. plans = <<p>> /\ decided = <<"not-reached">>
  BY DEF Rest
<1> HIDE DEF p
<1>3. plans \in [1 .. 1 -> L!Plan] /\ decided \in [1 .. 1 -> L!Reasons]
  BY <1>1, <1>2 DEF L!Reasons
<1>4. L!TypeOK
  BY <1>3, PlanSizes DEF Rest, L!TypeOK
<1> QED
  BY <1>4 DEF Rest, Loop, L!Chosen

LEMMA PartsStart == InitMC => Init /\ Loop /\ K!Init /\ R!Init
  BY InitLoop, RestIsLoop DEF InitMC

LEMMA PartsStep ==
  [NextMC]_allvars => [Next]_vars /\ [L!Next]_(L!vars) /\ [K!Next]_(K!vars) /\ [R!Next]_(R!vars)
<1> SUFFICES ASSUME [NextMC]_allvars
             PROVE  [Next]_vars /\ [L!Next]_(L!vars) /\ [K!Next]_(K!vars) /\ [R!Next]_(R!vars)
  OBVIOUS
<1>1. CASE part = "placement" /\ Next /\ UNCHANGED <<part, lvars, kvars, rvars>>
  BY <1>1 DEF lvars, kvars, rvars, L!vars, K!vars, R!vars
<1>2. CASE part = "plans" /\ L!Next /\ UNCHANGED <<part, vars, kvars, rvars>>
  BY <1>2 DEF kvars, rvars, K!vars, R!vars
<1>3. CASE part = "capacity" /\ K!Next /\ UNCHANGED <<part, vars, lvars, rvars>>
  BY <1>3 DEF lvars, rvars, L!vars, R!vars
<1>4. CASE part = "calls" /\ R!Next /\ UNCHANGED <<part, vars, lvars, kvars>>
  BY <1>4 DEF lvars, kvars, L!vars, K!vars
<1>5. CASE UNCHANGED allvars
  BY <1>5 DEF allvars, lvars, kvars, rvars, L!vars, K!vars, R!vars
<1> QED
  BY <1>1, <1>2, <1>3, <1>4, <1>5 DEF NextMC

\* Every behaviour plays the parts by their own rules.
THEOREM PartsAreKept == SpecMC => Spec /\ []Loop /\ K!Spec /\ R!Spec
<1>1. Loop /\ [L!Next]_(L!vars) => Loop'
  BY LoopStep, LoopStays
<1> QED
  BY PartsStart, PartsStep, <1>1, PTL DEF SpecMC, Spec, K!Spec, R!Spec

\* The plan chosen is the last that steps that pay lead to from the smallest
\* (select_smallest_useful_plan).
THEOREM PlanIsSmallestUseful == SpecMC => []SmallestUseful
<1>1. Loop => SmallestUseful
  BY DEF Loop, Reached, SmallestUseful, L!SmallestUseful, L!Chosen
<1> QED
  BY <1>1, PartsAreKept, PTL

\* The chosen plan saves the threshold once for every step it is larger
\* (select_smallest_useful_plan).
THEOREM SavingsAreReal == SpecMC => []SavingsAddUp
<1>1. Loop => SavingsAddUp
  BY DEF Loop, Reached, SavingsAddUp, L!SavingsAddUp, L!Chosen
<1> QED
  BY <1>1, PartsAreKept, PTL

\* Leases and claims together are never promised more than a server has: the
\* broker checks a lease against both sums, and a claim against a reading that
\* both sums are taken off (_eligible_gpus, _select_host_capacity_unit).
THEOREM PromisesAreKept == SpecMC => []AdmittedFits
<1>1. K!Spec => []CapacityInv
  BY CapacityInvariant, ResourcesAssumption
<1>2. CapacityInv => AdmittedFits
  BY DEF CapacityInv, AdmittedFits
<1> QED
  BY <1>1, <1>2, PartsAreKept, PTL

\* However attempts and answers are lost, delayed and repeated, a call is given
\* one lease at most, and the lease its agent is told is its own (gpu_apply,
\* _routine_request_key, _idempotent).
THEOREM CallsGetTheirOwn == SpecMC => []OneOwnLease
<1>1. R!Spec => []CallsInv
  BY CallsInvariant, ResourcesAssumption
<1>2. CallsInv => OneOwnLease
  BY CallsAreOwn, ResourcesAssumption DEF OneOwnLease
<1> QED
  BY <1>1, <1>2, PartsAreKept, PTL

\* A call that was refused holds nothing, and a late attempt gives it nothing
\* (claim_request_now).
THEOREM RefusalIsFinal == SpecMC => []RefusedHoldsNothing
<1>1. R!Spec => []CallsInv
  BY CallsInvariant, ResourcesAssumption
<1>2. R!GoodGrants /\ CallsInv => RefusedHoldsNothing
  BY DEF CallsInv, RecordsMatch, RefusalsAreLast, RefusedHoldsNothing, R!RefusedHoldsNothing, R!Open,
     R!GoodGrants
<1> QED
  BY <1>1, <1>2, ResourcesAssumption, PartsAreKept, PTL

\* A claim gets GPUs that meet its constraints, as evenly spread as it asked, and is
\* refused only if there are none (_select_resources).
THEOREM ChoicesAreExact == SpecMC => []ChoiceIsExact
<1>1. ChosenFits /\ RefusedOnlyIfImpossible /\ SpreadIsEven => ChoiceIsExact
  BY DEF ChoiceIsExact
<1> QED
  BY <1>1, PartsAreKept, ChoiceFits, RefusalIsRight, SpreadingIsEven, PTL

\* Where workers have yielded and the claim then meets all GPUs of the plan, it
\* succeeds (plan_keepalive_reclaim).
THEOREM ReclaimIsEnough == SpecMC => []PlanIsEnough
  BY PartsAreKept, PlansAreEnough, PTL

\* Every table has its type, and the stored evaluation marks the chosen plan alone
\* (evaluate_resource_plan).
THEOREM TablesStayRight == SpecMC => []TablesAreRight
<1>1. (K!Spec => []CapacityInv) /\ (R!Spec => []CallsInv)
  BY CapacityInvariant, CallsInvariant, ResourcesAssumption
<1>2. PlacementInv /\ Loop /\ CapacityInv /\ CallsInv => TablesAreRight
  BY DEF PlacementInv, Loop, Reached, Decided, CapacityInv, CallsInv, TablesAreRight, L!RecordIsTrue
<1> QED
  BY <1>1, <1>2, PartsAreKept, PlacementInvariant, PTL
=============================================================================
