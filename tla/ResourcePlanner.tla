--------------------------- MODULE ResourcePlanner ---------------------------
(***************************************************************************)
(* The choice among ever larger resource plans (planner.py,                 *)
(* select_smallest_useful_plan) and what evaluate_resource_plan records of  *)
(* it.  A plan is larger than the one before; it is taken only if it saves  *)
(* enough time over the plan taken so far.                                  *)
(***************************************************************************)
EXTENDS Integers

CONSTANTS
    MaxPlans,       \* bound: candidates of a request
    Key,            \* candidate keys
    Size,           \* what a plan may ask for, of two resources
    MaxSeconds,     \* bound: predicted run times
    Hundred         \* the fraction 1, in the unit of the threshold

\* Sizes, times and thresholds are counted.
Bounds ==
    /\ MaxPlans \in Nat \ {0} /\ Size \subseteq Nat \X Nat
    /\ MaxSeconds \in Nat \ {0} /\ Hundred \in Nat \ {0}

VARIABLES
    plans,          \* the candidates, in the order given
    minSaved,       \* the thresholds: seconds and fraction of the run time
    minFraction,
    at,             \* the candidate to be looked at next
    selected,       \* the candidate taken so far
    decided,        \* candidate -> the reason of its decision, for those reached
    rows,           \* the set of the candidates stored with selected = TRUE
    phase           \* "idle", "check", "choose", "store", "done" or "refused"

vars == <<plans, minSaved, minFraction, at, selected, decided, rows, phase>>

Plan == [key : Key, size : Size, secs : 1 .. MaxSeconds]

Reasons == {"smallest-feasible", "marginal-benefit-qualified", "marginal-benefit-below-threshold",
            "not-reached"}

TypeOK ==
    /\ \E n \in 1 .. MaxPlans : plans \in [1 .. n -> Plan] /\ decided \in [1 .. n -> Reasons]
    /\ minSaved \in 0 .. MaxSeconds /\ minFraction \in 0 .. Hundred
    /\ at \in 1 .. MaxPlans + 1 /\ selected \in 1 .. MaxPlans
    /\ rows \subseteq 1 .. MaxPlans
    /\ phase \in {"check", "choose", "store", "done", "refused"}

-----------------------------------------------------------------------------

\* The size grows from one candidate to the next, and shrinks in no resource.
Expands(p, q) ==
    /\ p.size # q.size
    /\ p.size[1] <= q.size[1] /\ p.size[2] <= q.size[2]

Valid ==
    /\ \A k \in DOMAIN plans : plans[k].size # <<0, 0>>
    /\ \A j, k \in DOMAIN plans : plans[j].key = plans[k].key => j = k
    /\ \A k \in DOMAIN plans : k + 1 \in DOMAIN plans => Expands(plans[k], plans[k + 1])

Saved(p, q) == p.secs - q.secs

\* Defect: either threshold is enough.
UsefulEither(p, q) ==
    \/ Saved(p, q) >= minSaved
    \/ Saved(p, q) * Hundred >= minFraction * p.secs

Useful(p, q) ==
    /\ Saved(p, q) >= minSaved
    /\ Saved(p, q) * Hundred >= minFraction * p.secs

\* A request arrives; validate_selected_candidate and the planner look at it.
Init ==
    /\ \E n \in 1 .. MaxPlans :
          /\ plans \in [1 .. n -> Plan]
          /\ decided = [k \in 1 .. n |-> "not-reached"]
    /\ minSaved \in 0 .. MaxSeconds /\ minFraction \in 0 .. Hundred
    /\ at = 1 /\ selected = 1 /\ rows = {}
    /\ phase = "check"

\* Defect: candidates are counted from zero.
CheckFromZero ==
    /\ phase = "check"
    /\ IF Valid
       THEN /\ phase' = "choose" /\ at' = 0
            /\ decided' = [decided EXCEPT ![1] = "smallest-feasible"]
       ELSE phase' = "refused" /\ UNCHANGED <<at, decided>>
    /\ UNCHANGED <<plans, minSaved, minFraction, selected, rows>>

Check ==
    /\ phase = "check"
    /\ IF Valid
       THEN /\ phase' = "choose" /\ at' = 2
            /\ decided' = [decided EXCEPT ![1] = "smallest-feasible"]
       ELSE phase' = "refused" /\ UNCHANGED <<at, decided>>
    /\ UNCHANGED <<plans, minSaved, minFraction, selected, rows>>

\* Defect: a step that does not pay is skipped, and the choice goes on.
TakeAny ==
    /\ phase = "choose" /\ at \in DOMAIN plans
    /\ LET pays == Useful(plans[selected], plans[at])
       IN  /\ selected' = IF pays THEN at ELSE selected
           /\ decided' = [decided EXCEPT ![at] = IF pays THEN "marginal-benefit-qualified"
                                                 ELSE "marginal-benefit-below-threshold"]
    /\ at' = at + 1
    /\ UNCHANGED <<plans, minSaved, minFraction, rows, phase>>

\* One turn of the loop; a step that does not pay ends it.
Take ==
    /\ phase = "choose" /\ at \in DOMAIN plans
    /\ LET pays == Useful(plans[selected], plans[at])
       IN  /\ selected' = IF pays THEN at ELSE selected
           /\ at' = IF pays THEN at + 1 ELSE at
           /\ phase' = IF pays THEN "choose" ELSE "store"
           /\ decided' = [decided EXCEPT ![at] = IF pays THEN "marginal-benefit-qualified"
                                                 ELSE "marginal-benefit-below-threshold"]
    /\ UNCHANGED <<plans, minSaved, minFraction, rows>>

Exhaust ==
    /\ phase = "choose" /\ at \notin DOMAIN plans
    /\ phase' = "store"
    /\ UNCHANGED <<plans, minSaved, minFraction, at, selected, decided, rows>>

\* Defect: every candidate that paid is stored as the selected one.
StoreAll ==
    /\ phase = "store"
    /\ rows' = {k \in DOMAIN plans : decided[k] \in {"smallest-feasible", "marginal-benefit-qualified"}}
    /\ phase' = "done"
    /\ UNCHANGED <<plans, minSaved, minFraction, at, selected, decided>>

\* The candidates are stored; the selected one is found again by its key.
Store ==
    /\ phase = "store"
    /\ rows' = {k \in DOMAIN plans : plans[k].key = plans[selected].key}
    /\ phase' = "done"
    /\ UNCHANGED <<plans, minSaved, minFraction, at, selected, decided>>

Next == Check \/ Take \/ Exhaust \/ Store

Spec == Init /\ [][Next]_vars

-----------------------------------------------------------------------------
(* Properties *)

Chosen == phase \in {"store", "done"}

\* The plan chosen is the last one that can be reached from the smallest by
\* steps that pay: each of them does, and the next one, if any, does not.
SmallestUseful ==
    Chosen =>
       /\ selected \in DOMAIN plans
       /\ \A k \in 1 .. selected - 1 : Useful(plans[k], plans[k + 1])
       /\ selected + 1 \in DOMAIN plans => ~Useful(plans[selected], plans[selected + 1])

\* The record of an evaluation marks one candidate, the chosen one, and gives
\* the candidates up to it as decided for (evaluate_resource_plan).
RecordIsTrue ==
    phase = "done" =>
       /\ rows = {selected}
       /\ \A k \in DOMAIN plans :
             k <= selected <=> decided[k] \in {"smallest-feasible", "marginal-benefit-qualified"}

\* The chosen plan saves at least the threshold for every step it is larger.
SavingsAddUp == Chosen => Saved(plans[1], plans[selected]) >= (selected - 1) * minSaved
=============================================================================
