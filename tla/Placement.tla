------------------------------ MODULE Placement ------------------------------
(***************************************************************************)
(* The choice of GPUs for a request (service.py, _select_resources), and    *)
(* the plan that tells which keepalive workers must yield before a claim    *)
(* (plan_keepalive_reclaim).                                               *)
(*                                                                         *)
(* A GPU is a pair of its server and its index there, both numbers, so that *)
(* the order by endpoint and by GPU index is the order of numbers.  What    *)
(* makes a GPU a candidate at all is LeaseBroker's and                      *)
(* ReservationCalendar's matter.                                           *)
(***************************************************************************)
EXTENDS Naturals, FiniteSets

CONSTANTS
    Host, Index,    \* numbers of servers, and of GPUs on a server
    MaxCount,       \* bound: GPUs a request may ask for
    None

VARIABLES
    free,           \* the candidates of an ordinary claim
    kept,           \* GPUs held by keepalive workers that may yield
    wish,           \* the constraints of the request
    met,            \* the candidates the last claim looked at
    offered,        \* the candidates of the plan
    plan,           \* the GPUs the plan chose, among them the kept ones to yield
    yielded,        \* the GPUs whose workers have yielded
    chosen,         \* the GPUs the claim was given
    phase           \* how far claim_request_now is

vars == <<free, kept, wish, met, offered, plan, yielded, chosen, phase>>

Gpu == Host \X Index

\* What validate_topology admits; perNode = 0 where none is given.
Constraints ==
    {c \in [count : 1 .. MaxCount, placement : {"pack", "spread", "exact"}, nodes : 1 .. MaxCount,
            perNode : 0 .. MaxCount, sameHost : BOOLEAN, gpus : SUBSET Gpu] :
        /\ c.nodes > 1 => c.perNode # 0
        /\ c.perNode # 0 => c.nodes * c.perNode = c.count
        /\ c.sameHost => c.nodes = 1
        /\ c.placement = "exact" => c.gpus # {}
        /\ c.gpus # {} => Cardinality(c.gpus) = c.count}

ASSUME PlacementAssumption ==
    /\ Host \subseteq Nat /\ IsFiniteSet(Host)
    /\ Index \subseteq Nat /\ IsFiniteSet(Index)
    /\ MaxCount \in Nat
    /\ None \notin Constraints /\ \A S \in SUBSET Gpu : S # None

TypeOK ==
    /\ free \subseteq Gpu /\ kept \subseteq Gpu \ free
    /\ wish \in Constraints \cup {None}
    /\ met \subseteq Gpu /\ offered \subseteq Gpu /\ yielded \subseteq Gpu \ kept
    /\ plan \in (SUBSET Gpu) \cup {None} /\ chosen \in (SUBSET Gpu) \cup {None}
    /\ phase \in {"idle", "claim", "plan", "reclaim", "again", "done"}

-----------------------------------------------------------------------------
(* _select_resources *)

On(C, h) == {g \in C : g[1] = h}

Hosts(C) == {g[1] : g \in C}

\* The first n of the numbers in S.
FirstOf(S, n) == {x \in S : Cardinality({y \in S : y < x}) < n}

\* The first n GPUs of C on the server h.
Lowest(C, h, n) == {g \in C : g[1] = h /\ g[2] \in FirstOf({x[2] : x \in On(C, h)}, n)}

\* The order in which servers are tried: as they are, or, to spread, those with
\* the fewest candidates first.
Before(C, c, g, h) ==
    IF c.placement = "spread"
    THEN \/ Cardinality(On(C, g)) < Cardinality(On(C, h))
         \/ Cardinality(On(C, g)) = Cardinality(On(C, h)) /\ g < h
    ELSE g < h

\* Defect: a server with exactly as many GPUs as are needed is passed over.
LargerHosts(C, n) == {h \in Hosts(C) : Cardinality(On(C, h)) > n}

LargeEnough(C, n) == {h \in Hosts(C) : Cardinality(On(C, h)) >= n}

\* n GPUs on each of the first m servers that have as many.
FromHosts(C, c, m, n) ==
    LET hosts == LargeEnough(C, n)
        taken == {h \in hosts : Cardinality({g \in hosts : Before(C, c, g, h)}) < m}
    IN  IF Cardinality(hosts) < m THEN None ELSE UNION {Lowest(C, h, n) : h \in taken}

Earlier(g, h) == g[1] < h[1] \/ (g[1] = h[1] /\ g[2] < h[2])

\* Defect: the GPUs are packed.
RoundsOfOne(C, n) == {g \in C : Cardinality({h \in C : Earlier(h, g)}) < n}

\* The first GPU that is left of every server.
Heads(D) == {g \in D : \A h \in On(D, g[1]) : g[2] <= h[2]}

\* One turn: the heads, the first m of them if there are more.
Round(D, m) == {g \in Heads(D) : Cardinality({h \in Heads(D) : h[1] < g[1]}) < m}

\* One GPU of every server in turn, until n are found.
Rounds(C, n) ==
    LET take[D \in SUBSET C] ==
            [m \in 0 .. n |->
               IF D = {} \/ m = 0 THEN {}
               ELSE Round(D, m) \cup take[D \ Round(D, m)][m - Cardinality(Round(D, m))]]
    IN  take[C][n]

\* Defect: an exact set is cut down to what is there.
SelectThere(C, c) ==
    IF c.placement = "exact" THEN c.gpus \cap C
    ELSE IF Cardinality(C) < c.count THEN None ELSE C

SelectResources(C, c) ==
    IF Cardinality(C) < c.count THEN None
    ELSE CASE c.placement = "exact" -> IF c.gpus \subseteq C THEN c.gpus ELSE None
           [] c.placement # "exact" /\ c.perNode # 0 -> FromHosts(C, c, c.nodes, c.perNode)
           [] c.placement # "exact" /\ c.perNode = 0 /\ c.sameHost -> FromHosts(C, c, 1, c.count)
           [] c.placement = "pack" /\ c.perNode = 0 /\ ~c.sameHost ->
                 {g \in C : Cardinality({h \in C : Earlier(h, g)}) < c.count}
           [] c.placement = "spread" /\ c.perNode = 0 /\ ~c.sameHost -> Rounds(C, c.count)

-----------------------------------------------------------------------------
(* claim_request_now: a claim; where it is refused, a plan, the yielding     *)
(* workers one by one, and the claim again, under the locks of all          *)
(* endpoints.  Other requests need none of them.                           *)

Init ==
    /\ free = {} /\ kept = {} /\ wish = None /\ met = {} /\ offered = {}
    /\ plan = None /\ yielded = {} /\ chosen = None /\ phase = "idle"

\* A request meets some candidates; a GPU the constraints exclude is none.
Ask ==
    /\ phase = "idle"
    /\ \E F \in SUBSET Gpu, c \in Constraints : \E K \in SUBSET (Gpu \ F) :
          /\ c.gpus # {} => F \cup K \subseteq c.gpus
          /\ free' = F /\ kept' = K /\ wish' = c
    /\ phase' = "claim"
    /\ UNCHANGED <<met, offered, plan, yielded, chosen>>

\* create_request looks at no GPU where the project is disabled or at a limit.
Create ==
    /\ met' \in {free, {}}
    /\ chosen' = SelectResources(met', wish)
    /\ UNCHANGED <<free, kept, wish, offered, plan, yielded>>

Claim ==
    /\ phase = "claim"
    /\ Create
    /\ phase' = IF chosen' = None THEN "plan" ELSE "done"

\* Defect: the plan reads the constraints without the servers' shape.
PlanFlat ==
    /\ phase = "plan"
    /\ offered' = free \cup kept
    /\ plan' = SelectResources(offered', [wish EXCEPT !.perNode = 0, !.sameHost = FALSE])
    /\ phase' = IF plan' = None \/ plan' \cap kept = {} THEN "done" ELSE "reclaim"
    /\ UNCHANGED <<free, kept, wish, met, yielded, chosen>>

\* Without a complete plan no worker yields and the refusal stands.  The plan does
\* not ask whether a kept GPU is fit for the request, nor for the project's limits.
Plan ==
    /\ phase = "plan"
    /\ offered' = free \cup kept
    /\ plan' = SelectResources(offered', wish)
    /\ phase' = IF plan' = None \/ plan' \cap kept = {} THEN "done" ELSE "reclaim"
    /\ UNCHANGED <<free, kept, wish, met, yielded, chosen>>

\* Defect: the GPU stays under keepalive.
ReleaseKeeping(g) ==
    /\ yielded' = yielded \cup {g} /\ free' = free \cup {g}
    /\ UNCHANGED <<kept, wish, met, offered, plan, chosen>>

\* The worker of g is seen to be gone; g is now a candidate if it is fit for the
\* request: healthy, enabled, with enough free memory.
Release(g) ==
    /\ kept' = kept \ {g} /\ yielded' = yielded \cup {g}
    /\ free' \in {free, free \cup {g}}
    /\ UNCHANGED <<wish, met, offered, plan, chosen>>

Yield(g) ==
    /\ phase = "reclaim" /\ g \in plan \cap kept
    /\ Release(g)
    /\ phase' = IF plan \cap kept \subseteq {g} THEN "again" ELSE "reclaim"

\* A stop that fails ends the request, although workers may have yielded before;
\* its own worker may be gone too.
StopFails(g) ==
    /\ phase = "reclaim" /\ g \in plan \cap kept
    /\ \/ Release(g)
       \/ UNCHANGED <<free, kept, wish, met, offered, plan, yielded, chosen>>
    /\ phase' = "done"

\* Meanwhile another request takes a candidate, or it is fit no longer; or a GPU
\* becomes one.
OthersAct(g) ==
    /\ phase \in {"plan", "reclaim", "again"}
    /\ g \notin kept /\ (wish.gpus # {} => g \in wish.gpus)
    /\ free' = IF g \in free THEN free \ {g} ELSE free \cup {g}
    /\ UNCHANGED <<kept, wish, met, offered, plan, yielded, chosen, phase>>

ClaimAgain ==
    /\ phase = "again"
    /\ Create
    /\ phase' = "done"

Next ==
    \/ Ask \/ Claim \/ Plan \/ ClaimAgain
    \/ \E g \in Gpu : Yield(g) \/ StopFails(g) \/ OthersAct(g)

Spec == Init /\ [][Next]_vars

-----------------------------------------------------------------------------
(* Properties *)

\* What the constraints ask of a set of GPUs.  An exact set is taken as it is
\* named, whatever the servers.
Fits(S, c) ==
    /\ Cardinality(S) = c.count
    /\ c.placement = "exact" => S = c.gpus
    /\ c.placement # "exact" =>
          /\ c.perNode # 0 => \A h \in Hosts(S) : Cardinality(On(S, h)) = c.perNode
          /\ c.sameHost => Cardinality(Hosts(S)) = 1

\* A claim gets free GPUs that meet its constraints (_select_resources).
ChosenFits == phase = "done" /\ chosen # None => chosen \subseteq free /\ Fits(chosen, wish)

\* A claim is refused only if no set of the candidates it looked at meets its
\* constraints.
RefusedOnlyIfImpossible ==
    phase = "done" /\ chosen = None => \A S \in SUBSET met : ~Fits(S, wish)

\* A spread over servers without other wishes reaches as many of them as it can,
\* and loads none before the others have had their turn.
SpreadIsEven ==
    phase = "done" /\ chosen # None /\ wish.placement = "spread" /\ wish.perNode = 0
        /\ ~wish.sameHost
    => \A g \in chosen, h \in Hosts(met) :
          On(met, h) \subseteq chosen
          \/ Cardinality(On(chosen, g[1])) <= Cardinality(On(chosen, h)) + 1

\* Where workers have yielded and the claim then meets all GPUs of the plan, it
\* succeeds; packed or exact it gets those of the plan, unless it meets more than
\* the plan did, so that no worker yields for a GPU that is not used
\* (plan_keepalive_reclaim).
PlanIsEnough ==
    phase = "done" /\ yielded # {} /\ plan \subseteq met
    => /\ chosen # None
       /\ wish.placement # "spread" /\ met \subseteq offered => chosen = plan
=============================================================================
