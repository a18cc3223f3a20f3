-------------------------- MODULE MCControllerLive ---------------------------
(***************************************************************************)
(* Liveness of KeepaliveController for TLC, with two casts.  "keepers":      *)
(* reconciliations and workers on the server e1, without claims under locks  *)
(* and programs of users.  "claims": claims that take the locks of both      *)
(* servers, without reconciliations.                                        *)
(***************************************************************************)
EXTENDS MCKeepaliveController

VARIABLE cast

\* What the steps of a cast leave alone.
Plays ==
    /\ host'[e2] = host[e2] /\ probe'[e2] = None
    /\ cast = "keepers" =>
          /\ holder'[e2] = None
          /\ \A t \in Claimer : task'[t] = Idle
          /\ \A g \in Gpu : real'[g] \subseteq Worker
    /\ cast = "claims" =>
          /\ host'[e1].policy = host[e1].policy
          /\ \A t \in Reconciler : task'[t] = Idle

NextMC == ControllerNext /\ Plays /\ UNCHANGED cast

Spawns == cast = "keepers" /\ LoopSpawn(e1)

\* FairSpec, for the steps a cast has.
SpecMC ==
    /\ ControllerInit /\ cast \in {"keepers", "claims"}
    /\ [][NextMC]_<<allvars, cast>>
    /\ WF_allvars(Recycle)
    /\ \A t \in Reconciler : SF_allvars(cast = "keepers" /\ TaskStep(t))
    /\ \A t \in Claimer : SF_allvars(cast = "claims" /\ TaskStep(t))
    /\ WF_allvars(LoopStep(e1)) /\ SF_allvars(Spawns)
=============================================================================
