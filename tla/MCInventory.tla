---------------------------- MODULE MCInventory -----------------------------
(***************************************************************************)
(* The calendar of GPUs and the inventory of servers for TLC.  They share no *)
(* state but the leases, which each knows in its own way, so a behaviour     *)
(* plays one part and the variables of the other stay as they are.  Reserva- *)
(* tions and maintenance windows meet only as guards of a claim, and are     *)
(* played apart.                                                            *)
(***************************************************************************)
EXTENDS ReservationCalendar

CONSTANTS
    Endpoint, Address, Conn,
    Holder, Claimant,       \* the leases and the claims on capacity of Endpoints
    Inventories,
    e1, a1, c1,             \* the server a file names
    None

VARIABLES part, inventory, row, tombs, gone, holds, keepers, unit, broker

E == INSTANCE Endpoints WITH Lease <- Holder, HostClaim <- Claimant

ASSUME InventoryAssumption == E!GoodFiles

\* A file that names one server with its adapter and its policy.
Files ==
    {[e \in Endpoint |->
        IF e = e1 THEN [addr |-> a1, conn |-> c1, adapter |-> TRUE, policy |-> "idle", owned |-> FALSE]
        ELSE None]}

evars == <<inventory, row, tombs, gone, holds, keepers, unit, broker>>

InitMC == part \in {"bookings", "repairs", "endpoints"} /\ Init /\ E!Init

NextMC ==
    \/ part = "bookings" /\ Next /\ UNCHANGED <<part, maintenance, evars>>
    \/ part = "repairs" /\ Next /\ UNCHANGED <<part, reservation, evars>>
    \/ part = "endpoints" /\ E!Next /\ UNCHANGED <<part, vars>>

SpecMC == InitMC /\ [][NextMC]_<<part, vars, evars>>

-----------------------------------------------------------------------------
(* Properties of Endpoints under names a configuration can give *)

\* Leases, keepalive workers and claims stand on servers that are there; a deleted
\* server comes back only when someone adds it, never with a restart; where
\* keepalive is wished for there is an adapter to keep it with (delete_endpoint,
\* _upsert_inventory, configure_keepalive_policy, upsert_endpoint).
ServersAreKept ==
    /\ TypeOK
    /\ E!TypeOK /\ E!UsersHaveServers /\ E!DeletedStayDeleted /\ E!PolicyHasAdapter

\* While a worker runs, how its server is reached and verified does not change
\* (update_endpoint, upsert_endpoint, _upsert_inventory).
WorkersStayReachable == E!WorkersStayReachable
=============================================================================
