------------------------------ MODULE Endpoints ------------------------------
(***************************************************************************)
(* The inventory of servers: how rows of the table endpoints are created,   *)
(* edited, paused and deleted while leases, keepalive workers and claims    *)
(* stand on them, and how a start of the broker merges the inventory file   *)
(* with what the database holds (service.py, initialize and                 *)
(* _upsert_inventory).                                                      *)
(*                                                                         *)
(* An operation is one transaction of the broker.  Which GPUs of a server a *)
(* lease holds does not matter here, nor does the wording of a row: "conn"  *)
(* stands for the user, alias, work directory and observation profile.      *)
(***************************************************************************)
EXTENDS FiniteSets

CONSTANTS
    Endpoint,       \* ids of servers
    Address,        \* host and port
    Conn,           \* how a server is reached
    Lease, HostClaim, \* workload leases, and claims on CPU and memory
    Inventories,    \* what the inventory file may say
    None

VARIABLES
    inventory,      \* the inventory file: what it says of each id, or None
    row,            \* the table endpoints
    tombs,          \* the table endpoint_deletions
    gone,           \* ids deleted and not added since by anyone
    holds,          \* lease -> the servers whose GPUs it holds
    keepers,        \* servers with a GPU under an active keepalive lease
    unit,           \* claim -> the server whose capacity it was given, or None
    broker          \* "up", "down", or "failed" when the last start raised

vars == <<inventory, row, tombs, gone, holds, keepers, unit, broker>>

Row == [addr : Address, conn : Conn, adapter : BOOLEAN, policy : {"idle", "disabled"},
        life : {"active", "draining"}, owned : BOOLEAN]

\* EndpointConfig and EndpointCreate: a policy of keepalive names an adapter.
Sound(r) == r.policy = "idle" => r.adapter

\* What a caller says of a server.
Input == [addr : Address, conn : Conn, adapter : BOOLEAN, policy : {"idle", "disabled"},
          owned : BOOLEAN]

\* An entry of the file need not name a policy.
Entry == [addr : Address, conn : Conn, adapter : BOOLEAN,
          policy : {"idle", "disabled", "unnamed"}, owned : BOOLEAN]

\* What the inventory file may say has passed the checks of EndpointConfig, and
\* None is no server and no row.
GoodFiles ==
    /\ \A x \in Row \cup Entry \cup Endpoint : x # None
    /\ Inventories \subseteq [Endpoint -> Entry \cup {None}]
    /\ \A f \in Inventories, e \in Endpoint : f[e] # None => Sound(f[e])

Live == {e \in Endpoint : row[e] # None}

TypeOK ==
    /\ inventory \in [Endpoint -> Entry \cup {None}]
    /\ row \in [Endpoint -> Row \cup {None}]
    /\ tombs \subseteq Endpoint /\ gone \subseteq tombs
    /\ holds \in [Lease -> SUBSET Endpoint]
    /\ keepers \subseteq Endpoint
    /\ unit \in [HostClaim -> Endpoint \cup {None}]
    /\ broker \in {"up", "down", "failed"}

Init ==
    /\ inventory \in Inventories
    /\ row = [e \in Endpoint |-> None]
    /\ tombs = {} /\ gone = {}
    /\ holds = [l \in Lease |-> {}] /\ keepers = {}
    /\ unit = [c \in HostClaim |-> None]
    /\ broker = "down"

uses == <<holds, keepers, unit>>

Keep == UNCHANGED <<inventory, broker>>

TakenBy(a) == {e \in Live : row[e].addr = a}

\* Settings by which a running keepalive worker is reached and verified.
Protected(r) == <<r.conn, r.adapter>>

-----------------------------------------------------------------------------
(* Operations on one row *)

\* A new row, from the file or from a caller.
Inserted(i) ==
    [addr |-> i.addr, conn |-> i.conn, adapter |-> i.adapter, owned |-> i.owned,
     life |-> "active", policy |-> IF i.policy = "idle" THEN "idle" ELSE "disabled"]

\* create_endpoint: a new id at a new address; its tombstone goes.
Create(e, i) ==
    /\ broker = "up"
    /\ row[e] = None /\ TakenBy(i.addr) = {} /\ Sound(i)
    /\ row' = [row EXCEPT ![e] = Inserted(i)]
    /\ tombs' = tombs \ {e} /\ gone' = gone \ {e}
    /\ UNCHANGED uses /\ Keep

\* Defect: a running keepalive worker is not looked for.
UpdateBlindly(e, c, ad, o) ==
    /\ broker = "up" /\ e \in Live
    /\ ~(~ad /\ row[e].policy = "idle")
    /\ row' = [row EXCEPT ![e].conn = c, ![e].adapter = ad, ![e].owned = o]
    /\ UNCHANGED <<tombs, gone>> /\ UNCHANGED uses /\ Keep

\* update_endpoint: metadata only; not the settings of a running worker, nor
\* the adapter away from under the policy.
Update(e, c, ad, o) ==
    /\ broker = "up" /\ e \in Live
    /\ e \in keepers => <<c, ad>> = Protected(row[e])
    /\ ~(~ad /\ row[e].policy = "idle")
    /\ row' = [row EXCEPT ![e].conn = c, ![e].adapter = ad, ![e].owned = o]
    /\ UNCHANGED <<tombs, gone>> /\ UNCHANGED uses /\ Keep

\* upsert_endpoint, by which the user interface imports an ssh command: creates
\* or overwrites.  life is None where the caller names none.
Upsert(e, i, life) ==
    /\ broker = "up"
    /\ TakenBy(i.addr) \subseteq {e} /\ Sound(i)
    /\ \/ /\ row[e] = None /\ life \in {None, "active"}
          /\ row' = [row EXCEPT ![e] = Inserted(i)]
       \/ /\ row[e] # None /\ row[e].addr = i.addr
          /\ e \in keepers => Protected(i) = Protected(row[e])
          /\ life \in {None, row[e].life} \/ <<row[e].life, life>> = <<"active", "draining">>
          /\ row' = [row EXCEPT ![e] = [Inserted(i) EXCEPT
                        !.owned = i.owned \/ row[e].owned,
                        !.life = IF life = None THEN row[e].life ELSE life]]
    /\ gone' = gone \ {e}
    /\ UNCHANGED tombs /\ UNCHANGED uses /\ Keep

Pause(e) ==
    /\ broker = "up" /\ e \in Live
    /\ row[e].life = "active"
    /\ row' = [row EXCEPT ![e].life = "draining"]
    /\ UNCHANGED <<tombs, gone>> /\ UNCHANGED uses /\ Keep

Resume(e) ==
    /\ broker = "up" /\ e \in Live
    /\ row[e].life = "draining"
    /\ row' = [row EXCEPT ![e].life = "active"]
    /\ UNCHANGED <<tombs, gone>> /\ UNCHANGED uses /\ Keep

\* Defect: the adapter is not attached.
SwitchOnly(e, p) ==
    /\ broker = "up" /\ e \in Live
    /\ row' = [row EXCEPT ![e].policy = p]
    /\ UNCHANGED <<tombs, gone>> /\ UNCHANGED uses /\ Keep

\* configure_keepalive_policy, the user's switch: it attaches the adapter.
SetKeepalive(e, p) ==
    /\ broker = "up" /\ e \in Live
    /\ row' = [row EXCEPT ![e].policy = p, ![e].adapter = @ \/ p = "idle"]
    /\ UNCHANGED <<tombs, gone>> /\ UNCHANGED uses /\ Keep

HasActiveLeases(e) == e \in keepers \/ \E l \in Lease : e \in holds[l]

HasActiveAllocations(e) == \E c \in HostClaim : unit[c] = e

\* Defect: claims on CPU and memory are not looked for.
DeleteUnderClaims(e) ==
    /\ broker = "up" /\ e \in Live
    /\ ~HasActiveLeases(e)
    /\ row' = [row EXCEPT ![e] = None]
    /\ tombs' = tombs \cup {e} /\ gone' = gone \cup {e}
    /\ UNCHANGED uses /\ Keep

\* Defect: no tombstone is set.
DeleteUnmarked(e) ==
    /\ broker = "up" /\ e \in Live
    /\ ~HasActiveLeases(e) /\ ~HasActiveAllocations(e)
    /\ row' = [row EXCEPT ![e] = None]
    /\ gone' = gone \cup {e}
    /\ UNCHANGED tombs /\ UNCHANGED uses /\ Keep

Delete(e) ==
    /\ broker = "up" /\ e \in Live
    /\ ~HasActiveLeases(e) /\ ~HasActiveAllocations(e)
    /\ row' = [row EXCEPT ![e] = None]
    /\ tombs' = tombs \cup {e} /\ gone' = gone \cup {e}
    /\ UNCHANGED uses /\ Keep

-----------------------------------------------------------------------------
(* What stands on the servers *)

Acquire(l, S) ==
    /\ broker = "up"
    /\ holds[l] = {} /\ S # {}
    /\ \A e \in S : e \in Live /\ row[e].life = "active"
    /\ holds' = [holds EXCEPT ![l] = S]
    /\ UNCHANGED <<row, tombs, gone, keepers, unit>> /\ Keep

\* A move asks only that the GPUs exist.
Move(l, S) ==
    /\ broker = "up"
    /\ holds[l] # {} /\ S # {} /\ S \subseteq Live
    /\ holds' = [holds EXCEPT ![l] = S]
    /\ UNCHANGED <<row, tombs, gone, keepers, unit>> /\ Keep

Release(l) ==
    /\ broker = "up" /\ holds[l] # {}
    /\ holds' = [holds EXCEPT ![l] = {}]
    /\ UNCHANGED <<row, tombs, gone, keepers, unit>> /\ Keep

StartKeeper(e) ==
    /\ broker = "up" /\ e \in Live \ keepers
    /\ row[e].policy = "idle" /\ row[e].adapter /\ row[e].life = "active"
    /\ keepers' = keepers \cup {e}
    /\ UNCHANGED <<row, tombs, gone, holds, unit>> /\ Keep

StopKeeper(e) ==
    /\ broker = "up" /\ e \in keepers
    /\ keepers' = keepers \ {e}
    /\ UNCHANGED <<row, tombs, gone, holds, unit>> /\ Keep

Allocate(c, e) ==
    /\ broker = "up"
    /\ unit[c] = None /\ e \in Live /\ row[e].life = "active"
    /\ unit' = [unit EXCEPT ![c] = e]
    /\ UNCHANGED <<row, tombs, gone, holds, keepers>> /\ Keep

Free(c) ==
    /\ broker = "up" /\ unit[c] # None
    /\ unit' = [unit EXCEPT ![c] = None]
    /\ UNCHANGED <<row, tombs, gone, holds, keepers>> /\ Keep

-----------------------------------------------------------------------------
(* The end of the broker and its next start *)

Stop ==
    /\ broker = "up"
    /\ broker' = "down"
    /\ UNCHANGED <<inventory, row, tombs, gone, holds, keepers, unit>>

\* The inventory is merged only while a row has no owner or there is none.
Syncs == Live = {} \/ \E e \in Live : ~row[e].owned

\* Defect: tombstones are not read.
SeedsAll == {e \in Endpoint : inventory[e] # None}

Seeds == {e \in Endpoint : inventory[e] # None /\ e \notin tombs}

\* What makes the merge raise, and the transaction roll back.
Clashes(e) ==
    LET i == inventory[e]
    IN  \/ row[e] = None /\ TakenBy(i.addr) # {}
        \/ row[e] # None /\ row[e].addr # i.addr
        \/ row[e] # None /\ e \in keepers /\ Protected(row[e]) # Protected(i)
        \/ row[e] # None /\ row[e].policy = "idle" /\ ~i.adapter

Merged(r, i) ==
    [r EXCEPT !.conn = i.conn, !.adapter = i.adapter, !.owned = @ \/ i.owned,
              !.policy = IF i.policy = "unnamed" THEN @ ELSE i.policy]

\* initialize
Boot ==
    /\ broker # "up"
    /\ IF Syncs /\ \E e \in Seeds : Clashes(e)
       THEN broker' = "failed" /\ UNCHANGED row
       ELSE /\ broker' = "up"
            /\ row' = [e \in Endpoint |->
                         IF ~Syncs \/ e \notin Seeds THEN row[e]
                         ELSE IF row[e] = None THEN Inserted(inventory[e])
                         ELSE Merged(row[e], inventory[e])]
    /\ UNCHANGED <<inventory, tombs, gone, holds, keepers, unit>>

Policies == {"idle", "disabled"}

Next ==
    \/ \E e \in Endpoint :
          \/ \E i \in Input :
                \/ Create(e, i)
                \/ \E life \in {None, "active", "draining"} : Upsert(e, i, life)
          \/ \E c \in Conn, ad, o \in BOOLEAN : Update(e, c, ad, o)
          \/ Pause(e) \/ Resume(e) \/ Delete(e)
          \/ \E p \in Policies : SetKeepalive(e, p)
          \/ StartKeeper(e) \/ StopKeeper(e)
    \/ \E l \in Lease :
          \/ \E S \in SUBSET Endpoint : Acquire(l, S) \/ Move(l, S)
          \/ Release(l)
    \/ \E c \in HostClaim : Free(c) \/ \E e \in Endpoint : Allocate(c, e)
    \/ Stop \/ Boot

Spec == Init /\ [][Next]_vars

-----------------------------------------------------------------------------
(* Properties *)

\* Deletion fails closed: whatever was deleted, paused, imported or restarted, a
\* lease, a keepalive worker and a claim stand on servers that are there
\* (delete_endpoint, _endpoint_has_active_leases, ..._allocations).
UsersHaveServers ==
    /\ \A l \in Lease : holds[l] \subseteq Live
    /\ keepers \subseteq Live
    /\ \A c \in HostClaim : unit[c] \in Live \cup {None}

\* A deleted server comes back only when someone adds it, never with a restart.
DeletedStayDeleted == gone \cap Live = {}

\* Where keepalive is wished for there is an adapter to keep it with, whichever
\* of the five writers of the two columns ran last.
PolicyHasAdapter == \A e \in Live : row[e].policy = "idle" => row[e].adapter

\* While a worker runs, how its server is reached and verified does not change,
\* by no edit, import or restart.
WorkersStayReachable ==
    [][\A e \in keepers \cap keepers' :
          e \in Live /\ row'[e] # None /\ row'[e].addr = row[e].addr
          /\ Protected(row'[e]) = Protected(row[e])]_vars

\* The runtime keepalive policy survives a restart with the same inventory: the
\* restart of a broker that ran comes up.
RestartsSucceed == broker # "failed"
=============================================================================
