----------------------------- MODULE PortSwitch -----------------------------
(***************************************************************************)
(* What the Keeper switch promises, without the provider's reconciles, the *)
(* gate or the operator's pods: a configuration handed to the operator may *)
(* from then on be running anywhere, next to every one that may be running *)
(* already, until a rollout leaves fewer of them.  Keeper is only given    *)
(* ports that include all those ClickHouse may be using, and ClickHouse    *)
(* only a port that every possible Keeper configuration serves.            *)
(***************************************************************************)
EXTENDS KeeperWiring

VARIABLES
  keepers,   \* the port configurations Keeper pods may be running
  ports      \* the Keeper ports ClickHouse pods may be using

Configs == [secure: BOOLEAN, plaintext: BOOLEAN]
ClientPorts == Ports \ {NoKeeper}

\* A Keeper node that is not there serves nobody.
Closed == [secure |-> FALSE, plaintext |-> FALSE]

TypeOK == keepers \in SUBSET Configs /\ ports \in SUBSET ClientPorts

\* No ClickHouse yet, or a cluster at rest.
Init ==
  \/ keepers = {Closed} /\ ports = {}
  \/ \E k \in Configs, p \in ClientPorts :
       Serves(k, p) /\ keepers = {k} /\ ports = {p}

ChangeKeeper(k) ==
  /\ \A p \in ports : Serves(k, p)
  /\ keepers' \in SUBSET (keepers \cup {k})
  /\ UNCHANGED ports

ChangePort(p) ==
  /\ \A k \in keepers : Serves(k, p)
  /\ ports' \in SUBSET (ports \cup {p})
  /\ UNCHANGED keepers

\* A rollout replaces what was running by what is handed out.
RollKeeper == keepers' \in SUBSET keepers /\ UNCHANGED ports
RollClickHouse == ports' \in SUBSET ports /\ UNCHANGED keepers

Next ==
  \/ \E k \in Configs : ChangeKeeper(k)
  \/ \E p \in ClientPorts : ChangePort(p)
  \/ RollKeeper
  \/ RollClickHouse

Spec == Init /\ [][Next]_<<keepers, ports>>

\* Whatever mix of configurations is running, every Keeper serves every
\* ClickHouse: "so ClickHouse never loses Keeper" (keeperWiring).
Served == \A k \in keepers, p \in ports : Serves(k, p)
=============================================================================
