--------------------------- MODULE PortSwitchProofs ---------------------------
(* The protocol of the Keeper switch is safe. *)
EXTENDS PortSwitch, TLAPS

\* Every Keeper configuration that may be running serves every port that may
\* be in use, whatever the order of changes and rollouts: a change is allowed
\* against all that may be running, and a rollout only removes from that.
THEOREM PortSwitchServes == Spec => [](TypeOK /\ Served)
  <1>1. Init => TypeOK /\ Served
    <2>1. Closed \in Configs
      BY DEF Closed, Configs
    <2>2. CASE keepers = {Closed} /\ ports = {}
      BY <2>1, <2>2 DEF TypeOK, Served
    <2>3. ASSUME NEW k \in Configs, NEW p \in ClientPorts,
                 Serves(k, p), keepers = {k}, ports = {p}
          PROVE  TypeOK /\ Served
      BY <2>3 DEF TypeOK, Served
    <2> QED BY <2>2, <2>3 DEF Init
  <1>2. TypeOK /\ Served /\ [Next]_<<keepers, ports>> => (TypeOK /\ Served)'
    <2> SUFFICES ASSUME TypeOK, Served, [Next]_<<keepers, ports>>
                 PROVE  (TypeOK /\ Served)'
      OBVIOUS
    <2> USE DEF TypeOK, Served
    <2>1. ASSUME NEW k \in Configs, ChangeKeeper(k)
          PROVE  (TypeOK /\ Served)'
      BY <2>1 DEF ChangeKeeper
    <2>2. ASSUME NEW p \in ClientPorts, ChangePort(p)
          PROVE  (TypeOK /\ Served)'
      BY <2>2 DEF ChangePort
    <2>3. CASE RollKeeper
      BY <2>3 DEF RollKeeper
    <2>4. CASE RollClickHouse
      BY <2>4 DEF RollClickHouse
    <2>5. CASE UNCHANGED <<keepers, ports>>
      BY <2>5
    <2> QED BY <2>1, <2>2, <2>3, <2>4, <2>5 DEF Next
  <1> QED BY <1>1, <1>2, PTL DEF Spec
=============================================================================
