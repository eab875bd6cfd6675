-------------------------- MODULE KeeperWiringProofs --------------------------
(* Facts about nextKeeperWiring, for every state it can be given. *)
EXTENDS KeeperWiring, TLAPS

\* Both wirings are wirings: in particular ClickHouse always gets a port.
LEMMA WiringTypes ==
  ASSUME NEW tls \in BOOLEAN, NEW s \in KeeperStates
  PROVE  /\ TargetWiring(tls, s) \in Wirings
         /\ StepWiring(tls, s) \in Wirings
  <1>1. s.chiPort \in Ports
    BY DEF KeeperStates
  <1>2. TargetWiring(tls, s) \in Wirings
    BY <1>1 DEF TargetWiring, Wirings, Ports, KeeperPort, KeeperSecurePort,
       KeeperReference, NoKeeper
  <1>3. StepPort(tls, s) \in Ports \ {NoKeeper}
    <2>1. CASE MovesPort(tls, s)
      BY <1>2, <2>1 DEF StepPort, Wirings
    <2>2. CASE ~MovesPort(tls, s)
      BY <1>1, <2>2 DEF StepPort, MovesPort, Ports, NoKeeper, KeeperPort,
         KeeperSecurePort, KeeperReference
    <2> QED BY <2>1, <2>2
  <1>4. UsesSecure(tls, s) \in BOOLEAN /\ UsesPlaintext(tls, s) \in BOOLEAN
    BY DEF UsesSecure, UsesPlaintext
  <1>5. StepWiring(tls, s) \in Wirings
    BY <1>3, <1>4 DEF StepWiring, Wirings
  <1> QED BY <1>2, <1>5

\* The fields of a step and of the target, as conditions.
LEMMA WiringFields ==
  ASSUME NEW tls \in BOOLEAN, NEW s \in KeeperStates
  PROVE  /\ StepWiring(tls, s).secure <=> tls \/ UsesSecure(tls, s)
         /\ StepWiring(tls, s).plaintext <=> ~tls \/ UsesPlaintext(tls, s)
         /\ StepWiring(tls, s).port = StepPort(tls, s)
         /\ TargetWiring(tls, s).port = KeeperSecurePort => tls
         /\ TargetWiring(tls, s).port \in {KeeperReference, KeeperPort} => ~tls
  <1>1. /\ StepWiring(tls, s).secure = (tls \/ UsesSecure(tls, s))
        /\ StepWiring(tls, s).plaintext = (~tls \/ UsesPlaintext(tls, s))
        /\ StepWiring(tls, s).port = StepPort(tls, s)
    BY Zenon DEF StepWiring
  <1>2. /\ TargetWiring(tls, s).port = KeeperSecurePort => tls
        /\ TargetWiring(tls, s).port \in {KeeperReference, KeeperPort} => ~tls
    BY DEF TargetWiring, KeeperPort, KeeperSecurePort, KeeperReference
  <1> QED BY <1>1, <1>2, Zenon

\* The Keeper a step asks for serves the port the CHI wires ClickHouse to now
\* and the one the same step wires it to.
THEOREM StepServesBothPorts ==
  ASSUME NEW tls \in BOOLEAN, NEW s \in KeeperStates, s.chiExists
  PROVE  /\ Serves(StepWiring(tls, s), s.chiPort)
         /\ Serves(StepWiring(tls, s), StepWiring(tls, s).port)
  <1> USE DEF KeeperPort, KeeperSecurePort, KeeperReference, NoKeeper, Ports
  <1>1. s.chiPort \in Ports
    BY DEF KeeperStates
  <1>2. Serves(StepWiring(tls, s), s.chiPort)
    BY <1>1, WiringFields DEF Serves, UsesSecure, UsesPlaintext
  <1>3. StepPort(tls, s) = s.chiPort \/ StepPort(tls, s) = TargetWiring(tls, s).port
    BY DEF StepPort
  <1>4. Serves(StepWiring(tls, s), TargetWiring(tls, s).port)
    BY WiringFields DEF Serves
  <1> QED BY <1>2, <1>3, <1>4, WiringFields

\* ClickHouse moves from one port to another only once the Keeper that is
\* rolled out serves the new one.
THEOREM MovesOntoServedPort ==
  ASSUME NEW tls \in BOOLEAN, NEW s \in KeeperStates,
         s.chiExists, s.chiPort # NoKeeper,
         StepWiring(tls, s).port # s.chiPort
  PROVE  /\ s.chkRolledOut
         /\ Serves([secure |-> s.chkSecure, plaintext |-> s.chkPlaintext],
                   StepWiring(tls, s).port)
  BY DEF KeeperStates, StepWiring, StepPort, MovesPort, TargetWiring, Serves,
     Ports, KeeperPort, KeeperSecurePort, KeeperReference, NoKeeper

\* The same step does not take from Keeper a port ClickHouse may be using:
\* while ClickHouse rolls, the Keeper rolled out keeps every port it serves.
THEOREM KeepsPortsWhileMoving ==
  ASSUME NEW tls \in BOOLEAN, NEW s \in KeeperStates,
         s.chiExists, s.chiPort # NoKeeper, ~IsSettled(tls, s)
  PROVE  /\ s.chkSecure => StepWiring(tls, s).secure
         /\ s.chkPlaintext => StepWiring(tls, s).plaintext
  <1>1. s.chiPort \in Ports
    BY DEF KeeperStates
  <1> QED BY <1>1, WiringFields DEF UsesSecure, UsesPlaintext, Ports, KeeperPort,
     KeeperSecurePort, KeeperReference, NoKeeper
=============================================================================
