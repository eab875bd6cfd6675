---------------------------- MODULE KeeperWiring ----------------------------
(***************************************************************************)
(* How ClickHouse and Keeper talk, and the next step of a switch between   *)
(* plaintext and TLS (internal/provider/keeper_tls.go).  Pure operators:   *)
(* ProviderSync feeds them with what the operator has rolled out.          *)
(***************************************************************************)
EXTENDS Integers

\* common.KeeperPort, common.KeeperSecurePort, and the two values a CHI's
\* port can have besides: 0 leaves it to the operator's Keeper reference,
\* which resolves to the plaintext port; -1 means no Keeper at all.
KeeperPort == 2181
KeeperSecurePort == 2281
KeeperReference == 0
NoKeeper == -1

Ports == {NoKeeper, KeeperReference, KeeperPort, KeeperSecurePort}

\* type keeperWiring
Wirings == [secure: BOOLEAN, plaintext: BOOLEAN,
            port: Ports \ {NoKeeper}]

\* type keeperState
KeeperStates == [chkExists: BOOLEAN, chkRolledOut: BOOLEAN,
                 chkSecure: BOOLEAN, chkPlaintext: BOOLEAN,
                 chiExists: BOOLEAN, chiRolledOut: BOOLEAN, chiPort: Ports]

\* Does a Keeper opening these client ports answer a ClickHouse using port?
Serves(keeper, port) ==
  /\ port = KeeperSecurePort => keeper.secure
  /\ port \in {KeeperReference, KeeperPort} => keeper.plaintext

(***************************************************************************)
(* nextKeeperWiring: the wiring TLS calls for and the one to apply now.    *)
(***************************************************************************)
\* Once wired explicitly, ClickHouse stays so.
TargetWiring(tls, s) ==
  [secure |-> tls,
   plaintext |-> ~tls,
   port |-> IF tls THEN KeeperSecurePort
            ELSE IF s.chiPort > 0 \/ s.chkSecure THEN KeeperPort
            ELSE KeeperReference]

\* Mutant of MovesPort: ClickHouse never moves back to plaintext.
MovesPortOneWay(tls, s) ==
  s.chiPort < 0 \/ ~s.chiExists \/ (s.chkRolledOut /\ tls /\ s.chkSecure)

\* ClickHouse keeps its port until Keeper serves the target one.
MovesPort(tls, s) ==
  \/ s.chiPort < 0
  \/ ~s.chiExists
  \/ s.chkRolledOut /\ (IF tls THEN s.chkSecure ELSE s.chkPlaintext)

StepPort(tls, s) ==
  IF MovesPort(tls, s) THEN TargetWiring(tls, s).port ELSE s.chiPort

\* ClickHouse runs what the CHI says, and this step leaves its port alone.
IsSettled(tls, s) == s.chiRolledOut /\ StepPort(tls, s) = s.chiPort

\* ClickHouse still uses (or may still use) a port: Keeper keeps it.
UsesSecure(tls, s) ==
  \/ s.chiPort = KeeperSecurePort
  \/ ~IsSettled(tls, s) /\ s.chkSecure /\ s.chiExists

\* Mutant of UsesPlaintext: the CHI's port taken for the one in use.
UsesPlaintextSpecOnly(tls, s) ==
  s.chiExists /\ s.chiPort >= 0 /\ s.chiPort # KeeperSecurePort

UsesPlaintext(tls, s) ==
  /\ s.chiExists
  /\ s.chiPort >= 0
  /\ s.chiPort # KeeperSecurePort \/ ~IsSettled(tls, s)

StepWiring(tls, s) ==
  [secure |-> tls \/ UsesSecure(tls, s),
   plaintext |-> ~tls \/ UsesPlaintext(tls, s),
   port |-> StepPort(tls, s)]
=============================================================================
