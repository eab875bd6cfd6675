--------------------------- MODULE MCProviderSync ---------------------------
(* Small instances of ProviderSync for TLC. *)
EXTENDS ProviderSync, TLC

CONSTANTS k1, k2, c1, c2

MCKeeperPods == {k1, k2}
MCCHPods == {c1, c2}
OneKeeperPod == {k1}
OneCHPod == {c1}

\* ClickHouse pods are told apart by nothing the model does.
SymmetricPods == Permutations(CHPods)

\* The second release changes what both CRs render.
OneLayout == <<[chk |-> 1, chi |-> 1]>>
TwoLayouts == <<[chk |-> 1, chi |-> 1], [chk |-> 2, chi |-> 2]>>

\* The second engine setting grows the volumes and opens the plaintext ports,
\* the third and the fourth only upgrade, the fifth would be a downgrade from
\* all but the first.  The second Keeper setting grows the volumes.
MCEngines ==
  <<[image |-> <<25, 3, 5, 42>>, size |-> 1, class |-> "std", mode |-> "required"],
    [image |-> <<25, 8, 2, 29>>, size |-> 2, class |-> "std", mode |-> "optional"],
    [image |-> <<25, 8, 11, 6>>, size |-> 2, class |-> "std", mode |-> "required"],
    [image |-> <<26, 1, 1, 7>>, size |-> 2, class |-> "std", mode |-> "required"],
    [image |-> <<25, 3, 9, 1>>, size |-> 2, class |-> "std", mode |-> "optional"]>>
MCKeepers ==
  <<[image |-> <<25, 8>>, size |-> 1, class |-> "std"],
    [image |-> <<25, 8>>, size |-> 2, class |-> "std"]>>
MCSettings == [chi |-> [e \in Engines |-> MCEngines[e]],
               chk |-> [k \in Keepers |-> MCKeepers[k]]]

Plain == [topology |-> "replicated", tls |-> FALSE,
          engine |-> 1, keeper |-> 1]
WithTLS == [Plain EXCEPT !.tls = TRUE]
Standalone == [Plain EXCEPT !.topology = "standalone"]
StandaloneTLS == [Standalone EXCEPT !.tls = TRUE]
AnyTopology == {Plain, WithTLS, Standalone, StandaloneTLS}

\* Edits that never return to an earlier rendering: every one changes the
\* engine (or, for TLS, only one way), so no task ID is used twice.
Forward(tlsAfter) ==
  {e \in Inputs \X Inputs :
     /\ e[1] # e[2]
     /\ e[1].engine <= e[2].engine /\ e[1].keeper <= e[2].keeper
     /\ e[1].tls # e[2].tls => e[2].tls = tlsAfter
     /\ e[1].topology = "replicated" => e[2].topology = "replicated"}
TowardsTLS == Forward(TRUE)
AwayFromTLS == Forward(FALSE)

\* Both ways at once: a cluster whose Keeper setting is the first turns TLS
\* on, one whose Keeper setting is the second turns it off; the engine is
\* changed afterwards, so the switch is under way as often as not.
TurnsOff == [WithTLS EXCEPT !.keeper = 2]
BothWays == {<<Plain, WithTLS>>, <<TurnsOff, [TurnsOff EXCEPT !.tls = FALSE]>>}
              \cup {e \in TowardsTLS : /\ e[1].tls = (e[1].keeper = 1)
                                       /\ e[2] = [e[1] EXCEPT !.engine = 2]}

\* Clusters of this provider, and one an earlier provider left behind.
SwitchStarts == {<<"steady", Plain>>, <<"latest", TurnsOff>>,
                 <<"recorded", WithTLS>>}

NoTLSStarts == {"new", "steady"} \X {Plain, Standalone}
NoTLSEdits == {e \in TowardsTLS : ~e[2].tls}

TakeOverStarts == {"steady", "recorded", "unrecorded"} \X {Plain, WithTLS}
AllTLSEdits == TowardsTLS \cup AwayFromTLS

\* Edits in every direction, none of which restores an earlier Instance.  The
\* Keeper setting goes along: with the fourth engine setting it would shrink.
AllStarts == {"new", "steady"} \X AnyTopology
FreshEdits ==
  {e \in Inputs \X Inputs : /\ e[1].engine < e[2].engine
                            /\ e[2].keeper = <<1, 2, 2, 1, 2>>[e[2].engine]}

\* Turning TLS on and off again, nothing else.
ToggleTLS == {<<Plain, WithTLS>>, <<WithTLS, Plain>>}
SteadyPlain == {<<"steady", Plain>>}
SteadyTLS == {<<"steady", WithTLS>>}
NewTLS == {<<"new", WithTLS>>}
NoEdits == {}

\* TLS both ways and anything newer, but not back to standalone.
KeptTopology ==
  {e \in Inputs \X Inputs :
     /\ e[1] # e[2]
     /\ e[1].engine <= e[2].engine /\ e[1].keeper <= e[2].keeper
     /\ Replicated(e[1]) => Replicated(e[2])}
=============================================================================
