--------------------------- MODULE MCResolveEngine ---------------------------
(* The portal's own five providers, and a small one of three stages with   *)
(* the three kinds of scenario: one that succeeds, one refused at the      *)
(* first stage, one at the last.                                           *)
EXTENDS Inspectors

AllStages == [p \in ProviderIds |-> Provider(p).stages]

ThreeStages == [p \in {"small"} |-> 3]
ThreeScenarios == {Scenario("small", s) : s \in {<<"valid", -1>>, <<"refused", 0>>, <<"denied", 2>>}}
AnyPace == {TRUE, FALSE}
PacedOnly == {TRUE}
=============================================================================
