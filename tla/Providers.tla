------------------------------ MODULE Providers ------------------------------
(***************************************************************************)
(* The five providers of the inspector (ui-cp/src/engine/providers.tsx),   *)
(* as far as they decide what is shown: the stages of a retrieval, the     *)
(* stage at which a scenario is to fail (-1 when it is to succeed), the    *)
(* nodes of the topology, and the stages the trace gives to the line that  *)
(* tells of success and to the one that tells of a denial.  The same facts *)
(* are written down again and again, by hand, for each provider and view.  *)
(***************************************************************************)
EXTENDS Integers

ProviderIds == {"cp", "ccp", "swa", "conjur-jwt", "conjur-iam"}

cpProvider ==
  [stages |-> 5,
   scenarios |-> {<<"authorized", -1>>, <<"invalid-hash", 1>>, <<"denied", 3>>, <<"dual", -1>>}]

ccpProvider ==
  [stages |-> 4,
   scenarios |-> {<<"authorized", -1>>, <<"no-cert", 1>>, <<"denied", 2>>, <<"dual", -1>>}]

swaProvider ==
  [stages |-> 6,
   scenarios |-> {<<"trusted", -1>>, <<"untrusted", 4>>, <<"unknown", 2>>, <<"foreign", 3>>}]

readStage(jwt) == IF jwt THEN 4 ELSE 5
authnFail(jwt) == IF jwt THEN 2 ELSE 3

makeConjur(jwt) ==
  [stages |-> readStage(jwt) + 1,
   scenarios |-> {<<"authorized", -1>>, <<"invalid", authnFail(jwt)>>, <<"denied", readStage(jwt)>>}]

Provider(p) ==
  CASE p = "cp" -> cpProvider
    [] p = "ccp" -> ccpProvider
    [] p = "swa" -> swaProvider
    [] p = "conjur-jwt" -> makeConjur(TRUE)
    [] p = "conjur-iam" -> makeConjur(FALSE)

Scenario(p, s) == [provider |-> p, key |-> s[1], failStage |-> s[2]]
Catalogue == UNION {{Scenario(p, s) : s \in Provider(p).scenarios} : p \in ProviderIds}

-----------------------------------------------------------------------------
(* The nodes of the topology: done once doneAfter stages are, failed when  *)
(* the scenario's stage is among failsAt.                                  *)
Node(stages, doneAfter, failsAt) == [stages |-> stages, doneAfter |-> doneAfter, failsAt |-> failsAt]

cpNodes == {Node({0}, 1, {0}), Node({1, 2}, 3, {1, 2}), Node({3}, 4, {3}), Node({4}, 5, {})}

ccpNodes == {Node({0}, 1, {}), Node({1}, 2, {1}), Node({2}, 3, {2}), Node({3}, 4, {})}

swaNodes ==
  {Node({0}, 1, {}), Node({1}, 2, {}), Node({2}, 3, {2}), Node({3, 4}, 5, {3, 4}), Node({5}, 6, {})}

jwtNodes == {Node({0}, 1, {}), Node({1, 2}, 3, {1, 2}), Node({3}, 4, {}), Node({4}, 5, {4})}

iamNodes ==
  {Node({0}, 1, {}), Node({1}, 2, {}), Node({2, 3}, 4, {2, 3}), Node({4}, 5, {}), Node({5}, 6, {5})}

Nodes(p) ==
  CASE p = "cp" -> cpNodes
    [] p = "ccp" -> ccpNodes
    [] p = "swa" -> swaNodes
    [] p = "conjur-jwt" -> jwtNodes
    [] p = "conjur-iam" -> iamNodes

(* The layers, one to a stage.                                             *)
cpLayers == 5
ccpLayers == 4
swaLayers == 6
conjurLayers(jwt) == IF jwt THEN 5 ELSE 6

LayerCount(p) ==
  CASE p = "cp" -> cpLayers [] p = "ccp" -> ccpLayers [] p = "swa" -> swaLayers [] OTHER -> conjurLayers(p = "conjur-jwt")

-----------------------------------------------------------------------------
(* The trace gives the lines of an outcome to a stage: those of success to *)
(* the last, those of a denial to the one that denies in the scenario.     *)
successStage(p) == CASE p = "cp" -> 4 [] p = "ccp" -> 3 [] p = "swa" -> 5 [] OTHER -> readStage(p = "conjur-jwt")

cpDenyStage(s) == IF s = "denied" THEN 3 ELSE 1
ccpDenyStage(s) == IF s = "no-cert" THEN 1 ELSE 2
swaDenyStage(s) == CASE s = "unknown" -> 2 [] s = "foreign" -> 3 [] OTHER -> 4

(* slip: a failed authentication is told where a refused read is           *)
conjurDenyAtRead(jwt, s) == readStage(jwt)

conjurDenyStage(jwt, s) == IF s = "invalid" THEN authnFail(jwt) ELSE readStage(jwt)

denyStage(p, s) ==
  CASE p = "cp" -> cpDenyStage(s)
    [] p = "ccp" -> ccpDenyStage(s)
    [] p = "swa" -> swaDenyStage(s)
    [] OTHER -> conjurDenyStage(p = "conjur-jwt", s)
=============================================================================
