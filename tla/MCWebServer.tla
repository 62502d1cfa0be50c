----------------------------- MODULE MCWebServer -----------------------------
(* The deployments of k8s/ and docs/: the cluster, with and without the    *)
(* vaults and the probes, a laptop, and a demonstration with an agent.     *)
EXTENDS WebServer, TLC

Vaults == {"CONJUR", "CONJUR_IAM", "CCP"}
Probes == {"PROBE_URL", "UNTRUSTED_SVID_URL", "UNKNOWN_SVID_URL"}
Deploy(webapp) ==
  ("webapp" :> webapp)
  @@ ("untrusted-app" :> {"SOCKET", "EXPOSE_PROBE_ENDPOINTS"})
  @@ ("rogue-app" :> {"SOCKET", "ROGUE_MODE", "EXPOSE_PROBE_ENDPOINTS"})
Alone(webapp) == "webapp" :> webapp

Cluster == Deploy({"SOCKET", "FOREIGN_CARRIER_ADDR"} \cup Probes)
Clusters == {Cluster, Deploy({"SOCKET", "FOREIGN_CARRIER_ADDR"} \cup Probes \cup Vaults)}
Laptops == {Alone({}), Alone(Vaults), Alone({"SOCKET"}),
            Alone({"SOCKET", "DEMO_MODE", "FOREIGN_CARRIER_ADDR"} \cup Vaults),
            Alone({"SOCKET", "CONJUR"})}
AllDeployments == Clusters \cup Laptops
OnlyCluster == {Cluster}
Policies == {"webapp", "untrusted-app"}
Gateway == {"webapp"}
=============================================================================
