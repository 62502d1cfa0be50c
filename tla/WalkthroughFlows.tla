--------------------------- MODULE WalkthroughFlows ---------------------------
(***************************************************************************)
(* The decks of "Learn how it works" (walkthroughData.ts): for each        *)
(* provider one or more flows, each a diagram of cards, of rings around    *)
(* cards and of connectors, and a sequence of slides that light parts of   *)
(* it.  Text and geometry are left out, but for what they say: which cards *)
(* lie in which ring, what a connector joins, what the account cards and   *)
(* the provider card of the dual deck tell, what a line of policy.yml      *)
(* declares.                                                               *)
(***************************************************************************)
EXTENDS Integers, Sequences

Nothing == "nothing"

(* A slide: the nodes lit, the connectors drawn, the nodes with a chip,    *)
(* and what only one kind of deck has (tells).                             *)
Slide(focus, links, chips) ==
  [focus |-> focus, links |-> links, chips |-> chips, tells |-> Nothing]
Told(slide, tells) == [slide EXCEPT !.tells = tells]

(* A deck: rings with what they hold, cards, connectors with their ends,   *)
(* whether the flow has a chip to show.                                    *)
Deck(kind, rings, cards, rails, chip, slides) ==
  [kind |-> kind, rings |-> rings, cards |-> cards, rails |-> rails, chip |-> chip, slides |-> slides]

(* What is put on display of a slide: of connectors and chips those whose  *)
(* id or node is found, and without a chip of the flow none at all; of     *)
(* policy.yml the lines up to reveal in full, the others dimmed.           *)
Named(deck) == DOMAIN deck.rings \cup deck.cards
Drawn(deck, slide) == slide.links \cap DOMAIN deck.rails
ChipNodes(deck, slide) == IF deck.chip THEN slide.chips \cap Named(deck) ELSE {}
Bright(slide) == 1 .. slide.tells.reveal

-----------------------------------------------------------------------------
smRings == [manager |-> {"validator", "policy", "vault"}, privcloud |-> {"privvault"}]
smCards == {"idp", "workload", "validator", "policy", "vault", "privvault"}
smRails == [idp_to_workload |-> {"idp", "workload"}, workload_to_manager |-> {"workload", "manager"},
            manager_to_idp |-> {"manager", "idp"}, manager_to_workload |-> {"manager", "workload"},
            policy_to_vault |-> {"policy", "vault"}, vault_to_workload |-> {"vault", "workload"},
            privvault_to_vault |-> {"privvault", "vault"}]

smAll == DOMAIN smRings \cup smCards
smSecret == Slide({"workload", "policy", "vault", "privcloud", "privvault"},
                  {"privvault_to_vault", "policy_to_vault", "vault_to_workload"}, {"workload"})

jwtFlow == Deck("diagram", smRings, smCards, smRails, TRUE,
  << Slide(smAll, {}, {}),
     Slide({"workload", "idp"}, {}, {}),
     Slide({"idp", "workload"}, {"idp_to_workload"}, {"workload"}),
     Slide({"workload", "manager"}, {"workload_to_manager"}, {"workload"}),
     Slide({"manager", "validator", "idp"}, {"manager_to_idp"}, {"workload"}),
     Slide({"manager", "policy"}, {}, {"workload"}),
     Slide({"manager", "workload"}, {"manager_to_workload"}, {"workload"}),
     smSecret >>)

iamFlow == Deck("diagram", smRings, smCards, smRails, TRUE,
  << Slide(smAll, {}, {}),
     Slide({"idp", "workload"}, {"idp_to_workload"}, {"workload"}),
     Slide({"workload"}, {}, {"workload"}),
     Slide({"workload", "manager"}, {"workload_to_manager"}, {"workload"}),
     Slide({"manager", "validator", "idp"}, {"manager_to_idp"}, {}),
     Slide({"manager", "policy"}, {}, {}),
     Slide({"manager", "workload"}, {"manager_to_workload"}, {"workload"}),
     smSecret >>)

-----------------------------------------------------------------------------
ccpRings == [ccp |-> {"cache"}, privcloud |-> {"safe", "cpm"}]
ccpCards == {"app", "cache", "safe", "cpm", "target"}
ccpRails == [app_to_ccp |-> {"app", "ccp"}, ccp_to_app |-> {"ccp", "app"},
             ccp_to_pc |-> {"ccp", "privcloud"}, pc_to_ccp |-> {"privcloud", "ccp"},
             app_to_target |-> {"app", "target"}, cpm_to_target |-> {"cpm", "target"}]

ccpRetrieval == Deck("diagram", ccpRings, ccpCards, ccpRails, TRUE,
  << Slide(DOMAIN ccpRings \cup ccpCards, {}, {}),
     Slide({"app", "ccp", "cache"}, {"app_to_ccp"}, {"app"}),
     Slide({"ccp", "cache"}, {}, {"app"}),
     Slide({"ccp", "app"}, {"ccp_to_app"}, {}),
     Slide({"app", "target"}, {"app_to_target"}, {}) >>)

ccpRotation == Deck("diagram", ccpRings, ccpCards, ccpRails, FALSE,
  << Slide({"privcloud", "safe", "cpm", "ccp", "cache", "target"}, {}, {}),
     Slide({"privcloud", "cpm", "target"}, {"cpm_to_target"}, {}),
     Slide({"privcloud", "ccp", "cache"}, {"pc_to_ccp"}, {}),
     Slide({"ccp", "cache"}, {}, {}) >>)

cpRings == [apphost |-> {"app", "cp", "cache"}, cp |-> {"cache"}, privcloud |-> {"safe", "cpm"}]
cpCards == {"app", "cache", "safe", "cpm", "target"}
cpRails == [app_to_cp |-> {"app", "cp"}, cp_to_app |-> {"cp", "app"},
            cp_to_pc |-> {"cp", "privcloud"}, pc_to_cp |-> {"privcloud", "cp"},
            app_to_target |-> {"app", "target"}, cpm_to_target |-> {"cpm", "target"}]

cpRetrieval == Deck("diagram", cpRings, cpCards, cpRails, TRUE,
  << Slide(DOMAIN cpRings \cup cpCards, {}, {}),
     Slide({"app", "cp"}, {"app_to_cp"}, {"app"}),
     Slide({"app", "cp", "cache"}, {}, {"app"}),
     Slide({"cp", "cache"}, {}, {}),
     Slide({"cp", "app"}, {"cp_to_app"}, {}),
     Slide({"app", "target"}, {"app_to_target"}, {}) >>)

cpRotation == Deck("diagram", cpRings, cpCards, cpRails, FALSE,
  << Slide({"privcloud", "safe", "cpm", "apphost", "cp", "cache", "target"}, {}, {}),
     Slide({"privcloud", "cpm", "target"}, {"cpm_to_target"}, {}),
     Slide({"privcloud", "cp", "cache"}, {"pc_to_cp"}, {}),
     Slide({"cp", "cache"}, {}, {}) >>)

-----------------------------------------------------------------------------
(* What the cards of a dual-account slide tell: the account that is ACTIVE *)
(* (the other is INACTIVE), the one whose password is being reset, and the *)
(* one that the provider serves.                                           *)
Accounts == {"acctA", "acctB"}
Tells(act, reset, serves) == [active |-> act, reset |-> reset, serves |-> serves]
A_SERVED == Tells("acctA", Nothing, "acctA")
A_STALE == Tells("acctB", Nothing, "acctA")
B_SERVED == Tells("acctB", Nothing, "acctB")
A_RESET == Tells("acctB", "acctA", "acctB")

dualRails == [app_to_cp |-> {"app", "cp"}, cp_to_app |-> {"cp", "app"},
              cp_to_acctA |-> {"cp", "acctA"}, cp_to_acctB |-> {"cp", "acctB"},
              cpm_to_acctA |-> {"cpm", "acctA"}, cpm_to_target |-> {"cpm", "target"}]
dualServed(rail) == {"app_to_cp", "cp_to_app", rail}

(* slip: the password is reset on the slide before the provider has        *)
(* refreshed its cache                                                     *)
DualTellsEarly == <<A_SERVED, A_SERVED, A_SERVED, A_STALE, A_RESET, B_SERVED, A_STALE, B_SERVED>>

DualTells == <<A_SERVED, A_SERVED, A_SERVED, A_STALE, B_SERVED, B_SERVED, A_RESET, B_SERVED>>

makeDual == Deck("dual", [vault |-> Accounts], {"app", "cp", "cpm", "target"} \cup Accounts, dualRails, FALSE,
  LET focus == << {"vault", "acctA", "cp", "target"}, {"app", "cp", "acctA"}, {"cpm", "vault", "acctA"},
                  {"cpm", "vault", "acctB"}, {"cp", "acctB", "vault"}, {"app", "cp", "acctB"},
                  {"cpm", "target", "acctA"}, {"vault", "acctB", "cp", "app", "target"} >>
      links == << {"cp_to_acctA"}, dualServed("cp_to_acctA"), {"cpm_to_acctA"}, {"cpm_to_acctA"},
                  {"cp_to_acctB"}, dualServed("cp_to_acctB"), {"cpm_to_acctA", "cpm_to_target"}, dualServed("cp_to_acctB") >>
  IN [k \in 1 .. 8 |-> Told(Slide(focus[k], links[k], {}), DualTells[k])])

-----------------------------------------------------------------------------
swaRings == [node |-> {"agent", "workload"}, swa |-> {"issuer", "registrar", "attestor"}]
swaCards == {"agent", "workload", "target", "issuer", "registrar", "attestor"}
swaRails == [wl_to_agent |-> {"workload", "agent"}, agent_to_attestor |-> {"agent", "attestor"},
             issuer_to_wl |-> {"issuer", "workload"}, wl_to_target |-> {"workload", "target"}]

swaFlow == Deck("diagram", swaRings, swaCards, swaRails, TRUE,
  << Slide(DOMAIN swaRings \cup swaCards, {}, {}),
     Slide({"node", "workload", "agent"}, {"wl_to_agent"}, {}),
     Slide({"node", "agent", "swa", "attestor"}, {"agent_to_attestor"}, {}),
     Slide({"swa", "registrar"}, {}, {}),
     Slide({"swa", "issuer", "workload"}, {"issuer_to_wl"}, {"workload"}),
     Slide({"workload", "target"}, {"wl_to_target"}, {"workload"}),
     Slide({"target"}, {}, {"workload"}),
     Slide({"workload", "target"}, {"wl_to_target"}, {"workload"}) >>)

-----------------------------------------------------------------------------
(* policy.yml: the lines that declare each node or edge of the tree.       *)
POLICY_YAML ==
  [prod |-> 1 .. 4, app1 |-> 5 .. 7, variable |-> {8}, host |-> {9}, group |-> {10},
   permit |-> 11 .. 14, grant |-> 15 .. 17]

POLICY_TREE == {"root", "prod", "app1", "variable", "group", "host"}
POLICY_LINKS ==
  [root_prod |-> {"root", "prod"}, prod_app1 |-> {"prod", "app1"},
   app1_variable |-> {"app1", "variable"}, app1_group |-> {"app1", "group"}, app1_host |-> {"app1", "host"},
   permit |-> {"group", "variable"}, grant |-> {"host", "group"}]

(* The lines a slide brightens (1 .. reveal) and the ones it emphasizes.   *)
Reads(reveal, highlight) == [reveal |-> reveal, highlight |-> highlight]
leafLinks == {"app1_variable", "app1_group", "app1_host"}

policyReads == << Reads(0, {}), Reads(4, 1 .. 4), Reads(7, 5 .. 7), Reads(8, {8}),
  Reads(10, 9 .. 10), Reads(14, 11 .. 14), Reads(17, 15 .. 17), Reads(17, {}) >>

policyFlow == Deck("policy", <<>>, POLICY_TREE, POLICY_LINKS, FALSE,
  LET focus == << {"root"}, {"root", "prod"}, {"root", "prod", "app1"}, {"app1", "variable"},
                  {"app1", "variable", "group", "host"}, {"variable", "group"},
                  {"variable", "group", "host"}, POLICY_TREE >>
      links == << {}, {"root_prod"}, {"prod_app1"}, {"app1_variable"}, leafLinks, {"permit"},
                  {"permit", "grant"}, DOMAIN POLICY_LINKS >>
  IN [k \in 1 .. 8 |-> Told(Slide(focus[k], links[k], {}), policyReads[k])])

-----------------------------------------------------------------------------
FlowsOf == [p \in {"conjur-jwt", "conjur-iam", "ccp", "cp", "swa"} |->
  CASE p = "conjur-jwt" -> <<jwtFlow, policyFlow>>
    [] p = "conjur-iam" -> <<iamFlow, policyFlow>>
    [] p = "ccp" -> <<ccpRetrieval, ccpRotation, makeDual>>
    [] p = "cp" -> <<cpRetrieval, cpRotation, makeDual>>
    [] p = "swa" -> <<swaFlow>>]

=============================================================================
