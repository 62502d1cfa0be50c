------------------------------- MODULE MCPortal -------------------------------
(* The real decks of the five providers, and browsers that list up to two  *)
(* languages: with a catalog, with one for the primary subtag only, in     *)
(* another case, and without any.                                          *)
EXTENDS Portal, TLC

AllProviders == DOMAIN FlowsOf
SlideCounts == [p \in AllProviders |-> [f \in DOMAIN FlowsOf[p] |-> Len(FlowsOf[p][f].slides)]]

AllTags == {"es-419", "PT-br", "en-GB", "fr"}
Primary == "es-419" :> "es" @@ "PT-br" :> "pt" @@ "en-GB" :> "en" @@ "fr" :> "fr"
UpToTwo == UNION {[1 .. n -> AllTags] : n \in 0 .. 2}
=============================================================================
