-------------------------------- MODULE Portal --------------------------------
(***************************************************************************)
(* The shell of the single-page application (App.tsx) around the player of *)
(* the walkthrough: which view the inspector shows, whether the pane with  *)
(* the use cases is collapsed, and the language, which is settled once per *)
(* load of the page.  Other pages of the same browser share its cookie.    *)
(*                                                                         *)
(* The retrieval engine is another component (ResolveEngine): Retrieve     *)
(* here is what the shell does about its view when a run is started.       *)
(***************************************************************************)
EXTENDS Walkthrough, WalkthroughFlows, Locale

CONSTANTS
  LanguageLists    \* the lists of languages that a browser may be set to

ASSUME ListsAssumption == LanguageLists \subseteq Seq(Tags)

(* The player counts the slides of the flows that are registered.          *)
ASSUME FlowsAssumption ==
  /\ Providers \subseteq DOMAIN FlowsOf
  /\ \A p \in Providers :
       /\ Len(Decks[p]) = Len(FlowsOf[p])
       /\ \A f \in 1 .. Len(Decks[p]) : Decks[p][f] = Len(FlowsOf[p][f].slides)

VARIABLES
  view,        \* the view of the inspector
  collapsed,   \* the pane with the use cases is collapsed
  cookie,      \* the lang cookie of the browser
  languages,   \* the browser's list of languages
  active,      \* the language of the application since it was loaded
  elsewhere,   \* history: another page has set the cookie since
  chosen       \* history: the language last picked in the switcher, for as
               \* long as the page is not loaded but by that choice

shell == <<view, collapsed>>
locale == <<cookie, languages, active, elsewhere, chosen>>
vars == <<provider, player, shell, locale>>

Inspections == {"topology", "layers", "trace"}
Views == Inspections \cup {"walkthrough"}

Init ==
  /\ provider \in Providers /\ Closed
  /\ view = "topology" /\ collapsed = FALSE
  /\ cookie \in SUPPORTED \cup {NoCookie}
  /\ languages \in LanguageLists
  /\ active = DetectLocale(cookie, languages)
  /\ elsewhere = FALSE /\ chosen = NoCookie

-----------------------------------------------------------------------------
(* setView() with its effect: opening the walkthrough collapses the pane,  *)
(* any other change of view restores it, whatever the toggle said.         *)
Show(v) ==
  /\ view' = v
  /\ collapsed' = IF v = view THEN collapsed ELSE v = "walkthrough"
  /\ IF (v = "walkthrough") = open THEN UNCHANGED player ELSE SetOpen(v = "walkthrough")
  /\ UNCHANGED <<provider, locale>>

ShowInspection(v) == v \in Inspections /\ Show(v)
LearnMore == Show("walkthrough")

(* handleResolve(): a run is watched in the topology, not in the slides.   *)
Retrieve == Show(IF view = "walkthrough" THEN "topology" ELSE view)

ToggleCollapsed ==
  /\ collapsed' = ~collapsed
  /\ UNCHANGED <<provider, player, view, locale>>

(* A load of the page: everything but cookie and languages starts anew.    *)
Load(c) ==
  /\ cookie' = c /\ active' = DetectLocale(c, languages) /\ elsewhere' = FALSE
  /\ view' = "topology" /\ collapsed' = FALSE /\ SetOpen(FALSE)
  /\ UNCHANGED <<provider, languages>>

Reload == Load(cookie) /\ chosen' = NoCookie

(* choose() sets the cookie and reloads.                                   *)
Choose(loc) == loc \in SUPPORTED \ {active} /\ Load(AfterSet(cookie, loc)) /\ chosen' = loc

(* choose() of the language that is shown: the menu closes, no more.       *)
ChooseActive ==
  /\ chosen' = active
  /\ UNCHANGED <<provider, player, shell, cookie, languages, active, elsewhere>>

(* /lang of the server, from another page.                                 *)
SetElsewhere(loc) ==
  /\ cookie' = AfterSet(cookie, loc) /\ elsewhere' = (elsewhere \/ loc \in SUPPORTED)
  /\ UNCHANGED <<provider, player, shell, languages, active, chosen>>

Play == (Input \/ Goes) /\ UNCHANGED <<shell, locale>>

Next ==
  \/ Play \/ LearnMore \/ Retrieve \/ ToggleCollapsed \/ Reload \/ ChooseActive
  \/ \E v \in Inspections : ShowInspection(v)
  \/ \E loc \in SUPPORTED : Choose(loc)
  \/ \E loc \in SUPPORTED \cup {NoCookie} : SetElsewhere(loc)

Fairness ==
  /\ WF_vars(TimerFires /\ UNCHANGED <<shell, locale>>)
  /\ WF_vars(Render /\ UNCHANGED <<shell, locale>>)
  /\ WF_vars(Effects /\ UNCHANGED <<shell, locale>>)
Spec == Init /\ [][Next]_vars /\ Fairness

-----------------------------------------------------------------------------
(* The player keeps its invariant in any view and over any reload, and it  *)
(* is mounted exactly in the walkthrough view.                             *)
TypeOK ==
  /\ PlayerOK
  /\ view \in Views /\ collapsed \in BOOLEAN
  /\ open = (view = "walkthrough")
  /\ cookie \in SUPPORTED \cup {NoCookie} /\ active \in SUPPORTED
  /\ languages \in LanguageLists /\ elsewhere \in BOOLEAN
  /\ chosen \in SUPPORTED \cup {NoCookie}

-----------------------------------------------------------------------------
(* Each is said of slide k of a deck, which slide Previous(k) came before. *)
Previous(k) == IF k = 1 THEN 1 ELSE k - 1

Lit(deck, slide, n) ==
  \/ n \in slide.focus
  \/ \E r \in DOMAIN deck.rings \cap slide.focus : n \in deck.rings[r]

(* All that a slide names is put on display: the diagram drops what it     *)
(* cannot find.  A connector is drawn between nodes that are lit, or in a  *)
(* ring that is.                                                           *)
NamesExist(deck, slide) ==
  /\ slide.focus \subseteq Named(deck)
  /\ Drawn(deck, slide) = slide.links
  /\ ChipNodes(deck, slide) = slide.chips
EndsLit(deck, slide) == \A l \in slide.links : \A n \in deck.rails[l] : Lit(deck, slide, n)

(* One account is active.  The provider serves it, but for the slide on    *)
(* which the status flips; a password is reset only of an account that is  *)
(* neither active nor served, on this slide and on the one before.         *)
RotationSafe(deck, k) ==
  LET now == deck.slides[k].tells
      was == deck.slides[Previous(k)].tells
  IN /\ now.active \in Accounts
     /\ now.serves # now.active => was.active = now.serves
     /\ now.reset \notin {now.active, now.serves, was.active, was.serves}
     /\ \A l \in deck.slides[k].links \cap {"cp_to_acctA", "cp_to_acctB"} : now.serves \in deck.rails[l]

(* The tree shows nothing whose lines of policy.yml are still dimmed, and  *)
(* the lines that are emphasized are the ones that the slide adds.         *)
TreeFollowsYaml(deck, k) ==
  LET slide == deck.slides[k]
      was == IF k = 1 THEN 0 ELSE deck.slides[k - 1].tells.reveal
  IN /\ \A n \in (slide.focus \cup slide.links) \cap DOMAIN POLICY_YAML :
          POLICY_YAML[n] \subseteq Bright(slide)
     /\ slide.tells.highlight = was + 1 .. slide.tells.reveal

SoundAt(deck, k) ==
  /\ NamesExist(deck, deck.slides[k]) /\ EndsLit(deck, deck.slides[k])
  /\ deck.kind = "dual" => RotationSafe(deck, k)
  /\ deck.kind = "policy" => TreeFollowsYaml(deck, k)

(* Every slide that the player can come to is sound.                       *)
SlideSound == open => SoundAt(FlowsOf[provider][flow], i + 1)

(* A player that plays comes to its end, or is stopped: whatever is        *)
(* clicked while an update or its effects are on their way, it does not    *)
(* stay on "playing" at the last slide or without a timer.                 *)
PlayEnds == playing ~> ~playing

(* Application and server, by rules written twice, would settle on the     *)
(* same language at any time; the page that is open is in it but for what  *)
(* another page did to the cookie; and what was picked in the switcher is  *)
(* shown, and is in the cookie too but for such a page: picking the        *)
(* language that is shown (LangSwitcher.tsx:40) does not take it back.     *)
SameLanguage ==
  /\ DetectLocale(cookie, languages) = Resolve(cookie, languages)
  /\ active # Resolve(cookie, languages) => elsewhere
  /\ chosen # NoCookie => active = chosen /\ (cookie = chosen \/ elsewhere \/ cookie = NoCookie)

(* The two "never disagree on locale" (i18n/index.ts:2-3).                 *)
NeverDisagree == active = Resolve(cookie, languages)

=============================================================================
