-------------------------------- MODULE Locale --------------------------------
(***************************************************************************)
(* The language of a page, settled twice: by the server for the pages it   *)
(* renders (internal/i18n) and by the single-page application when it is   *)
(* loaded (ui-cp/src/i18n).  Both go by the cookie, if it is a language    *)
(* that has a catalog, and else by the first language of the browser's     *)
(* list that either has a catalog or has one for its primary subtag.       *)
(***************************************************************************)
EXTENDS Integers, Sequences

CONSTANTS
  Tags,          \* the language tags a browser may list
  PrimaryOf      \* PrimaryOf[t]: the primary subtag of t, in lower case

DEFAULT_LOCALE == "en"
SUPPORTED == {"en", "es-419", "pt-BR"}

ASSUME PrimaryAssumption == PrimaryOf \in [Tags -> STRING]
NoCookie == ""

ByPrimary == [es |-> "es-419", pt |-> "pt-BR", en |-> "en"]

(* What a tag stands for, and whether it stands for anything.              *)
Understood(t) == t \in SUPPORTED \/ PrimaryOf[t] \in DOMAIN ByPrimary
Match(t) == IF t \in SUPPORTED THEN t ELSE ByPrimary[PrimaryOf[t]]

IsFirst(k, s) == /\ k \in DOMAIN s /\ Understood(s[k])
                 /\ \A j \in 1 .. k - 1 : ~Understood(s[j])

FirstMatch(s) ==
  IF \E k \in DOMAIN s : IsFirst(k, s)
  THEN Match(s[CHOOSE k \in DOMAIN s : IsFirst(k, s)])
  ELSE DEFAULT_LOCALE

(* navigator.language is the first of navigator.languages.                 *)
Navigator(languages) ==
  IF languages = <<>> THEN <<>> ELSE <<languages[1]>> \o languages

(* slip: only a tag that has a catalog of its own is looked for            *)
DetectLocaleExact(cookie, languages) ==
  IF cookie \in SUPPORTED THEN cookie
  ELSE IF languages # <<>> /\ languages[1] \in SUPPORTED THEN languages[1] ELSE DEFAULT_LOCALE

DetectLocale(cookie, languages) ==
  IF cookie \in SUPPORTED THEN cookie ELSE FirstMatch(Navigator(languages))

(* The header lists the browser's languages in order; q-values are not     *)
(* looked at.                                                              *)
Resolve(cookie, languages) ==
  IF cookie \in SUPPORTED THEN cookie ELSE FirstMatch(languages)

(* setLocale() and SetCookie(): nothing but a supported language is set.   *)
AfterSet(cookie, loc) == IF loc \in SUPPORTED THEN loc ELSE cookie

=============================================================================
