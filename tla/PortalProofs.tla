----------------------------- MODULE PortalProofs -----------------------------
(***************************************************************************)
(* What the portal's shell and the player of the walkthrough guarantee for *)
(* any languages and any browser: where the player stands and what         *)
(* language is shown for any decks of slides, what a slide tells for the   *)
(* decks of the source.                                                    *)
(***************************************************************************)
EXTENDS Portal, TLAPS

IInv == TypeOK /\ SameLanguage

-----------------------------------------------------------------------------
(* Every flow has a first slide, and a provider a first flow.              *)
LEMMA DeckFacts ==
  ASSUME NEW p \in Providers
  PROVE  /\ Decks[p] \in Seq(Nat \ {0}) /\ 1 \in 1 .. Len(Decks[p])
         /\ \A f \in 1 .. Len(Decks[p]) : Decks[p][f] - 1 \in Nat
  <1>1. Decks[p] \in Seq(Nat \ {0}) /\ Decks[p] # <<>>
    BY DecksAssumption
  <1>2. Len(Decks[p]) \in Nat /\ Len(Decks[p]) # 0
    BY <1>1
  <1>3. \A f \in 1 .. Len(Decks[p]) : Decks[p][f] \in Nat \ {0}
    BY <1>1
  <1> QED BY <1>1, <1>2, <1>3

(* There is one first language that is understood.                         *)
LEMMA FirstIs ==
  ASSUME NEW s \in Seq(Tags), NEW k \in DOMAIN s, IsFirst(k, s)
  PROVE  FirstMatch(s) = Match(s[k])
  <1> DEFINE c == CHOOSE m \in DOMAIN s : IsFirst(m, s)
  <1>1. c \in DOMAIN s /\ IsFirst(c, s)
    OBVIOUS
  <1> HIDE DEF c
  <1>2. DOMAIN s = 1 .. Len(s) /\ Len(s) \in Nat
    OBVIOUS
  <1>3. ~(c < k) /\ ~(k < c)
    <2>1. c \in Nat /\ k \in Nat /\ c >= 1 /\ k >= 1
      BY <1>1, <1>2
    <2>2. c < k => c \in 1 .. k - 1
      BY <2>1
    <2>3. k < c => k \in 1 .. c - 1
      BY <2>1
    <2> QED BY <1>1, <2>2, <2>3 DEF IsFirst
  <1>4. c = k
    BY <1>1, <1>2, <1>3
  <1> QED BY <1>4 DEF FirstMatch, c

LEMMA NoneIs ==
  ASSUME NEW s, \A k \in DOMAIN s : ~IsFirst(k, s)
  PROVE  FirstMatch(s) = DEFAULT_LOCALE
  BY DEF FirstMatch

(* A browser repeats its first language at the head of its list: the first *)
(* that is understood is the same one.                                     *)
LEMMA SameFirst ==
  ASSUME NEW s \in Seq(Tags)
  PROVE  FirstMatch(Navigator(s)) = FirstMatch(s)
  <1>1. CASE s = <<>>
    BY <1>1 DEF Navigator
  <1>2. CASE s # <<>>
    <2> DEFINE n == <<s[1]>> \o s
    <2>1. /\ Navigator(s) = n /\ n \in Seq(Tags)
          /\ Len(n) = Len(s) + 1 /\ n[1] = s[1]
          /\ \A k \in 1 .. Len(s) : n[k + 1] = s[k]
      <3>1. Navigator(s) = n
        BY <1>2 DEF Navigator
      <3>2. <<s[1]>> \in Seq(Tags) /\ Len(<<s[1]>>) = 1
        BY <1>2
      <3>3. /\ n \in Seq(Tags) /\ Len(n) = 1 + Len(s)
            /\ n[1] = s[1] /\ \A k \in 1 .. Len(s) : n[1 + k] = s[k]
        BY <1>2
      <3> QED BY <3>1, <3>3
    <2> HIDE DEF n
    <2>2. /\ DOMAIN s = 1 .. Len(s) /\ Len(s) \in Nat /\ Len(s) >= 1
          /\ DOMAIN n = 1 .. (Len(s) + 1)
      BY <1>2, <2>1
    <2>3. CASE Understood(s[1])
      <3>1. IsFirst(1, s) /\ IsFirst(1, n) /\ 1 \in DOMAIN s /\ 1 \in DOMAIN n
        BY <2>1, <2>2, <2>3 DEF IsFirst
      <3> QED BY <2>1, <3>1, FirstIs
    <2>4. CASE ~Understood(s[1])
      <3>1. ASSUME NEW k \in DOMAIN s, IsFirst(k, s)
            PROVE  k + 1 \in DOMAIN n /\ IsFirst(k + 1, n) /\ n[k + 1] = s[k]
        <4>1. k + 1 \in DOMAIN n /\ n[k + 1] = s[k]
          BY <2>1, <2>2
        <4>2. ASSUME NEW j \in 1 .. k  PROVE ~Understood(n[j])
          <5>1. CASE j = 1
            BY <2>1, <2>4, <5>1
          <5>2. CASE j # 1
            <6>1. j - 1 \in 1 .. k - 1 /\ j - 1 \in 1 .. Len(s) /\ (j - 1) + 1 = j
              BY <2>2, <5>2
            <6>2. n[j] = s[j - 1]
              BY <2>1, <6>1
            <6> QED BY <3>1, <6>1, <6>2 DEF IsFirst
          <5> QED BY <5>1, <5>2
        <4>3. (k + 1) - 1 = k
          BY <2>2
        <4> QED BY <3>1, <4>1, <4>2, <4>3 DEF IsFirst
      <3>2. ASSUME NEW m \in DOMAIN n, IsFirst(m, n)
            PROVE  \E k \in DOMAIN s : IsFirst(k, s)
        <4>1. m # 1
          BY <2>1, <2>4, <3>2 DEF IsFirst
        <4>2. m - 1 \in DOMAIN s /\ (m - 1) + 1 = m
          BY <2>2, <4>1
        <4>3. n[m] = s[m - 1]
          BY <2>1, <2>2, <4>2
        <4>4. ASSUME NEW j \in 1 .. (m - 1) - 1  PROVE ~Understood(s[j])
          <5>1. j + 1 \in 1 .. m - 1 /\ j \in 1 .. Len(s)
            BY <2>2, <4>2
          <5>2. n[j + 1] = s[j]
            BY <2>1, <5>1
          <5> QED BY <3>2, <5>1, <5>2 DEF IsFirst
        <4>5. IsFirst(m - 1, s)
          BY <3>2, <4>2, <4>3, <4>4 DEF IsFirst
        <4> QED BY <4>2, <4>5
      <3>3. CASE \E k \in DOMAIN s : IsFirst(k, s)
        <4>1. PICK k \in DOMAIN s : IsFirst(k, s)
          BY <3>3
        <4>2. FirstMatch(s) = Match(s[k])
          BY <4>1, FirstIs
        <4>3. FirstMatch(n) = Match(n[k + 1])
          BY <2>1, <3>1, <4>1, FirstIs
        <4> QED BY <2>1, <3>1, <4>1, <4>2, <4>3
      <3>4. CASE ~\E k \in DOMAIN s : IsFirst(k, s)
        BY <2>1, <3>2, <3>4, NoneIs
      <3> QED BY <3>3, <3>4
    <2> QED BY <2>3, <2>4
  <1> QED BY <1>1, <1>2

(* Application and server settle on the same language, which has a catalog.*)
LEMMA SameDetected ==
  ASSUME NEW c \in SUPPORTED \cup {NoCookie}, NEW s \in Seq(Tags)
  PROVE  DetectLocale(c, s) = Resolve(c, s) /\ DetectLocale(c, s) \in SUPPORTED
  <1>1. DetectLocale(c, s) = Resolve(c, s)
    BY SameFirst DEF DetectLocale, Resolve
  <1>2. ASSUME NEW t, Understood(t)  PROVE Match(t) \in SUPPORTED
    BY <1>2 DEF Understood, Match, SUPPORTED, ByPrimary
  <1>3. FirstMatch(s) \in SUPPORTED
    <2>1. CASE \E k \in DOMAIN s : IsFirst(k, s)
      <3>1. PICK k \in DOMAIN s : IsFirst(k, s)
        BY <2>1
      <3> QED BY <1>2, <3>1, FirstIs DEF IsFirst
    <2>2. CASE ~\E k \in DOMAIN s : IsFirst(k, s)
      BY <2>2, NoneIs DEF DEFAULT_LOCALE, SUPPORTED
    <2> QED BY <2>1, <2>2
  <1> QED BY <1>1, <1>3 DEF Resolve

-----------------------------------------------------------------------------
(* What the type invariant says of slides, in numbers.                     *)
LEMMA SlideFacts ==
  ASSUME TypeOK
  PROVE  /\ provider \in Providers /\ flow \in Flows /\ 1 \in Flows
         /\ \A f \in Flows : Last(f) \in Nat
         /\ i \in 0 .. Last(flow) /\ seen \in 0 .. Last(flow)
  BY DeckFacts DEF TypeOK, PlayerOK, Flows, Last

(* Whatever a handler asks for, if it is a slide of a flow, and an update  *)
(* of the timer is left over only where there is a slide to come.          *)
LEMMA SettleKeeps ==
  ASSUME TypeOK, open, NEW f \in Flows, NEW n \in 0 .. Last(f), NEW p \in BOOLEAN, NEW d \in BOOLEAN,
         d => n < Last(f), Settle(f, n, p, d)
  PROVE  PlayerOK'
  <1>1. /\ flow' = f /\ i' = n /\ seen' = n /\ due' = d /\ pending' = FALSE
        /\ playing' \in BOOLEAN /\ timer' = playing' /\ (playing' => n < Last(f))
        /\ provider' = provider /\ open' = open
    BY DEF Settle
  <1>2. Flows' = Flows /\ \A g : Last(g)' = Last(g)
    BY <1>1 DEF Flows, Last
  <1>3. Last(flow)' = Last(f)
    BY <1>1 DEF Last
  <1> QED BY <1>1, <1>2, <1>3 DEF PlayerOK, TypeOK

(* Every button and key stays within the flow it was made for.             *)
LEMMA InputKeeps ==
  ASSUME TypeOK, Input  PROVE PlayerOK' /\ open' = open /\ provider' = provider
  <1>1. /\ flow \in Flows /\ 1 \in Flows /\ \A f \in Flows : Last(f) \in Nat
        /\ i \in 0 .. Last(flow) /\ seen \in 0 .. Last(flow)
    BY SlideFacts
  <1>2. due \in BOOLEAN /\ playing \in BOOLEAN /\ (due => i < Last(flow))
    BY DEF TypeOK, PlayerOK
  <1>3. CASE GoBack
    <2>1. i - 1 \in 0 .. Last(flow)
      BY <1>1, <1>3 DEF GoBack
    <2> QED BY <1>1, <1>3, <2>1, SettleKeeps DEF GoBack, Settle
  <1>4. CASE GoNext
    <2>1. i + 1 \in 0 .. Last(flow)
      BY <1>1, <1>4 DEF GoNext
    <2> QED BY <1>1, <1>4, <2>1, SettleKeeps DEF GoNext, Settle
  <1>5. CASE Restart
    <2>1. 0 \in 0 .. Last(flow)
      BY <1>1
    <2> QED BY <1>1, <1>5, <2>1, SettleKeeps DEF Restart, Settle
  <1>6. ASSUME open, Settle(flow, 0, TRUE, FALSE) \/ Settle(flow, i, ~playing, due)
        PROVE  PlayerOK' /\ open' = open /\ provider' = provider
    <2>1. 0 \in 0 .. Last(flow)
      BY <1>1
    <2> QED BY <1>1, <1>2, <1>6, <2>1, SettleKeeps DEF Settle
  <1>7. CASE TogglePlay
    BY <1>6, <1>7 DEF TogglePlay
  <1>8. CASE KeySpace
    BY <1>6, <1>8 DEF KeySpace
  <1>9. CASE KeyRight
    <2>1. Atmost(Last(flow), seen + 1) \in 0 .. Last(flow)
      BY <1>1 DEF Atmost
    <2> QED BY <1>1, <1>9, <2>1, SettleKeeps DEF KeyRight, Settle
  <1>10. CASE KeyLeft
    <2>1. Atleast(0, seen - 1) \in 0 .. Last(flow)
      BY <1>1 DEF Atleast
    <2> QED BY <1>1, <1>10, <2>1, SettleKeeps DEF KeyLeft, Settle
  <1>11. ASSUME NEW f \in Flows, SwitchFlow(f)
         PROVE  PlayerOK' /\ open' = open /\ provider' = provider
    <2>1. 0 \in 0 .. Last(f)
      BY <1>1
    <2> QED BY <1>1, <1>11, <2>1, SettleKeeps DEF SwitchFlow, Settle
  <1> QED BY <1>3, <1>4, <1>5, <1>7, <1>8, <1>9, <1>10, <1>11 DEF Input

(* The timer goes on only where there is a slide to go to.                 *)
LEMMA GoesKeeps ==
  ASSUME TypeOK, Goes  PROVE PlayerOK' /\ open' = open /\ provider' = provider
  <1>1. flow \in Flows /\ Last(flow) \in Nat /\ i \in 0 .. Last(flow) /\ seen \in 0 .. Last(flow)
    BY SlideFacts
  <1>2. provider' = provider /\ flow' = flow /\ open' = open
    BY DEF Goes, TimerFires, Render, Effects
  <1>3. Flows' = Flows /\ Last(flow)' = Last(flow)
    BY <1>2 DEF Flows, Last
  <1>4. CASE TimerFires
    BY <1>1, <1>2, <1>3, <1>4 DEF TimerFires, TypeOK, PlayerOK
  <1>5. CASE Render
    <2>1. i + 1 \in 0 .. Last(flow)
      BY <1>1, <1>5 DEF Render, TypeOK, PlayerOK
    <2> QED BY <1>1, <1>2, <1>3, <1>5, <2>1 DEF Render, TypeOK, PlayerOK
  <1>6. CASE Effects
    BY <1>1, <1>2, <1>3, <1>6 DEF Effects, TypeOK, PlayerOK
  <1> QED BY <1>2, <1>4, <1>5, <1>6 DEF Goes

(* A player that is mounted or unmounted is at the first slide.            *)
LEMMA SetOpenKeeps ==
  ASSUME NEW o \in BOOLEAN, provider \in Providers, provider' = provider, SetOpen(o)
  PROVE  PlayerOK' /\ open' = o
  <1>1. 1 \in Flows /\ Last(1) \in Nat
    BY DeckFacts DEF Flows, Last
  <1>2. flow' \in Flows' /\ i' \in 0 .. Last(flow)' /\ seen' \in 0 .. Last(flow)'
    <2>1. Flows' = Flows /\ Last(flow)' = Last(1)
      BY DEF Flows, Last, SetOpen
    <2>2. 0 \in 0 .. Last(1)
      BY <1>1
    <2> QED BY <1>1, <2>1, <2>2 DEF SetOpen
  <1>3. open' = o /\ playing' = FALSE /\ timer' = FALSE /\ due' = FALSE /\ pending' = FALSE
    BY DEF SetOpen
  <1> QED BY <1>2, <1>3, Zenon DEF PlayerOK

LEMMA ShowKeeps ==
  ASSUME TypeOK, NEW v \in Views, Show(v)  PROVE TypeOK'
  <1>1. /\ view' = v /\ collapsed' \in BOOLEAN
        /\ provider' = provider /\ cookie' = cookie /\ languages' = languages
        /\ active' = active /\ elsewhere' = elsewhere /\ chosen' = chosen
    BY DEF Show, locale, TypeOK
  <1>2. PlayerOK' /\ open' = (v = "walkthrough")
    <2>1. CASE (v = "walkthrough") = open
      BY <1>1, <2>1 DEF Show, player, TypeOK, PlayerOK, Flows, Last
    <2>2. CASE (v = "walkthrough") # open
      BY <1>1, <2>2, SetOpenKeeps DEF Show, TypeOK, PlayerOK
    <2> QED BY <2>1, <2>2
  <1> QED BY <1>1, <1>2 DEF TypeOK

LEMMA LoadKeeps ==
  ASSUME TypeOK, NEW c \in SUPPORTED \cup {NoCookie}, Load(c),
         chosen' \in SUPPORTED \cup {NoCookie}, chosen' # NoCookie => c = chosen'
  PROVE  TypeOK' /\ SameLanguage'
  <1>1. /\ cookie' = c /\ active' = DetectLocale(c, languages) /\ elsewhere' = FALSE
        /\ view' = "topology" /\ collapsed' = FALSE
        /\ provider' = provider /\ languages' = languages
    BY DEF Load
  <1>2. PlayerOK' /\ open' = FALSE
    BY <1>1, SetOpenKeeps DEF Load, TypeOK, PlayerOK
  <1>3. languages \in Seq(Tags)
    BY ListsAssumption DEF TypeOK
  <1>4. DetectLocale(c, languages) = Resolve(c, languages) /\ DetectLocale(c, languages) \in SUPPORTED
    BY <1>3, SameDetected
  <1>5. TypeOK'
    BY <1>1, <1>2, <1>4 DEF TypeOK, Views, Inspections
  <1>6. chosen' # NoCookie => active' = chosen'
    BY <1>1 DEF DetectLocale
  <1>7. SameLanguage'
    BY <1>1, <1>4, <1>6 DEF SameLanguage
  <1> QED BY <1>5, <1>7

LEMMA InitInv == Init => IInv
  <1> SUFFICES ASSUME Init PROVE IInv
    OBVIOUS
  <1>1. provider \in Providers /\ 1 \in Flows /\ Last(1) \in Nat
    BY DeckFacts DEF Init, Flows, Last
  <1>2. PlayerOK
    <2>1. flow \in Flows /\ i \in 0 .. Last(flow) /\ seen \in 0 .. Last(flow)
      <3>1. 0 \in 0 .. Last(1)
        BY <1>1
      <3> QED BY <1>1, <3>1 DEF Init, Closed
    <2> QED BY <1>1, <2>1, Zenon DEF Init, Closed, PlayerOK
  <1>3. languages \in Seq(Tags) /\ cookie \in SUPPORTED \cup {NoCookie}
    BY ListsAssumption DEF Init
  <1>4. DetectLocale(cookie, languages) = Resolve(cookie, languages) /\ active \in SUPPORTED
    BY <1>3, SameDetected DEF Init
  <1>5. TypeOK
    BY <1>2, <1>4 DEF TypeOK, Init, Closed, Views, Inspections
  <1> QED BY <1>4, <1>5 DEF IInv, SameLanguage, Init

LEMMA NextInv == IInv /\ [Next]_vars => IInv'
  <1> SUFFICES ASSUME TypeOK, SameLanguage, [Next]_vars PROVE TypeOK' /\ SameLanguage'
    BY DEF IInv
  <1>1. ASSUME UNCHANGED locale  PROVE SameLanguage'
    BY <1>1 DEF locale, SameLanguage
  <1>2. CASE UNCHANGED vars
    <2>1. UNCHANGED locale /\ TypeOK'
      BY <1>2 DEF vars, locale, shell, player, TypeOK, PlayerOK, Flows, Last
    <2> QED BY <1>1, <2>1
  <1>3. CASE Play
    <2>1. PlayerOK' /\ open' = open
      BY <1>3, InputKeeps, GoesKeeps DEF Play
    <2>2. TypeOK'
      BY <1>3, <2>1 DEF Play, shell, locale, TypeOK
    <2> QED BY <1>1, <1>3, <2>2 DEF Play
  <1>4. ASSUME NEW v \in Views, Show(v)  PROVE TypeOK' /\ SameLanguage'
    BY <1>1, <1>4, ShowKeeps DEF Show
  <1>5. CASE LearnMore
    BY <1>4, <1>5 DEF LearnMore, Views
  <1>6. CASE Retrieve
    <2>1. (IF view = "walkthrough" THEN "topology" ELSE view) \in Views
      BY DEF TypeOK, Views, Inspections
    <2> QED BY <1>4, <1>6, <2>1 DEF Retrieve
  <1>7. ASSUME NEW v \in Inspections, ShowInspection(v)  PROVE TypeOK' /\ SameLanguage'
    BY <1>4, <1>7 DEF ShowInspection, Views
  <1>8. CASE ToggleCollapsed
    <2>1. TypeOK' /\ UNCHANGED locale
      BY <1>8 DEF ToggleCollapsed, player, locale, TypeOK, PlayerOK, Flows, Last
    <2> QED BY <1>1, <2>1
  <1>9. CASE Reload
    <2>1. cookie \in SUPPORTED \cup {NoCookie} /\ Load(cookie) /\ chosen' = NoCookie
      BY <1>9 DEF Reload, TypeOK
    <2> QED BY <2>1, LoadKeeps
  <1>10. ASSUME NEW loc \in SUPPORTED, Choose(loc)  PROVE TypeOK' /\ SameLanguage'
    <2>1. Load(loc) /\ chosen' = loc
      BY <1>10 DEF Choose, AfterSet
    <2> QED BY <2>1, LoadKeeps
  <1>11. CASE ChooseActive
    <2>1. /\ UNCHANGED <<provider, player, shell, cookie, languages, active, elsewhere>>
          /\ chosen' = active /\ active \in SUPPORTED /\ cookie \in SUPPORTED \cup {NoCookie}
      BY <1>11 DEF ChooseActive, TypeOK
    <2>2. TypeOK'
      BY <2>1 DEF player, shell, TypeOK, PlayerOK, Flows, Last
    <2>3. ~elsewhere /\ cookie # NoCookie => active = cookie
      BY <2>1 DEF SameLanguage, Resolve
    <2> QED BY <2>1, <2>2, <2>3 DEF SameLanguage
  <1>12. ASSUME NEW loc \in SUPPORTED \cup {NoCookie}, SetElsewhere(loc)
         PROVE  TypeOK' /\ SameLanguage'
    <2>1. /\ UNCHANGED <<provider, player, shell, languages, active, chosen>>
          /\ loc \in SUPPORTED => cookie' = loc /\ elsewhere' = TRUE
          /\ loc \notin SUPPORTED => cookie' = cookie /\ elsewhere' = elsewhere
      BY <1>12 DEF SetElsewhere, AfterSet, TypeOK
    <2>2. cookie' \in SUPPORTED \cup {NoCookie} /\ elsewhere' \in BOOLEAN
      BY <2>1 DEF TypeOK
    <2>3. TypeOK'
      BY <2>1, <2>2 DEF player, shell, TypeOK, PlayerOK, Flows, Last
    <2>4. DetectLocale(cookie', languages) = Resolve(cookie', languages)
      <3>1. languages \in Seq(Tags)
        BY ListsAssumption DEF TypeOK
      <3> QED BY <2>2, <3>1, SameDetected
    <2>5. /\ languages' = languages /\ active' = active /\ chosen' = chosen
          /\ loc \notin SUPPORTED => cookie' = cookie /\ elsewhere' = elsewhere
          /\ loc \in SUPPORTED => elsewhere' = TRUE
      BY <2>1
    <2>6. active' # Resolve(cookie', languages') => elsewhere'
      BY <2>5 DEF SameLanguage
    <2>7. chosen' # NoCookie => active' = chosen' /\ (cookie' = chosen' \/ elsewhere' \/ cookie' = NoCookie)
      BY <2>5 DEF SameLanguage
    <2>8. SameLanguage'
      BY <2>4, <2>5, <2>6, <2>7 DEF SameLanguage
    <2> QED BY <2>3, <2>8
  <1> QED BY <1>2, <1>3, <1>5, <1>6, <1>7, <1>8, <1>9, <1>10, <1>11, <1>12 DEF Next

THEOREM Invariance == Spec => []IInv
  BY InitInv, NextInv, PTL DEF Spec

(* The slide on display is one of the flow's, a timer is armed only where  *)
(* there is a slide to come, and a player that says it plays has something *)
(* under way: for every deck of slides and every order of timer, rendering,*)
(* effects, buttons, keys, changes of view and reloads.                    *)
THEOREM PlayerStaysInFlow == Spec => []TypeOK
  BY Invariance, PTL DEF IInv

(* For every list of languages and every cookie, application and server    *)
(* settle on the same language; the application shows another one only     *)
(* after another page has set the cookie, and the one that was picked in   *)
(* its switcher for as long as it stays open (SameLanguage).               *)
THEOREM OneLanguage == Spec => []SameLanguage
  BY Invariance, PTL DEF IInv

-----------------------------------------------------------------------------
(* The decks themselves.  A deck is sound if each of its slides is, and the*)
(* slides are looked at one by one: what a slide names, by membership in   *)
(* the sets of the deck; what it tells, next to what the slide before told.*)
SlideFits(deck, slide) ==
  NamesExist(deck, slide) /\ EndsLit(deck, slide)

DiagramSound(deck) ==
  /\ deck.kind = "diagram"
  /\ \A k \in 1 .. Len(deck.slides) : SlideFits(deck, deck.slides[k])

(* The decks that are diagrams only.                                       *)
LEMMA JwtFits == DiagramSound(jwtFlow)
  <1> USE DEF Deck, Slide, SlideFits, NamesExist, EndsLit, Lit, Named, Drawn, ChipNodes
  <1>1. /\ Len(jwtFlow.slides) = 8 /\ jwtFlow.kind = "diagram" /\ jwtFlow.chip
        /\ jwtFlow.rings = smRings /\ jwtFlow.cards = smCards /\ jwtFlow.rails = smRails
    BY DEF jwtFlow
  <1>2. \A k \in 1 .. 8 : SlideFits(jwtFlow, jwtFlow.slides[k])
    BY <1>1 DEF jwtFlow, smRings, smRails, smCards, smAll, smSecret
  <1> QED BY <1>1, <1>2 DEF DiagramSound

LEMMA IamFits == DiagramSound(iamFlow)
  <1> USE DEF Deck, Slide, SlideFits, NamesExist, EndsLit, Lit, Named, Drawn, ChipNodes
  <1>1. /\ Len(iamFlow.slides) = 8 /\ iamFlow.kind = "diagram" /\ iamFlow.chip
        /\ iamFlow.rings = smRings /\ iamFlow.cards = smCards /\ iamFlow.rails = smRails
    BY DEF iamFlow
  <1>2. \A k \in 1 .. 8 : SlideFits(iamFlow, iamFlow.slides[k])
    BY <1>1 DEF iamFlow, smRings, smRails, smCards, smAll, smSecret
  <1> QED BY <1>1, <1>2 DEF DiagramSound

LEMMA CcpRetrievalFits == DiagramSound(ccpRetrieval)
  <1> USE DEF Deck, Slide, SlideFits, NamesExist, EndsLit, Lit, Named, Drawn, ChipNodes
  <1>1. /\ Len(ccpRetrieval.slides) = 5 /\ ccpRetrieval.kind = "diagram" /\ ccpRetrieval.chip
        /\ ccpRetrieval.rings = ccpRings /\ ccpRetrieval.cards = ccpCards
        /\ ccpRetrieval.rails = ccpRails
    BY DEF ccpRetrieval
  <1>2. \A k \in 1 .. 5 : SlideFits(ccpRetrieval, ccpRetrieval.slides[k])
    BY <1>1 DEF ccpRetrieval, ccpRings, ccpRails, ccpCards
  <1> QED BY <1>1, <1>2 DEF DiagramSound

LEMMA CcpRotationFits == DiagramSound(ccpRotation)
  <1> USE DEF Deck, Slide, SlideFits, NamesExist, EndsLit, Lit, Named, Drawn, ChipNodes
  <1>1. /\ Len(ccpRotation.slides) = 4 /\ ccpRotation.kind = "diagram"
        /\ ccpRotation.rings = ccpRings /\ ccpRotation.cards = ccpCards
        /\ ccpRotation.rails = ccpRails
    BY DEF ccpRotation
  <1>2. \A k \in 1 .. 4 : SlideFits(ccpRotation, ccpRotation.slides[k])
    BY <1>1 DEF ccpRotation, ccpRings, ccpRails, ccpCards
  <1> QED BY <1>1, <1>2 DEF DiagramSound

LEMMA CpRetrievalFits == DiagramSound(cpRetrieval)
  <1> USE DEF Deck, Slide, SlideFits, NamesExist, EndsLit, Lit, Named, Drawn, ChipNodes
  <1>1. /\ Len(cpRetrieval.slides) = 6 /\ cpRetrieval.kind = "diagram" /\ cpRetrieval.chip
        /\ cpRetrieval.rings = cpRings /\ cpRetrieval.cards = cpCards /\ cpRetrieval.rails = cpRails
    BY DEF cpRetrieval
  <1>2. \A k \in 1 .. 6 : SlideFits(cpRetrieval, cpRetrieval.slides[k])
    BY <1>1 DEF cpRetrieval, cpRings, cpRails, cpCards
  <1> QED BY <1>1, <1>2 DEF DiagramSound

LEMMA CpRotationFits == DiagramSound(cpRotation)
  <1> USE DEF Deck, Slide, SlideFits, NamesExist, EndsLit, Lit, Named, Drawn, ChipNodes
  <1>1. /\ Len(cpRotation.slides) = 4 /\ cpRotation.kind = "diagram"
        /\ cpRotation.rings = cpRings /\ cpRotation.cards = cpCards /\ cpRotation.rails = cpRails
    BY DEF cpRotation
  <1>2. \A k \in 1 .. 4 : SlideFits(cpRotation, cpRotation.slides[k])
    BY <1>1 DEF cpRotation, cpRings, cpRails, cpCards
  <1> QED BY <1>1, <1>2 DEF DiagramSound

LEMMA SwaFits == DiagramSound(swaFlow)
  <1> USE DEF Deck, Slide, SlideFits, NamesExist, EndsLit, Lit, Named, Drawn, ChipNodes
  <1>1. /\ Len(swaFlow.slides) = 8 /\ swaFlow.kind = "diagram" /\ swaFlow.chip
        /\ swaFlow.rings = swaRings /\ swaFlow.cards = swaCards /\ swaFlow.rails = swaRails
    BY DEF swaFlow
  <1>2. \A k \in 1 .. 8 : SlideFits(swaFlow, swaFlow.slides[k])
    BY <1>1 DEF swaFlow, swaRings, swaRails, swaCards
  <1> QED BY <1>1, <1>2 DEF DiagramSound

(* The dual accounts: what the cards of each slide tell, next to those of  *)
(* the slide before.                                                       *)
LEMMA DualIsSound ==
  /\ makeDual.kind = "dual" /\ Len(makeDual.slides) = 8
  /\ \A k \in 1 .. 8 : SlideFits(makeDual, makeDual.slides[k]) /\ RotationSafe(makeDual, k)
  <1> USE DEF Deck, Slide, Told, SlideFits, NamesExist, EndsLit, Lit, Named, Drawn, ChipNodes,
              makeDual, Accounts, dualRails, dualServed
  <1>1. /\ Len(makeDual.slides) = 8 /\ makeDual.kind = "dual"
        /\ makeDual.rings = [vault |-> Accounts] /\ makeDual.rails = dualRails
        /\ makeDual.cards = {"app", "cp", "cpm", "target"} \cup Accounts
    OBVIOUS
  <1>2. \A k \in 1 .. 8 : SlideFits(makeDual, makeDual.slides[k])
    <2>1. SlideFits(makeDual, makeDual.slides[1])
      BY <1>1
    <2>2. SlideFits(makeDual, makeDual.slides[2])
      BY <1>1
    <2>3. SlideFits(makeDual, makeDual.slides[3])
      BY <1>1
    <2>4. SlideFits(makeDual, makeDual.slides[4])
      BY <1>1
    <2>5. SlideFits(makeDual, makeDual.slides[5])
      BY <1>1
    <2>6. SlideFits(makeDual, makeDual.slides[6])
      BY <1>1
    <2>7. SlideFits(makeDual, makeDual.slides[7])
      BY <1>1
    <2>8. SlideFits(makeDual, makeDual.slides[8])
      BY <1>1
    <2> HIDE DEF SlideFits, makeDual
    <2> QED BY <2>1, <2>2, <2>3, <2>4, <2>5, <2>6, <2>7, <2>8
  <1>3. \A k \in 1 .. 8 : RotationSafe(makeDual, k)
    <2> USE DEF DualTells, Tells, A_SERVED, A_STALE, B_SERVED, A_RESET, Nothing,
               RotationSafe, Previous
    <2>1. RotationSafe(makeDual, 1)
      BY <1>1
    <2>2. RotationSafe(makeDual, 2)
      BY <1>1
    <2>3. RotationSafe(makeDual, 3)
      BY <1>1
    <2>4. RotationSafe(makeDual, 4)
      BY <1>1
    <2>5. RotationSafe(makeDual, 5)
      BY <1>1
    <2>6. RotationSafe(makeDual, 6)
      BY <1>1
    <2>7. RotationSafe(makeDual, 7)
      BY <1>1
    <2>8. RotationSafe(makeDual, 8)
      BY <1>1
    <2> HIDE DEF RotationSafe, makeDual
    <2> QED BY <2>1, <2>2, <2>3, <2>4, <2>5, <2>6, <2>7, <2>8
  <1> HIDE DEF SlideFits, makeDual
  <1> QED BY <1>1, <1>2, <1>3

(* The policy: what each slide lights, by the lines it has brightened.     *)
LEMMA PolicyIsSound ==
  /\ policyFlow.kind = "policy" /\ Len(policyFlow.slides) = 8
  /\ \A k \in 1 .. 8 : SlideFits(policyFlow, policyFlow.slides[k]) /\ TreeFollowsYaml(policyFlow, k)
  <1> USE DEF Deck, Slide, Told, SlideFits, NamesExist, EndsLit, Lit, Named, Drawn, ChipNodes,
              policyFlow, POLICY_TREE, POLICY_LINKS, leafLinks
  <1>1. /\ Len(policyFlow.slides) = 8 /\ policyFlow.kind = "policy"
        /\ policyFlow.rings = <<>> /\ policyFlow.rails = POLICY_LINKS
        /\ policyFlow.cards = POLICY_TREE
    OBVIOUS
  <1>2. \A k \in 1 .. 8 : SlideFits(policyFlow, policyFlow.slides[k])
    <2>1. SlideFits(policyFlow, policyFlow.slides[1])
      BY <1>1
    <2>2. SlideFits(policyFlow, policyFlow.slides[2])
      BY <1>1
    <2>3. SlideFits(policyFlow, policyFlow.slides[3])
      BY <1>1
    <2>4. SlideFits(policyFlow, policyFlow.slides[4])
      BY <1>1
    <2>5. SlideFits(policyFlow, policyFlow.slides[5])
      BY <1>1
    <2>6. SlideFits(policyFlow, policyFlow.slides[6])
      BY <1>1
    <2>7. SlideFits(policyFlow, policyFlow.slides[7])
      BY <1>1
    <2>8. SlideFits(policyFlow, policyFlow.slides[8])
      BY <1>1
    <2> HIDE DEF SlideFits, policyFlow
    <2> QED BY <2>1, <2>2, <2>3, <2>4, <2>5, <2>6, <2>7, <2>8
  <1>3. \A k \in 1 .. 8 : policyFlow.slides[k].tells = policyReads[k]
    OBVIOUS
  <1>4. /\ DOMAIN POLICY_YAML = {"prod", "app1", "variable", "host", "group", "permit", "grant"}
        /\ POLICY_YAML["prod"] = 1 .. 4 /\ POLICY_YAML["app1"] = 5 .. 7
        /\ POLICY_YAML["variable"] = {8} /\ POLICY_YAML["host"] = {9} /\ POLICY_YAML["group"] = {10}
        /\ POLICY_YAML["permit"] = 11 .. 14 /\ POLICY_YAML["grant"] = 15 .. 17
    BY DEF POLICY_YAML
  <1>5. \A k \in 1 .. 8 : TreeFollowsYaml(policyFlow, k)
    <2>1. TreeFollowsYaml(policyFlow, 1)
      <3>1. LET shown == policyFlow.slides[1].focus \cup policyFlow.slides[1].links
            IN \A n \in shown \cap DOMAIN POLICY_YAML : POLICY_YAML[n] \subseteq 1 .. 0
        BY <1>4
      <3>2. policyFlow.slides[1].tells.reveal = 0
        BY <1>3 DEF policyReads, Reads
      <3>3. policyFlow.slides[1].tells.highlight = 0 + 1 .. 0
        BY <1>3 DEF policyReads, Reads
      <3> HIDE DEF policyFlow
      <3> QED BY <3>1, <3>2, <3>3 DEF TreeFollowsYaml, Bright
    <2>2. TreeFollowsYaml(policyFlow, 2)
      <3>1. LET shown == policyFlow.slides[2].focus \cup policyFlow.slides[2].links
            IN \A n \in shown \cap DOMAIN POLICY_YAML : POLICY_YAML[n] \subseteq 1 .. 4
        BY <1>4
      <3>2. policyFlow.slides[2].tells.reveal = 4 /\ policyFlow.slides[1].tells.reveal = 0
        BY <1>3 DEF policyReads, Reads
      <3>3. policyFlow.slides[2].tells.highlight = 0 + 1 .. 4
        BY <1>3 DEF policyReads, Reads
      <3> HIDE DEF policyFlow
      <3> QED BY <3>1, <3>2, <3>3 DEF TreeFollowsYaml, Bright
    <2>3. TreeFollowsYaml(policyFlow, 3)
      <3>1. LET shown == policyFlow.slides[3].focus \cup policyFlow.slides[3].links
            IN \A n \in shown \cap DOMAIN POLICY_YAML : POLICY_YAML[n] \subseteq 1 .. 7
        BY <1>4
      <3>2. policyFlow.slides[3].tells.reveal = 7 /\ policyFlow.slides[2].tells.reveal = 4
        BY <1>3 DEF policyReads, Reads
      <3>3. policyFlow.slides[3].tells.highlight = 4 + 1 .. 7
        BY <1>3 DEF policyReads, Reads
      <3> HIDE DEF policyFlow
      <3> QED BY <3>1, <3>2, <3>3 DEF TreeFollowsYaml, Bright
    <2>4. TreeFollowsYaml(policyFlow, 4)
      <3>1. LET shown == policyFlow.slides[4].focus \cup policyFlow.slides[4].links
            IN \A n \in shown \cap DOMAIN POLICY_YAML : POLICY_YAML[n] \subseteq 1 .. 8
        BY <1>4
      <3>2. policyFlow.slides[4].tells.reveal = 8 /\ policyFlow.slides[3].tells.reveal = 7
        BY <1>3 DEF policyReads, Reads
      <3>3. policyFlow.slides[4].tells.highlight = 7 + 1 .. 8
        BY <1>3 DEF policyReads, Reads
      <3> HIDE DEF policyFlow
      <3> QED BY <3>1, <3>2, <3>3 DEF TreeFollowsYaml, Bright
    <2>5. TreeFollowsYaml(policyFlow, 5)
      <3>1. LET shown == policyFlow.slides[5].focus \cup policyFlow.slides[5].links
            IN \A n \in shown \cap DOMAIN POLICY_YAML : POLICY_YAML[n] \subseteq 1 .. 10
        BY <1>4
      <3>2. policyFlow.slides[5].tells.reveal = 10 /\ policyFlow.slides[4].tells.reveal = 8
        BY <1>3 DEF policyReads, Reads
      <3>3. policyFlow.slides[5].tells.highlight = 8 + 1 .. 10
        BY <1>3 DEF policyReads, Reads
      <3> HIDE DEF policyFlow
      <3> QED BY <3>1, <3>2, <3>3 DEF TreeFollowsYaml, Bright
    <2>6. TreeFollowsYaml(policyFlow, 6)
      <3>1. LET shown == policyFlow.slides[6].focus \cup policyFlow.slides[6].links
            IN \A n \in shown \cap DOMAIN POLICY_YAML : POLICY_YAML[n] \subseteq 1 .. 14
        BY <1>4
      <3>2. policyFlow.slides[6].tells.reveal = 14 /\ policyFlow.slides[5].tells.reveal = 10
        BY <1>3 DEF policyReads, Reads
      <3>3. policyFlow.slides[6].tells.highlight = 10 + 1 .. 14
        BY <1>3 DEF policyReads, Reads
      <3> HIDE DEF policyFlow
      <3> QED BY <3>1, <3>2, <3>3 DEF TreeFollowsYaml, Bright
    <2>7. TreeFollowsYaml(policyFlow, 7)
      <3>1. LET shown == policyFlow.slides[7].focus \cup policyFlow.slides[7].links
            IN \A n \in shown \cap DOMAIN POLICY_YAML : POLICY_YAML[n] \subseteq 1 .. 17
        BY <1>4
      <3>2. policyFlow.slides[7].tells.reveal = 17 /\ policyFlow.slides[6].tells.reveal = 14
        BY <1>3 DEF policyReads, Reads
      <3>3. policyFlow.slides[7].tells.highlight = 14 + 1 .. 17
        BY <1>3 DEF policyReads, Reads
      <3> HIDE DEF policyFlow
      <3> QED BY <3>1, <3>2, <3>3 DEF TreeFollowsYaml, Bright
    <2>8. TreeFollowsYaml(policyFlow, 8)
      <3>1. LET shown == policyFlow.slides[8].focus \cup policyFlow.slides[8].links
            IN \A n \in shown \cap DOMAIN POLICY_YAML : POLICY_YAML[n] \subseteq 1 .. 17
        BY <1>4
      <3>2. policyFlow.slides[8].tells.reveal = 17 /\ policyFlow.slides[7].tells.reveal = 17
        BY <1>3 DEF policyReads, Reads
      <3>3. policyFlow.slides[8].tells.highlight = 17 + 1 .. 17
        BY <1>3 DEF policyReads, Reads
      <3> HIDE DEF policyFlow
      <3> QED BY <3>1, <3>2, <3>3 DEF TreeFollowsYaml, Bright
    <2> QED BY <2>1, <2>2, <2>3, <2>4, <2>5, <2>6, <2>7, <2>8
  <1> HIDE DEF SlideFits, policyFlow
  <1> QED BY <1>1, <1>2, <1>5

(* Every deck that is registered is one of these nine.                     *)
LEMMA DecksAreSound ==
  ASSUME NEW p \in DOMAIN FlowsOf, NEW f \in 1 .. Len(FlowsOf[p]),
         NEW k \in 1 .. Len(FlowsOf[p][f].slides)
  PROVE  SoundAt(FlowsOf[p][f], k)
  <1>1. ASSUME NEW deck, DiagramSound(deck), NEW n \in 1 .. Len(deck.slides)  PROVE SoundAt(deck, n)
    BY <1>1 DEF DiagramSound, SlideFits, SoundAt
  <1>2. \A n \in 1 .. 8 : SoundAt(makeDual, n) /\ SoundAt(policyFlow, n)
    BY DualIsSound, PolicyIsSound DEF SlideFits, SoundAt
  <1>3. FlowsOf[p][f] \in {jwtFlow, iamFlow, policyFlow, ccpRetrieval, ccpRotation, makeDual,
                          cpRetrieval, cpRotation, swaFlow}
    BY DEF FlowsOf
  <1> QED BY <1>1, <1>2, <1>3, JwtFits, IamFits, CcpRetrievalFits, CcpRotationFits,
             CpRetrievalFits, CpRotationFits, SwaFits, DualIsSound, PolicyIsSound

(* The player is at one of the slides of one of the decks.                *)
LEMMA SoundOnDisplay == TypeOK => SlideSound
  <1> SUFFICES ASSUME TypeOK PROVE SlideSound
    OBVIOUS
  <1> DEFINE deck == FlowsOf[provider][flow]
  <1>1. provider \in DOMAIN FlowsOf /\ flow \in 1 .. Len(FlowsOf[provider])
    BY SlideFacts, FlowsAssumption DEF Flows
  <1>2. Last(flow) = Len(deck.slides) - 1 /\ Len(deck.slides) \in Nat
    <2>1. flow \in Flows /\ provider \in Providers
      BY SlideFacts
    <2>2. Decks[provider][flow] = Len(deck.slides) /\ Last(flow) \in Nat
      BY <2>1, SlideFacts, FlowsAssumption DEF Flows
    <2>3. Decks[provider][flow] \in Nat
      BY <2>1, DecksAssumption DEF Flows
    <2> QED BY <2>2, <2>3 DEF Last
  <1>3. i + 1 \in 1 .. Len(deck.slides)
    <2> HIDE DEF deck
    <2>1. i \in 0 .. Len(deck.slides) - 1
      BY <1>2, SlideFacts
    <2> QED BY <1>2, <2>1
  <1> QED BY <1>1, <1>3, DecksAreSound DEF SlideSound

(* Whatever is clicked, wherever timer, rendering and effects have got to, *)
(* the slide on display names nothing that the diagram would drop, joins   *)
(* what is lit, never resets the password of an account in use and shows   *)
(* nothing of the tree before its lines of policy.yml.                     *)
THEOREM SlidesAreSound == Spec => []SlideSound
  BY Invariance, SoundOnDisplay, PTL DEF IInv

=============================================================================
