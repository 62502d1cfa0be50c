----------------------------- MODULE Walkthrough -----------------------------
(***************************************************************************)
(* The player of "Learn how it works" (Walkthrough.tsx): which flow and    *)
(* which slide are shown, and the timer that goes on to the next.          *)
(*                                                                         *)
(* Two effects depend on what was rendered: one owns the timer, one the    *)
(* keyboard.  A click or a key is rendered, and its effects run, before    *)
(* anything else; the timer's update is rendered a task later and its      *)
(* effects a task after that, so that input may come in between: a button  *)
(* then acts on the slide that is on display, a key on the slide that the  *)
(* keyboard effect last saw.                                               *)
(***************************************************************************)
EXTENDS Integers, Sequences

CONSTANTS
  Providers,    \* the pages
  Decks         \* Decks[p]: number of slides of each flow of provider p

ASSUME DecksAssumption ==
  /\ Decks \in [Providers -> Seq(Nat \ {0})]
  /\ \A p \in Providers : Decks[p] # <<>>

VARIABLES
  provider,   \* fixed by the address of the page
  open,       \* the walkthrough is mounted
  flow,       \* the flow that is selected
  i,          \* the slide that is on display, from 0
  playing,
  timer,      \* a timer is armed
  due,        \* the timer has fired, its setI(s + 1) is not yet rendered
  pending,    \* it is rendered, the effects of that have not yet run
  seen        \* the slide that the listener for keys was made for

player == <<open, flow, i, playing, timer, due, pending, seen>>

Last(f) == Decks[provider][f] - 1
Flows == 1 .. Len(Decks[provider])

Closed == /\ open = FALSE /\ flow = 1 /\ i = 0 /\ playing = FALSE
          /\ timer = FALSE /\ due = FALSE /\ pending = FALSE /\ seen = 0

(* Mounting starts at the first slide of the first flow, unmounting clears *)
(* the timer and removes the listener; the state is gone with it.          *)
SetOpen(o) ==
  /\ open' = o /\ flow' = 1 /\ i' = 0 /\ playing' = FALSE
  /\ timer' = FALSE /\ due' = FALSE /\ pending' = FALSE /\ seen' = 0

(* A handler asks for slide n of flow f, playing or not.  Effects that are *)
(* pending run first, and what they ask for is asked after the handler;    *)
(* then the effects of the new rendering run.  At the last slide they stop *)
(* the player.  `d': an update of the timer is still to be rendered.       *)
Settle(f, n, p, d) ==
  LET plays == p /\ ~(pending /\ playing /\ i = Last(flow)) /\ n < Last(f)
  IN /\ flow' = f /\ i' = n /\ due' = d /\ seen' = n /\ pending' = FALSE
     /\ playing' = plays /\ timer' = plays
     /\ UNCHANGED <<provider, open>>

Atmost(a, b) == IF a < b THEN a ELSE b
Atleast(a, b) == IF a > b THEN a ELSE b

-----------------------------------------------------------------------------
TimerFires ==
  /\ timer /\ ~due /\ ~pending
  /\ timer' = FALSE /\ due' = TRUE
  /\ UNCHANGED <<provider, open, flow, i, playing, pending, seen>>

(* The rendering of setI(s + 1).                                           *)
Render ==
  /\ due
  /\ i' = i + 1 /\ due' = FALSE /\ pending' = TRUE
  /\ UNCHANGED <<provider, open, flow, playing, timer, seen>>

(* slip: the effect does not stop the player at the last slide             *)
EffectsRunOn ==
  /\ pending
  /\ pending' = FALSE /\ seen' = i
  /\ timer' = (playing /\ i < Last(flow))
  /\ UNCHANGED <<provider, open, flow, i, playing, due>>

Effects ==
  /\ pending
  /\ pending' = FALSE /\ seen' = i
  /\ timer' = (playing /\ i < Last(flow)) /\ playing' = timer'
  /\ UNCHANGED <<provider, open, flow, i, due>>

(* go(i - 1), go(i + 1): the buttons are disabled at the ends.             *)
GoBack == open /\ i # 0 /\ Settle(flow, i - 1, FALSE, FALSE)
GoNext == open /\ i # Last(flow) /\ Settle(flow, i + 1, FALSE, FALSE)

Restart == open /\ Settle(flow, 0, FALSE, FALSE)

TogglePlay ==
  /\ open
  /\ IF i = Last(flow) THEN Settle(flow, 0, TRUE, FALSE)
     ELSE Settle(flow, i, ~playing, due)

(* slip: the slide of the flow before is kept                              *)
SwitchFlowKeepsSlide(f) == open /\ f \in Flows /\ Settle(f, i, FALSE, FALSE)

SwitchFlow(f) == open /\ f \in Flows /\ Settle(f, 0, FALSE, FALSE)

KeyRight == open /\ Settle(flow, Atmost(Last(flow), seen + 1), FALSE, FALSE)
KeyLeft == open /\ Settle(flow, Atleast(0, seen - 1), FALSE, FALSE)

KeySpace ==
  /\ open
  /\ IF seen >= Last(flow) THEN Settle(flow, 0, TRUE, FALSE)
     ELSE Settle(flow, i, ~playing, due)

Input ==
  \/ GoBack \/ GoNext \/ Restart \/ TogglePlay \/ KeyRight \/ KeyLeft \/ KeySpace
  \/ \E f \in Flows : SwitchFlow(f)

(* Timers fire and React renders and runs its effects.                     *)
Goes == TimerFires \/ Render \/ Effects

-----------------------------------------------------------------------------
(* The player's part of the type invariant.  The slide on display is one   *)
(* of the flow (the code takes flow.steps[i]! on trust), also after a      *)
(* timer whose update is still to come; a timer is armed only while the    *)
(* player plays short of the last slide, and when nothing is under way it  *)
(* is armed then: a player that says it plays never stands still.          *)
PlayerOK ==
  /\ provider \in Providers
  /\ open \in BOOLEAN /\ playing \in BOOLEAN /\ timer \in BOOLEAN
  /\ due \in BOOLEAN /\ pending \in BOOLEAN
  /\ flow \in Flows
  /\ i \in 0 .. Last(flow) /\ seen \in 0 .. Last(flow)
  /\ due => i < Last(flow) /\ ~pending
  /\ timer => playing /\ (pending \/ i < Last(flow))
  /\ playing => open /\ (timer \/ due \/ pending)
  /\ ~open => ~due /\ ~pending

=============================================================================
