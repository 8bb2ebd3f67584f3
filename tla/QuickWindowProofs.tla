-------------------------- MODULE QuickWindowProofs --------------------------
(***************************************************************************)
(* The invariants of QuickWindow, for any set of window properties and of  *)
(* values and any number of changes and shows.                             *)
(***************************************************************************)
EXTENDS QuickWindow, TLAPS

\* What waits is what was asked for last of a slot that was asked for while the
\* window was hidden, and a surface always knows the members.
WindowInv ==
    /\ asked \in [Slots -> Values \cup {Unset}]
    /\ pending \in [Waiting -> Values \cup {Unset}]
    /\ surface \in [Slots -> Values \cup {Unset}]
    /\ askedHidden \subseteq Waiting
    /\ visible => exists
    /\ ~exists => surface = Nothing
    /\ \A s \in askedHidden : asked[s] # Unset => pending[s] = asked[s]
    /\ exists => \A s \in Members : surface[s] = asked[s]
    /\ AskedHiddenIsShown

\* The kinds of slots are disjoint.
LEMMA SlotFacts ==
    /\ Waiting \subseteq Slots /\ Members \subseteq Slots
    /\ Waiting \cap Members = {}
    /\ Addon \in Waiting
  BY SlotsAssumption DEF Slots, Waiting, Members

LEMMA InitWindow == Init => WindowInv
  BY SlotFacts DEF Init, WindowInv, Nothing, AskedHiddenIsShown

LEMMA SetStep ==
    ASSUME WindowInv, NEW slot \in Waiting, NEW value \in Values \cup {Unset},
           Set(slot, value)
    PROVE  WindowInv'
<1> USE SlotFacts DEF WindowInv
<1>1. CASE exists /\ visible
  <2>1. /\ surface' = [surface EXCEPT ![slot] = value]
        /\ asked' = [asked EXCEPT ![slot] = value]
        /\ askedHidden' = askedHidden \ {slot}
        /\ UNCHANGED << pending, visible, exists >>
    BY <1>1 DEF Set, Asks
  <2>2. AskedHiddenIsShown'
    BY <1>1, <2>1 DEF AskedHiddenIsShown
  <2> QED
    BY <1>1, <2>1, <2>2
<1>2. CASE ~(exists /\ visible)
  <2>1. /\ pending' = [pending EXCEPT ![slot] = value]
        /\ asked' = [asked EXCEPT ![slot] = value]
        /\ askedHidden' = askedHidden \cup {slot}
        /\ ~visible
        /\ UNCHANGED << surface, visible, exists >>
    BY <1>2 DEF Set, Asks
  <2>2. AskedHiddenIsShown'
    BY <2>1 DEF AskedHiddenIsShown
  <2> QED
    BY <2>1, <2>2
<1> QED
  BY <1>1, <1>2

LEMMA ResetStep == WindowInv /\ ResetAddon => WindowInv'
<1> SUFFICES ASSUME WindowInv, ResetAddon PROVE WindowInv'
  OBVIOUS
<1> USE SlotFacts DEF WindowInv
<1>1. /\ asked' = [asked EXCEPT ![Addon] = Unset]
      /\ askedHidden' \subseteq askedHidden \cup {Addon}
      /\ UNCHANGED << visible, exists >>
  BY DEF ResetAddon, Asks
<1>2. CASE exists
  <2>1. /\ surface' = [surface EXCEPT ![Addon] = Unset]
        /\ pending' = [pending EXCEPT ![Addon] = Unset]
    BY <1>2 DEF ResetAddon
  <2>2. AskedHiddenIsShown'
    BY <1>1, <2>1 DEF AskedHiddenIsShown
  <2> QED
    BY <1>1, <1>2, <2>1, <2>2
<1>3. CASE ~exists
  <2>1. UNCHANGED << surface, pending >>
    BY <1>3 DEF ResetAddon
  <2>2. AskedHiddenIsShown'
    BY <1>1, <1>3 DEF AskedHiddenIsShown
  <2> QED
    BY <1>1, <1>3, <2>1, <2>2
<1> QED
  BY <1>2, <1>3

LEMMA MemberStep ==
    ASSUME WindowInv, NEW slot \in Members, NEW value \in Values \cup {Unset},
           SetMember(slot, value)
    PROVE  WindowInv'
<1> USE SlotFacts DEF WindowInv
<1>1. /\ asked' = [asked EXCEPT ![slot] = value]
      /\ UNCHANGED << visible, pending, exists, askedHidden >>
  BY DEF SetMember
<1>2. CASE exists
  <2>1. surface' = [surface EXCEPT ![slot] = value]
    BY <1>2 DEF SetMember
  <2>2. AskedHiddenIsShown'
    BY <1>1, <2>1 DEF AskedHiddenIsShown
  <2> QED
    BY <1>1, <1>2, <2>1, <2>2
<1>3. CASE ~exists
  <2>1. surface' = surface
    BY <1>3 DEF SetMember
  <2>2. AskedHiddenIsShown'
    BY <1>1, <1>3 DEF AskedHiddenIsShown
  <2> QED
    BY <1>1, <1>3, <2>1, <2>2
<1> QED
  BY <1>2, <1>3

LEMMA ShowStep == WindowInv /\ Show => WindowInv'
<1> SUFFICES ASSUME WindowInv, Show PROVE WindowInv'
  OBVIOUS
<1> USE SlotFacts DEF WindowInv
<1>1. surface' = Told(surface)
  BY DEF Show
<1>2. surface' = [s \in Slots |-> IF s \in Waiting
                    THEN IF pending[s] = Unset THEN surface[s] ELSE pending[s]
                    ELSE IF asked[s] = Unset THEN surface[s] ELSE asked[s]]
  BY <1>1 DEF Told
<1>3. \A s \in Waiting : pending[s] # Unset => surface'[s] = pending[s]
  BY <1>2
<1>4. \A s \in Members : surface'[s] = asked[s]
  <2> SUFFICES ASSUME NEW s \in Members PROVE surface'[s] = asked[s]
    OBVIOUS
  <2>1. asked[s] # Unset => surface'[s] = asked[s]
    BY <1>2
  <2>2. asked[s] = Unset => surface'[s] = surface[s]
    BY <1>2
  <2>3. exists => surface[s] = asked[s]
    OBVIOUS
  <2>4. ~exists => surface[s] = Unset
    BY DEF Nothing
  <2> QED
    BY <2>1, <2>2, <2>3, <2>4
<1>5. surface' \in [Slots -> Values \cup {Unset}]
  BY <1>2
<1>6. UNCHANGED << asked, pending, askedHidden >> /\ exists' = TRUE /\ visible' = TRUE
  BY DEF Show
<1>7. AskedHiddenIsShown'
  BY <1>3, <1>6 DEF AskedHiddenIsShown
<1> QED
  BY <1>4, <1>5, <1>6, <1>7

LEMMA HideStep == WindowInv /\ Hide => WindowInv'
  BY SlotFacts DEF WindowInv, Hide, Nothing, AskedHiddenIsShown

LEMMA WindowStep == WindowInv /\ [Next]_vars => WindowInv'
<1>1. WindowInv /\ UNCHANGED vars => WindowInv'
  BY DEF WindowInv, vars, AskedHiddenIsShown
<1> QED
  BY <1>1, SetStep, ResetStep, MemberStep, ShowStep, HideStep DEF Next

----------------------------------------------------------------------------
\* What was asked for while the window was hidden is shown, whichever surface the
\* platform gives it (webosquickwindow.cpp:390-438).
THEOREM HiddenChangesAreShown == Spec => []AskedHiddenIsShown
<1>1. WindowInv => AskedHiddenIsShown
  BY DEF WindowInv
<1> QED
  BY <1>1, InitWindow, WindowStep, PTL DEF Spec

\* The shown surface has the key mask and the input region asked for last
\* (webosquickwindow.cpp:416-424, 440-469).
THEOREM MembersAlwaysShown == Spec => []MembersAreShown
<1>1. WindowInv => MembersAreShown
  BY DEF WindowInv, MembersAreShown
<1> QED
  BY <1>1, InitWindow, WindowStep, PTL DEF Spec

\* Type correctness (the members in webosquickwindow.h:206-217).
THEOREM WindowTypeCorrect == Spec => []WindowTypeOK
<1> DEFINE Booleans == visible \in BOOLEAN /\ exists \in BOOLEAN
           Counters == changes \in 0 .. MaxChanges /\ shows \in 0 .. MaxShows
<1>1. Init => Booleans /\ Counters
  <2>1. Init => Booleans
    BY Zenon DEF Init
  <2>2. Init => Counters
    BY BoundsAssumption DEF Init
  <2> QED
    BY <2>1, <2>2
<1>2. Booleans /\ [Next]_vars => Booleans'
  <2> SUFFICES ASSUME Booleans, [Next]_vars PROVE Booleans'
    OBVIOUS
  <2>1. CASE UNCHANGED << visible, exists >>
    BY <2>1
  <2>2. CASE Show
    BY <2>2 DEF Show
  <2>3. CASE Hide
    <3>1. visible' = FALSE /\ (exists' = exists \/ exists' = FALSE)
      BY <2>3 DEF Hide
    <3> QED
      BY <3>1
  <2> QED
    BY <2>1, <2>2, <2>3 DEF Next, Set, ResetAddon, SetMember, vars
<1>3. Counters /\ [Next]_vars => Counters'
  BY BoundsAssumption DEF Next, Set, ResetAddon, SetMember, Show, Hide, vars, Changes
<1>4. WindowInv /\ Booleans /\ Counters => WindowTypeOK
  BY DEF WindowInv, WindowTypeOK
<1> QED
  BY <1>1, <1>2, <1>3, <1>4, InitWindow, WindowStep, PTL DEF Spec
=============================================================================
