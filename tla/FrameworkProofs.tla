-------------------------- MODULE FrameworkProofs ---------------------------
(***************************************************************************)
(* The widgets of System/ui/framework.py.  The scrolling window of         *)
(* VerticalList, for lists and screens of every size, and that it          *)
(* implements ListChoice.  LongText: the text is edited at its end only,   *)
(* and it is cleared only by a C that is held, for all characters and      *)
(* times.                                                                  *)
(***************************************************************************)
EXTENDS VerticalList, LongText, TLAPS

-----------------------------------------------------------------------------
(* The list.                                                               *)

\* The window moves only when the highlight passes its edge: that needs to
\* know where both are.
ListInv == ListTypeOK /\ SelectionVisible /\ NoBlankLines

LEMMA ListInvInit == ListInit => ListInv
  BY VerticalListAssumption
  DEF ListInit, ListInv, ListTypeOK, SelectionVisible, NoBlankLines, Showing

\* A key moves the highlight and the window together, or returns an item.
LEMMA ListInvKey ==
    ASSUME ListInv, NEW key \in Keys, KeyPressed(key)
    PROVE  ListInv'
<1> USE VerticalListAssumption DEF ListInv, ListTypeOK, SelectionVisible, NoBlankLines
<1>1. CASE Down /\ UNCHANGED returned
  BY <1>1 DEF Down
<1>2. CASE Up /\ UNCHANGED returned
  BY <1>2 DEF Up
<1>3. CASE /\ UNCHANGED <<selected_index, window_start>>
           /\ \/ Shortcut(key) /\ returned' = key - 2
              \/ returned' \in {selected_index, -1}
  BY <1>3 DEF Shortcut
<1> QED
  BY <1>1, <1>2, <1>3 DEF KeyPressed

LEMMA ListInvNext == ListInv /\ [ListNext]_listVars => ListInv'
<1> SUFFICES ASSUME ListInv, [ListNext]_listVars PROVE ListInv'
  OBVIOUS
<1>1. CASE \E key \in Keys : KeyPressed(key)
  BY <1>1, ListInvKey
<1>2. CASE ShowAgain
  BY <1>2 DEF ShowAgain, ListInv, ListTypeOK, SelectionVisible, NoBlankLines
<1>3. CASE UNCHANGED listVars
  BY <1>3 DEF listVars, ListInv, ListTypeOK, SelectionVisible, NoBlankLines
<1> QED
  BY <1>1, <1>2, <1>3 DEF ListNext

LEMMA ListInvHolds == ListSpec => []ListInv
  BY ListInvInit, ListInvNext, PTL DEF ListSpec

\* The highlight and the window stay inside the list, and show() returns an
\* item of it or -1, for every length of the list.
THEOREM ListTypeCorrect == ListSpec => []ListTypeOK
  BY ListInvHolds, PTL DEF ListInv

\* What Enter would pick is on the screen, for every screen height.
THEOREM SelectionAlwaysVisible == ListSpec => []SelectionVisible
  BY ListInvHolds, PTL DEF ListInv

\* The window never scrolls past the end of the list.
THEOREM NeverBlankLines == ListSpec => []NoBlankLines
  BY ListInvHolds, PTL DEF ListInv

\* Each step of show() is a step of the abstract choice: callers may forget the
\* window.
THEOREM ListImplementsChoice == ListSpec => ImplementsChoice
<1>1. ListInit => Choice!Init
  BY DEF ListInit, Choice!Init, Showing, Choice!Open
<1>2. ListInv /\ [ListNext]_listVars => [Choice!Next]_(Choice!choice)
  <2> SUFFICES ASSUME ListInv, [ListNext]_listVars
               PROVE  Choice!Next \/ UNCHANGED Choice!choice
    OBVIOUS
  <2> USE DEF ListInv, ListTypeOK, Showing, Choice!Open, Choice!Back, Choice!Item, Choice!choice
  <2>1. ASSUME NEW key \in Keys, KeyPressed(key)
        PROVE  Choice!Move \/ Choice!Return
    <3>1. CASE UNCHANGED returned /\ (Down \/ Up)
      BY <2>1, <3>1, VerticalListAssumption DEF KeyPressed, Down, Up, Choice!Move
    <3>2. CASE /\ UNCHANGED <<selected_index, window_start>>
               /\ \/ Shortcut(key) /\ returned' = key - 2
                  \/ returned' \in {selected_index, -1}
      BY <2>1, <3>2, VerticalListAssumption DEF KeyPressed, Shortcut, Choice!Return
    <3> QED
      BY <2>1, <3>1, <3>2 DEF KeyPressed
  <2>2. CASE ShowAgain
    BY <2>2 DEF ShowAgain, Choice!ShowAgain, Choice!Next
  <2>3. CASE UNCHANGED listVars
    BY <2>3 DEF listVars
  <2> QED
    BY <2>1, <2>2, <2>3 DEF ListNext, Choice!Next
<1> QED
  BY <1>1, <1>2, ListInvHolds, PTL DEF ListSpec, ImplementsChoice, Choice!Spec

-----------------------------------------------------------------------------
(* The editor.                                                             *)

\* The code's counters are about the user's series while it is not broken: that
\* is what makes IsHeld mean that C is held.
SeriesIsCounted ==
    /\ gap > Gap => streak = 0
    /\ hold # None => count >= 1
    /\ hold # None /\ gap <= Gap => count = streak /\ hold = span

Inv == TypeOK /\ CapitalStartsText /\ SeriesIsCounted

\* Slicing at the end of the text, where the cursor is.
LEMMA SliceAtEnd ==
    ASSUME NEW S, text \in Seq(S)
    PROVE  /\ Before(Len(text)) = text
           /\ After(Len(text)) = <<>>
           /\ text # <<>> => Before(Len(text) - 1) = SubSeq(text, 1, Len(text) - 1)
  BY DEF Before, After

\* A letter is typed at the end.
LEMMA TypeAppends ==
    ASSUME Inv, NEW l \in Letters, TypeLetter(l)
    PROVE  text' = Append(text, [letter |-> l, capital |-> text = <<>>])
<1>1. text \in Seq(Chars) /\ cursor = Len(text)
  BY DEF Inv, TypeOK, CapitalStartsText
<1>2. text' = text \o <<[letter |-> l, capital |-> text = <<>>]>> \o <<>>
  BY <1>1, SliceAtEnd DEF TypeLetter
<1> QED
  BY <1>1, <1>2

\* A letter is erased at the end.
LEMMA EraseTakesLast ==
    ASSUME Inv, text # <<>>, EraseLetter
    PROVE  /\ text' = SubSeq(text, 1, Len(text) - 1)
           /\ cursor' = Len(text) - 1
<1>1. text \in Seq(Chars) /\ cursor = Len(text) /\ cursor > 0
  BY DEF Inv, TypeOK, CapitalStartsText
<1>2. text' = SubSeq(text, 1, Len(text) - 1) \o <<>>
  BY <1>1, SliceAtEnd DEF EraseLetter
<1> QED
  BY <1>1, <1>2 DEF EraseLetter

\* Erasing keeps the text well formed.
LEMMA EraseKeeps ==
    ASSUME Inv, text # <<>>, EraseLetter
    PROVE  /\ text' \in Seq(Chars)
           /\ cursor' \in Nat
           /\ gap' = 0
           /\ CapitalStartsText'
           /\ Len(text) - Len(text') = 1
<1>1. text \in Seq(Chars) /\ cursor = Len(text)
      /\ \A i \in 1..Len(text) : text[i].capital <=> i = 1
  BY DEF Inv, TypeOK, CapitalStartsText
<1>2. text' = SubSeq(text, 1, Len(text) - 1) /\ cursor' = Len(text) - 1 /\ gap' = 0
  BY EraseTakesLast DEF EraseLetter
<1>3. /\ text' \in Seq(Chars)
      /\ Len(text') = Len(text) - 1
      /\ \A i \in 1..Len(text') : text'[i] = text[i]
  BY <1>1, <1>2
<1> QED
  BY <1>1, <1>2, <1>3 DEF CapitalStartsText

LEMMA InitInv == Init => Inv
  BY LongTextAssumption
  DEF Init, Inv, TypeOK, CapitalStartsText, SeriesIsCounted, None

LEMMA StepInv == Inv /\ [Next]_vars => Inv'
<1> SUFFICES ASSUME Inv, [Next]_vars PROVE Inv'
  OBVIOUS
<1> USE LongTextAssumption DEF SeriesIsCounted, None, history
<1>0. TypeOK /\ SeriesIsCounted /\ CapitalStartsText
  BY DEF Inv
<1>1. ASSUME NEW l \in Letters, TypeLetter(l) PROVE Inv'
  <2> DEFINE c == [letter |-> l, capital |-> text = <<>>]
  <2>1. text' = Append(text, c) /\ c \in Chars
    BY <1>1, TypeAppends DEF Chars
  <2>2. text \in Seq(Chars) /\ cursor = Len(text) /\ cursor' = cursor + 1
        /\ \A i \in 1..Len(text) : text[i].capital <=> i = 1
    BY <1>0, <1>1 DEF TypeOK, CapitalStartsText, TypeLetter
  <2>3. c.capital <=> Len(text) = 0
    <3>1. text = <<>> <=> Len(text) = 0
      BY <2>2
    <3>2. c.capital <=> text = <<>>
      BY ZenonT(20)
    <3> QED
      BY <3>1, <3>2, ZenonT(20)
  <2>4. /\ text' \in Seq(Chars) /\ Len(text') = Len(text) + 1
        /\ \A i \in 1..Len(text) : text'[i] = text[i]
        /\ text'[Len(text) + 1] = c
    BY <2>1, <2>2
  <2>5. CapitalStartsText'
    BY <2>2, <2>3, <2>4 DEF CapitalStartsText
  <2> QED
    BY <1>0, <1>1, <2>2, <2>4, <2>5 DEF Inv, TypeOK, TypeLetter
<1>2. CASE FirstBack
  BY <1>0, <1>2, EraseKeeps DEF Inv, TypeOK, FirstBack, Pressed
<1>3. CASE NextBack
  BY <1>0, <1>3, EraseKeeps DEF Inv, TypeOK, NextBack, Pressed
<1>4. CASE HeldBack
  BY <1>0, <1>4 DEF Inv, TypeOK, CapitalStartsText, HeldBack
<1>5. CASE LeaveEditor
  BY <1>0, <1>5 DEF Inv, TypeOK, CapitalStartsText, LeaveEditor
<1>6. CASE Tick
  BY <1>0, <1>6 DEF Inv, TypeOK, CapitalStartsText, Tick, Least
<1>7. CASE UNCHANGED vars
  BY <1>0, <1>7 DEF Inv, TypeOK, CapitalStartsText, vars
<1> QED
  BY <1>1, <1>2, <1>3, <1>4, <1>5, <1>6, <1>7 DEF Next, Back

THEOREM InvHolds == Spec => []Inv
  BY InitInv, StepInv, PTL DEF Spec

-----------------------------------------------------------------------------
\* Type correctness of the editor: its cursor and counters are numbers.
THEOREM LongTextTypeCorrect == Spec => []TypeOK
  BY InvHolds, PTL DEF Inv

\* Whatever is typed and erased, the cursor is at the end of the text, and the
\* text has its capital at the start only (TextInputLong.handle_key).
THEOREM CapitalAlwaysStartsText == Spec => []CapitalStartsText
  BY InvHolds, PTL DEF Inv

\* A text of more than a character is cleared by no C but one that has been
\* held: pressed Repeats times without a pause, for Duration.
THEOREM ClearedOnlyWhenHeld == Spec => ClearsOnlyWhenHeld
<1>1. Inv /\ [Next]_vars => [Len(text) - Len(text') > 1
                                => streak + 1 >= Repeats /\ span >= Duration]_vars
  <2> SUFFICES ASSUME Inv, [Next]_vars, ~UNCHANGED vars, Len(text) - Len(text') > 1
               PROVE  streak + 1 >= Repeats /\ span >= Duration
    OBVIOUS
  <2>0. text \in Seq(Chars) /\ SeriesIsCounted
    BY DEF Inv, TypeOK
  <2>1. ASSUME NEW l \in Letters, TypeLetter(l) PROVE FALSE
    <3>1. \E c : text' = Append(text, c)
      BY <2>1, TypeAppends
    <3>2. Len(text') = Len(text) + 1 /\ Len(text) \in Nat
      BY <2>0, <3>1
    <3> QED
      BY <3>2
  <2>2. CASE FirstBack
    BY <2>2, EraseKeeps DEF FirstBack
  <2>3. CASE NextBack
    BY <2>3, EraseKeeps DEF NextBack
  <2>4. CASE HeldBack
    BY <2>0, <2>4 DEF HeldBack, IsHeld, SeriesIsCounted
  <2>5. CASE LeaveEditor \/ Tick
    BY <2>0, <2>5 DEF LeaveEditor, Tick
  <2> QED
    BY <2>1, <2>2, <2>3, <2>4, <2>5 DEF Next, Back
<1> QED
  BY <1>1, InvHolds, PTL DEF Spec, ClearsOnlyWhenHeld

\* The editor implements Draft: the slices at the cursor add and take at the end
\* of the text, so the write screen of Messages may be modelled with Draft.
THEOREM LongTextImplementsDraft == Spec => ImplementsDraft
<1>1. Init => Draft!Init
  BY DEF Init, Draft!Init
<1>2. Inv /\ [Next]_vars => [Draft!Next]_text
  <2> SUFFICES ASSUME Inv, [Next]_vars PROVE Draft!Next \/ UNCHANGED text
    OBVIOUS
  <2>1. ASSUME NEW l \in Letters, TypeLetter(l) PROVE Draft!Next
    <3> DEFINE c == [letter |-> l, capital |-> text = <<>>]
    <3>1. c \in Chars /\ Draft!Type(c)
      BY <2>1, TypeAppends DEF Chars, Draft!Type
    <3> QED
      BY <3>1 DEF Draft!Next
  <2>2. CASE FirstBack
    BY <2>2, EraseTakesLast DEF FirstBack, Draft!Next, Draft!EraseLast
  <2>3. CASE NextBack
    BY <2>3, EraseTakesLast DEF NextBack, Draft!Next, Draft!EraseLast
  <2>4. CASE HeldBack
    BY <2>4 DEF HeldBack, Draft!Next, Draft!Clear
  <2>5. CASE LeaveEditor \/ Tick \/ UNCHANGED vars
    BY <2>5 DEF LeaveEditor, Tick, vars
  <2> QED
    BY <2>1, <2>2, <2>3, <2>4, <2>5 DEF Next, Back
<1> QED
  BY <1>1, <1>2, InvHolds, PTL DEF Spec, ImplementsDraft, Draft!Spec
=============================================================================
