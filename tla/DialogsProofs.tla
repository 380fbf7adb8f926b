--------------------------- MODULE DialogsProofs ---------------------------
(***************************************************************************)
(* menuconfig's boxes, each by itself and then together.  By itself a box  *)
(* is shown right after any keys, calls and changes of the terminal's      *)
(* size, for all lists and texts.  Together: whatever conf() and the boxes *)
(* do, each of them only sees steps of its own, because what a menu keeps  *)
(* is gone before another box opens and the calls pass what the boxes      *)
(* expect (DialogsInv).  So what is proved of a box alone holds in         *)
(* menuconfig.                                                             *)
(***************************************************************************)
EXTENDS Dialogs, WellFoundedInduction, TLAPS

-----------------------------------------------------------------------------
(* The menu (Menubox).                                                     *)
(* The inductive invariant is the types and HighlightInside: where a       *)
(* resize puts the highlight depends on where it was.                      *)

Results == [code : -3..10, entry : Entries \cup {NoEntry}]

MenuTypeOK ==
    /\ stdscr \in Sizes
    /\ items \in Seq(Entries)
    /\ active \in Entries \cup {NoEntry}
    /\ s_scroll \in Nat /\ scroll \in Nat /\ choice \in Nat /\ first_item \in Nat
    /\ button \in Buttons
    /\ result \in Results

\* The highlight is on a line of the window and the window inside the list,
\* whatever position was saved for another list and however often the
\* terminal changes its size.
HighlightInside ==
    result = Open =>
      /\ scroll >= 0 /\ scroll + max_choice <= item_count
      /\ choice >= 0 /\ (choice < max_choice \/ (item_count = 0 /\ choice = 0))

MenuInv == MenuTypeOK /\ (result = Open => stdscr >= MenuMin) /\ HighlightInside

\* The order of the numbers is well founded.
LEMMA NatLess == IsWellFoundedOn({p \in Nat \X Nat : p[1] < p[2]}, Nat)
<1>1. {p \in Nat \X Nat : p[1] < p[2]} = OpToRel(<, Nat) BY DEF OpToRel
<1> QED BY <1>1, NatLessThanWellFounded

\* A set of numbers has a smallest one.
LEMMA SmallestNat ==
    ASSUME NEW S \in SUBSET Nat, S # {}
    PROVE  \E i \in S : \A j \in S : i <= j
<1> DEFINE R == {p \in Nat \X Nat : p[1] < p[2]}
<1>1. IsWellFoundedOn(R, Nat) BY NatLess
<1>2. \E i \in S : \A j \in S : ~ (<<j, i>> \in R)
  <2> HIDE DEF R
  <2> QED BY <1>1, WFMin
<1>3. PICK i \in S : \A j \in S : ~ (<<j, i>> \in R) BY <1>2
<1>4. \A j \in S : ~ (j < i) BY <1>3
<1> QED BY <1>3, <1>4

\* A menu that is shown has room for one entry at least.
LEMMA Room ==
    ASSUME NEW size \in Sizes, NEW its \in Seq(Entries), size >= MenuMin
    PROVE  /\ MaxChoice(size, its) \in Nat /\ MaxChoice(size, its) <= Len(its)
           /\ MaxChoice(size, its) = 0 => Len(its) = 0
BY MenuboxAssumption DEF MaxChoice, Least

\* The position a menu is shown with: the entry at is under the highlight,
\* the highlight in the window and the window inside the list.
GoodPlace(p, at, m, n, first) ==
    \E s, c, f \in Nat :
       /\ p = [scroll |-> s, choice |-> c, first |-> f]
       /\ s + c = at
       /\ s + m <= n
       /\ c < m \/ (n = 0 /\ c = 0)
       /\ f = s \/ (f = first /\ s = 0)

LEMMA PlacedInside ==
    ASSUME NEW at \in Nat, NEW saved \in Nat, NEW m \in Nat, NEW n \in Nat, NEW first \in Nat,
           m <= n, m = 0 => n = 0, at < n \/ (n = 0 /\ at = 0)
    PROVE  GoodPlace(Placed(at, saved, m, n, first), at, m, n, first)
<1> DEFINE p == Placed(at, saved, m, n, first)
<1>1. CASE SavedFits(saved, at, m, n)
  <2>1. p = [scroll |-> saved, choice |-> at - saved, first |-> saved]
    BY <1>1 DEF Placed
  <2>2. at - saved \in Nat /\ at - saved < m /\ saved + m <= n BY <1>1 DEF SavedFits
  <2> QED BY <2>1, <2>2 DEF GoodPlace
<1>2. CASE ~SavedFits(saved, at, m, n) /\ at >= m
  <2>1. p = [scroll |-> Centred(at, m, n), choice |-> at - Centred(at, m, n),
             first |-> Centred(at, m, n)]
    BY <1>2 DEF Placed
  <2>2. /\ Centred(at, m, n) \in Nat /\ Centred(at, m, n) + m <= n
        /\ at - Centred(at, m, n) \in Nat
        /\ at - Centred(at, m, n) < m \/ (n = 0 /\ at - Centred(at, m, n) = 0)
    BY <1>2 DEF Centred
  <2> DEFINE s == Centred(at, m, n)
  <2> HIDE DEF p
  <2>3. /\ p = [scroll |-> s, choice |-> at - s, first |-> s]
        /\ s \in Nat /\ at - s \in Nat /\ s + (at - s) = at
        /\ s + m <= n /\ (at - s < m \/ (n = 0 /\ at - s = 0))
    BY <2>1, <2>2
  <2> HIDE DEF s
  <2> QED BY <2>3 DEF p, GoodPlace
<1>3. CASE ~SavedFits(saved, at, m, n) /\ ~(at >= m)
  <2>1. p = [scroll |-> 0, choice |-> at, first |-> first]
    BY <1>3 DEF Placed
  <2> QED BY <1>3, <2>1 DEF GoodPlace
<1> QED BY <1>1, <1>2, <1>3

\* The entry to start on is in the list: the wanted one, if it is there.
LEMMA DefaultInside ==
    ASSUME NEW its \in Seq(Entries), NEW data, NEW c \in Nat,
           c < Len(its) \/ c = 0
    PROVE  /\ Default(data, its, c) \in Nat
           /\ Default(data, its, c) < Len(its) \/ (Len(its) = 0 /\ Default(data, its, c) = 0)
           /\ Found(data, its) # {} => Default(data, its, c) \in Found(data, its)
           /\ Found(data, its) = {} => Default(data, its, c) = c
<1>1. CASE Found(data, its) = {}
  <2>1. Default(data, its, c) = c BY <1>1 DEF Default
  <2> QED BY <1>1, <2>1
<1>2. CASE Found(data, its) # {}
  <2>1. Default(data, its, c) \in Found(data, its) BY <1>2 DEF Default
  <2>2. Found(data, its) \subseteq 0..(Len(its) - 1) BY DEF Found
  <2> QED BY <1>2, <2>1, <2>2
<1> QED BY <1>1, <1>2

\* Showing the menu keeps the invariant's parts, and only a stale first_item
\* can make it print what is not there.
LEMMA ShowInside ==
    ASSUME NEW size \in Sizes, NEW its \in Seq(Entries), NEW data, NEW saved \in Nat,
           NEW c \in Nat, NEW first \in Nat, size >= MenuMin,
           c < Len(its) \/ c = 0,
           Show(size, its, data, saved, c, first)
    PROVE  /\ scroll' \in Nat /\ choice' \in Nat /\ first_item' \in Nat
           /\ result' \in {Open, Dead}
           /\ scroll' + MaxChoice(size, its) <= Len(its)
           /\ choice' < MaxChoice(size, its) \/ (Len(its) = 0 /\ choice' = 0)
           /\ scroll' + choice' = Default(data, its, c)
           /\ first = 0 =>
                /\ result' = Open
                /\ window' = [i \in 0..(MaxChoice(size, its) - 1) |->
                                [entry |-> its[scroll' + i + 1], lit |-> i = choice']]
<1>1. PICK m, at : m = MaxChoice(size, its) /\ at = Default(data, its, c)
  OBVIOUS
<1>2. m \in Nat /\ m <= Len(its) /\ (m = 0 => Len(its) = 0) BY <1>1, Room
<1>3. at \in Nat /\ (at < Len(its) \/ (Len(its) = 0 /\ at = 0)) BY <1>1, DefaultInside
<1>4. PICK ps, pc, pf \in Nat :
        /\ Placed(at, saved, m, Len(its), first) = [scroll |-> ps, choice |-> pc, first |-> pf]
        /\ ps + pc = at
        /\ ps + m <= Len(its)
        /\ pc < m \/ (Len(its) = 0 /\ pc = 0)
        /\ pf = ps \/ (pf = first /\ ps = 0)
  <2>1. Len(its) \in Nat OBVIOUS
  <2>2. GoodPlace(Placed(at, saved, m, Len(its), first), at, m, Len(its), first)
    BY <2>1, <1>2, <1>3, PlacedInside
  <2> QED BY <2>2 DEF GoodPlace
<1>5. /\ scroll' = ps /\ choice' = pc /\ first_item' = pf
      /\ IF pf + m > Len(its)
         THEN result' = Dead /\ window' = <<>>
         ELSE /\ result' = Open
              /\ window' = [i \in 0..(m - 1) |-> [entry |-> its[pf + i + 1], lit |-> i = pc]]
  BY <1>1, <1>4 DEF Show
<1>6. result' \in {Open, Dead} BY <1>5
<1>7. ASSUME first = 0
      PROVE  /\ result' = Open
             /\ window' = [i \in 0..(m - 1) |-> [entry |-> its[scroll' + i + 1],
                                                 lit |-> i = choice']]
  <2>1. pf = ps BY <1>4, <1>7
  <2>2. ~(pf + m > Len(its)) BY <2>1, <1>4, <1>2
  <2> QED BY <2>1, <2>2, <1>5
<1> QED BY <1>1, <1>4, <1>5, <1>6, <1>7

\* A move of the highlight inside the window, and of the window inside the list.
Inside(s, c) == /\ s \in Nat /\ c \in Nat
                /\ s + max_choice <= item_count
                /\ c < max_choice \/ item_count = 0

LEMMA MoveInside ==
    ASSUME MenuInv, NEW k, NEW s, NEW c, Inside(s, c), MoveTo(k, s, c)
    PROVE  MenuInv'
<1>1. result = Open /\ result' = Open BY DEF MoveTo
<1>2. MenuTypeOK' BY DEF MoveTo, MenuInv, MenuTypeOK, Inside
<1>3. HighlightInside' BY DEF MoveTo, Inside, HighlightInside, max_choice, item_count
<1>4. stdscr' >= MenuMin BY <1>1 DEF MoveTo, MenuInv
<1> QED BY <1>2, <1>3, <1>4 DEF MenuInv

\* Each key moves to such a place, and by what it promises.
LEMMA KeysInside ==
    ASSUME MenuInv, result = Open, item_count # 0
    PROVE  /\ max_choice \in Nat \ {0} /\ item_count \in Nat /\ scroll \in Nat /\ choice \in Nat
           /\ Inside(scroll, choice)
<1>1. stdscr \in Sizes /\ items \in Seq(Entries) /\ stdscr >= MenuMin /\ scroll \in Nat /\ choice \in Nat
  BY DEF MenuInv, MenuTypeOK
<1>2. max_choice \in Nat /\ (max_choice = 0 => item_count = 0)
  BY <1>1, Room DEF max_choice, item_count
<1> QED BY <1>1, <1>2 DEF MenuInv, HighlightInside, Inside, item_count

LEMMA UpMoves ==
    ASSUME MenuInv, KeyUp
    PROVE  \E s, c : /\ MoveTo("up", s, c) /\ Inside(s, c)
                     /\ s + c = IF scroll + choice > 0 THEN scroll + choice - 1 ELSE 0
<1>1. result = Open /\ item_count # 0 BY DEF KeyUp, MoveTo
<1>2. /\ max_choice \in Nat \ {0} /\ item_count \in Nat /\ scroll \in Nat /\ choice \in Nat
      /\ scroll + max_choice <= item_count /\ choice < max_choice
  BY <1>1, KeysInside DEF Inside
<1>3. CASE choice < 2 /\ scroll > 0
  <2>1. MoveTo("up", scroll - 1, choice) BY <1>3 DEF KeyUp
  <2>2. Inside(scroll - 1, choice) BY <1>2, <1>3 DEF Inside
  <2> QED BY <2>1, <2>2, <1>2, <1>3
<1>4. CASE ~(choice < 2 /\ scroll > 0)
  <2>1. MoveTo("up", scroll, Greatest(choice - 1, 0)) BY <1>4 DEF KeyUp
  <2>2. Inside(scroll, Greatest(choice - 1, 0)) BY <1>2 DEF Inside, Greatest
  <2>3. scroll + Greatest(choice - 1, 0) = IF scroll + choice > 0 THEN scroll + choice - 1 ELSE 0
    BY <1>2, <1>4 DEF Greatest
  <2> QED BY <2>1, <2>2, <2>3
<1> QED BY <1>3, <1>4

LEMMA DownMoves ==
    ASSUME MenuInv, KeyDown
    PROVE  \E s, c : /\ MoveTo("down", s, c) /\ Inside(s, c)
                     /\ s + c = IF scroll + choice < item_count - 1 THEN scroll + choice + 1
                                                                   ELSE scroll + choice
<1>1. result = Open /\ item_count # 0 BY DEF KeyDown, MoveTo
<1>2. /\ max_choice \in Nat \ {0} /\ item_count \in Nat /\ scroll \in Nat /\ choice \in Nat
      /\ scroll + max_choice <= item_count /\ choice < max_choice
  BY <1>1, KeysInside DEF Inside
<1>3. CASE choice > max_choice - 3 /\ scroll + max_choice < item_count
  <2>1. MoveTo("down", scroll + 1, choice) BY <1>3 DEF KeyDown
  <2>2. Inside(scroll + 1, choice) BY <1>2, <1>3 DEF Inside
  <2> QED BY <2>1, <2>2, <1>2, <1>3
<1>4. CASE ~(choice > max_choice - 3 /\ scroll + max_choice < item_count)
  <2>1. MoveTo("down", scroll, Least(choice + 1, max_choice - 1)) BY <1>4 DEF KeyDown
  <2>2. Inside(scroll, Least(choice + 1, max_choice - 1)) BY <1>2 DEF Inside, Least
  <2>3. scroll + Least(choice + 1, max_choice - 1)
          = IF scroll + choice < item_count - 1 THEN scroll + choice + 1 ELSE scroll + choice
    BY <1>2, <1>4 DEF Least
  <2> QED BY <2>1, <2>2, <2>3
<1> QED BY <1>3, <1>4

LEMMA PageUpMoves ==
    ASSUME MenuInv, KeyPageUp
    PROVE  \E s, c : /\ MoveTo("ppage", s, c) /\ Inside(s, c)
                     /\ s + c = IF scroll + choice > max_choice THEN scroll + choice - max_choice
                                                                ELSE 0
<1>1. result = Open /\ item_count # 0 BY DEF KeyPageUp, MoveTo
<1>2. /\ max_choice \in Nat \ {0} /\ item_count \in Nat /\ scroll \in Nat /\ choice \in Nat
      /\ scroll + max_choice <= item_count /\ choice < max_choice
  BY <1>1, KeysInside DEF Inside
<1> DEFINE n == Least(max_choice, scroll)
<1>3. n \in Nat /\ n <= scroll /\ n <= max_choice /\ (n = scroll \/ n = max_choice)
  BY <1>2 DEF Least
<1>4. MoveTo("ppage", scroll - n, Greatest(choice - (max_choice - n), 0)) BY DEF KeyPageUp
<1> HIDE DEF n
<1>5. Inside(scroll - n, Greatest(choice - (max_choice - n), 0))
  BY <1>2, <1>3 DEF Inside, Greatest
<1>6. (scroll - n) + Greatest(choice - (max_choice - n), 0)
        = IF scroll + choice > max_choice THEN scroll + choice - max_choice ELSE 0
  BY <1>2, <1>3 DEF Greatest
<1> QED BY <1>4, <1>5, <1>6

LEMMA PageDownMoves ==
    ASSUME MenuInv, KeyPageDown
    PROVE  \E s, c : /\ MoveTo("npage", s, c) /\ Inside(s, c)
                     /\ s + c = IF scroll + choice + max_choice < item_count
                                THEN scroll + choice + max_choice ELSE item_count - 1
<1>1. result = Open /\ item_count # 0 BY DEF KeyPageDown, MoveTo
<1>2. /\ max_choice \in Nat \ {0} /\ item_count \in Nat /\ scroll \in Nat /\ choice \in Nat
      /\ scroll + max_choice <= item_count /\ choice < max_choice
  BY <1>1, KeysInside DEF Inside
<1> DEFINE n == Least(max_choice, item_count - max_choice - scroll)
           c == Least(choice + (max_choice - n), max_choice - 1)
<1>3. /\ n \in Nat /\ n <= max_choice /\ scroll + max_choice + n <= item_count
      /\ n = max_choice \/ scroll + max_choice + n = item_count
  BY <1>2 DEF Least
<1>4. MoveTo("npage", scroll + n, c) BY DEF KeyPageDown
<1> HIDE DEF n
<1>5. Inside(scroll + n, c) BY <1>2, <1>3 DEF Inside, Least
<1>6. (scroll + n) + c = IF scroll + choice + max_choice < item_count
                         THEN scroll + choice + max_choice ELSE item_count - 1
  BY <1>2, <1>3 DEF Least
<1> QED BY <1>4, <1>5, <1>6

LEMMA HotKeyMoves ==
    ASSUME MenuInv, NEW k, HotKey(k)
    PROVE  \E s, c : /\ MoveTo(k, s, c) /\ Inside(s, c)
                     /\ s + c \in 0..(item_count - 1) /\ Letter[items[s + c + 1]] = k
<1> DEFINE below == {i \in Hits(k) : i > choice}
           S == IF below # {} THEN below ELSE Hits(k)
           c == First(S)
<1>1. result = Open /\ item_count # 0 /\ Hits(k) # {} /\ MoveTo(k, scroll, c) BY DEF HotKey, MoveTo
<1>2. /\ max_choice \in Nat \ {0} /\ item_count \in Nat /\ scroll \in Nat
      /\ scroll + max_choice <= item_count
  BY <1>1, KeysInside DEF Inside
<1>3. S # {} /\ S \subseteq Hits(k) BY <1>1
<1>4. Hits(k) \subseteq 0..(max_choice - 1) BY DEF Hits
<1>5. \E i \in S : \A j \in S : i <= j
  <2>1. S \subseteq Nat /\ S # {} BY <1>3, <1>4, <1>2
  <2> HIDE DEF S
  <2> QED BY <2>1, SmallestNat
<1>6. c \in S BY <1>5 DEF First
<1>7. c \in 0..(max_choice - 1) /\ Letter[items[scroll + c + 1]] = k
  BY <1>6, <1>3, <1>4 DEF Hits, item
<1> HIDE DEF c
<1>8. Inside(scroll, c) /\ scroll + c \in 0..(item_count - 1) BY <1>2, <1>7 DEF Inside
<1> QED BY <1>1, <1>7, <1>8

-----------------------------------------------------------------------------
(* The invariant.                                                          *)

\* Every key that moves the highlight keeps it inside.
LEMMA MovesKeepInv ==
    ASSUME MenuInv,
           KeyUp \/ KeyDown \/ KeyPageUp \/ KeyPageDown \/ \E e \in Entries : HotKey(Letter[e])
    PROVE  MenuInv'
<1>1. \E k, s, c : MoveTo(k, s, c) /\ Inside(s, c)
  BY UpMoves, DownMoves, PageUpMoves, PageDownMoves, HotKeyMoves
<1> QED BY <1>1, MoveInside

\* The menu is called and shown, or refused.
LEMMA CallKeepsInv ==
    ASSUME MenuInv, NEW size \in Sizes, NEW its \in Seq(Entries),
           NEW data \in Entries \cup {NoEntry}, NEW saved \in Nat,
           dialog_menu(size, its, data, saved)
    PROVE  MenuInv' /\ result' \in {Open, Left}
<1>1. /\ stdscr' = size /\ items' = its /\ active' = data /\ s_scroll' = saved /\ button' = 0
  BY DEF dialog_menu
<1>2. size \in Nat /\ MenuMin \in Nat BY MenuboxAssumption
<1>3. Open \in Results /\ Left \in Results /\ Dead \in Results /\ Left # Open /\ Dead # Open
  BY DEF Open, Left, Dead, Results
<1>4. CASE size < MenuMin
  <2>1. result' = Left /\ scroll' = 0 /\ choice' = 0 /\ first_item' = 0
    BY <1>4 DEF dialog_menu
  <2>2. MenuTypeOK' BY <1>1, <1>3, <2>1 DEF MenuTypeOK, Buttons
  <2> QED BY <2>1, <2>2, <1>3 DEF MenuInv, HighlightInside
<1>5. CASE ~(size < MenuMin)
  <2>1. Show(size, its, data, saved, 0, 0) /\ size >= MenuMin
    BY <1>5, <1>2 DEF dialog_menu
  <2>2. /\ scroll' \in Nat /\ choice' \in Nat /\ first_item' \in Nat
        /\ scroll' + MaxChoice(size, its) <= Len(its)
        /\ choice' < MaxChoice(size, its) \/ (Len(its) = 0 /\ choice' = 0)
        /\ result' = Open
    BY <2>1, ShowInside
  <2>3. MenuTypeOK' BY <1>1, <1>3, <2>2 DEF MenuTypeOK, Buttons
  <2>4. HighlightInside' BY <1>1, <2>2 DEF HighlightInside, max_choice, item_count
  <2> QED BY <2>1, <2>2, <2>3, <2>4, <1>1 DEF MenuInv
<1> QED BY <1>4, <1>5

\* A change of the terminal's size: the highlight is somewhere in the list.
LEMMA ResizeKeepsInv ==
    ASSUME MenuInv, NEW size \in Sizes, KeyResize(size)
    PROVE  /\ MenuInv'
           /\ size < MenuMin => result' = Left /\ scroll' = scroll /\ choice' = choice
           /\ ~(size < MenuMin) =>
                /\ result' \in {Open, Dead}
                /\ scroll' + choice' = Default(active, items, choice)
<1>1. /\ stdscr' = size /\ items' = items /\ active' = active /\ s_scroll' = s_scroll
      /\ button' = button /\ result = Open
  BY DEF KeyResize
<1>2. size \in Nat /\ MenuMin \in Nat BY MenuboxAssumption
<1>3. Open \in Results /\ Left \in Results /\ Dead \in Results /\ Left # Open /\ Dead # Open
  BY DEF Open, Left, Dead, Results
<1>4. /\ items \in Seq(Entries) /\ s_scroll \in Nat /\ scroll \in Nat /\ choice \in Nat
      /\ first_item \in Nat /\ active \in Entries \cup {NoEntry} /\ button \in Buttons
  BY DEF MenuInv, MenuTypeOK
<1>5. CASE size < MenuMin
  <2>1. result' = Left /\ scroll' = scroll /\ choice' = choice /\ first_item' = first_item
    BY <1>5 DEF KeyResize
  <2>2. MenuTypeOK' BY <1>1, <1>3, <1>4, <2>1 DEF MenuTypeOK
  <2> QED BY <2>1, <2>2, <1>3, <1>5 DEF MenuInv, HighlightInside
<1>6. CASE ~(size < MenuMin)
  <2>1. Show(size, items, active, s_scroll, choice, first_item) /\ size >= MenuMin
    BY <1>6, <1>2 DEF KeyResize
  <2>2. choice < Len(items) \/ choice = 0
    <3>1. stdscr \in Sizes /\ stdscr >= MenuMin BY <1>1 DEF MenuInv, MenuTypeOK
    <3>2. max_choice <= item_count /\ max_choice \in Nat
      BY <3>1, <1>4, Room DEF max_choice, item_count
    <3>3. choice < max_choice \/ choice = 0 BY <1>1 DEF MenuInv, HighlightInside
    <3> QED BY <3>2, <3>3, <1>4 DEF item_count
  <2>3. /\ scroll' \in Nat /\ choice' \in Nat /\ first_item' \in Nat
        /\ scroll' + MaxChoice(size, items) <= Len(items)
        /\ choice' < MaxChoice(size, items) \/ (Len(items) = 0 /\ choice' = 0)
        /\ result' \in {Open, Dead}
        /\ scroll' + choice' = Default(active, items, choice)
    BY <2>1, <2>2, <1>4, ShowInside
  <2>4. MenuTypeOK' BY <1>1, <1>3, <1>4, <2>3 DEF MenuTypeOK
  <2>5. HighlightInside' BY <1>1, <2>3 DEF HighlightInside, max_choice, item_count
  <2> QED BY <2>1, <2>3, <2>4, <2>5, <1>1, <1>6 DEF MenuInv
<1> QED BY <1>5, <1>6

\* An answer names the entry under the highlight.
LEMMA AnswerIsUnder ==
    ASSUME MenuInv, NEW k \in ReturnKeys, ReturnKey(k)
    PROVE  /\ result' = [code |-> Code(k),
                         entry |-> IF items = <<>> THEN NoEntry ELSE items[scroll + choice + 1]]
           /\ Code(k) \in 0..10
           /\ result' \in Results /\ result' # Open
<1>1. result = Open /\ items \in Seq(Entries) /\ button \in Buttons
      /\ result' = [code |-> Code(k),
                    entry |-> IF item_count = 0 THEN NoEntry ELSE item(scroll + choice)]
  BY DEF ReturnKey, MenuInv, MenuTypeOK
<1>2. Code(k) \in 0..10
  <2>1. CASE k = "enter"
    <3>1. Code(k) = button BY <2>1 DEF Code
    <3> QED BY <1>1, <3>1 DEF Buttons
  <2>2. CASE k # "enter"
    <3>1. Code(k) \in {2, 5, 6, 7, 8, 9, 10} BY <2>2 DEF Code, ReturnKeys
    <3> QED BY <3>1
  <2> QED BY <2>1, <2>2
<1>3. items = <<>> \/ (item_count # 0 /\ items[scroll + choice + 1] \in Entries)
  <2>1. CASE item_count = 0 BY <1>1, <2>1 DEF item_count
  <2>2. CASE item_count # 0
    <3>1. /\ max_choice \in Nat \ {0} /\ item_count \in Nat /\ scroll \in Nat /\ choice \in Nat
          /\ scroll + max_choice <= item_count /\ choice < max_choice
      BY <1>1, <2>2, KeysInside DEF Inside
    <3>2. scroll + choice + 1 \in 1..Len(items) BY <3>1 DEF item_count
    <3> QED BY <1>1, <2>2, <3>2
  <2> QED BY <2>1, <2>2
<1>4. result' = [code |-> Code(k),
                 entry |-> IF items = <<>> THEN NoEntry ELSE items[scroll + choice + 1]]
  BY <1>1, <1>3 DEF item_count, item
<1> QED BY <1>2, <1>3, <1>4 DEF Results, Open

\* The steps that leave the position alone, and the return to the caller.
LEMMA RestKeepsInv ==
    ASSUME MenuInv,
           \/ \E k \in {"left", "right"} : ButtonKey(k)
           \/ \E k \in ReturnKeys : ReturnKey(k)
           \/ Escape
           \/ MenuGone /\ stdscr' \in Sizes
           \/ UNCHANGED menuVars
    PROVE  MenuInv'
<1> USE DEF HighlightInside, max_choice, item_count
<1>1. ASSUME NEW k \in {"left", "right"}, ButtonKey(k) PROVE MenuInv'
  BY <1>1 DEF ButtonKey, MenuInv, MenuTypeOK, Buttons
<1>2. ASSUME NEW k \in ReturnKeys, ReturnKey(k) PROVE MenuInv'
  <2>1. result' \in Results /\ result' # Open BY <1>2, AnswerIsUnder
  <2>2. MenuTypeOK' BY <1>2, <2>1 DEF ReturnKey, MenuInv, MenuTypeOK
  <2> QED BY <2>1, <2>2 DEF MenuInv
<1>3. Left \in Results /\ Left # Open BY DEF Left, Open, Results
<1>4. CASE Escape
  <2>1. MenuTypeOK' BY <1>3, <1>4 DEF Escape, MenuInv, MenuTypeOK
  <2> QED BY <1>3, <1>4, <2>1 DEF Escape, MenuInv
<1>5. CASE MenuGone /\ stdscr' \in Sizes
  <2>1. MenuTypeOK' BY <1>3, <1>5 DEF MenuGone, MenuTypeOK, Buttons
  <2> QED BY <1>3, <1>5, <2>1 DEF MenuGone, MenuInv
<1>6. CASE UNCHANGED menuVars BY <1>6 DEF menuVars, MenuInv, MenuTypeOK
<1> QED BY <1>1, <1>2, <1>4, <1>5, <1>6

LEMMA MenuInvInit == MenuInit => MenuInv
<1>1. Left \in Results /\ Left # Open BY DEF Left, Open, Results
<1>2. MenuInit => MenuTypeOK BY <1>1 DEF MenuInit, MenuTypeOK, Buttons
<1> QED BY <1>1, <1>2 DEF MenuInit, MenuInv, HighlightInside

LEMMA MenuInvNext == MenuInv /\ [MenuNext]_menuVars => MenuInv'
  BY MovesKeepInv, RestKeepsInv, ResizeKeepsInv, CallKeepsInv DEF MenuNext, MenuKey

LEMMA MenuInvHolds == MenuSpec => []MenuInv
  BY MenuInvInit, MenuInvNext, PTL DEF MenuSpec

\* The highlight is on a line of the window and the window inside the list,
\* whatever the list, the terminal and what was saved from another list.
THEOREM HighlightStaysInside == MenuSpec => []HighlightInside
  BY MenuInvHolds, PTL DEF MenuInv

-----------------------------------------------------------------------------
(* The lines on the screen.                                                *)

\* What the window shows when it is scrolled to s and line c is lit.
Shown(s, c) ==
    [i \in 0..(max_choice - 1) |-> [entry |-> item(s + i), lit |-> i = c]]

\* Two or three lines are printed, and the whole window is right again.
LEMMA RepaintedIsShown ==
    ASSUME max_choice \in Nat, scroll \in Nat, choice \in 0..(max_choice - 1),
           NEW s \in Nat, NEW c \in 0..(max_choice - 1),
           window = Shown(scroll, choice)
    PROVE  Repainted(s, c) = Shown(s, c)
<1> DEFINE D == 0..(max_choice - 1)
           w1 == print_item(window, scroll, choice, FALSE)
           w2 == do_scroll(w1, scroll, s - scroll)
           w3 == print_item(w2, s, c, TRUE)
<1>1. w1 = [i \in D |-> [entry |-> item(scroll + i), lit |-> FALSE]]
  BY ZenonT(30) DEF print_item, Shown
<1>2. w2 = [i \in D |-> [entry |-> item(s + i), lit |-> FALSE]]
  <2>1. DOMAIN w1 = D BY <1>1
  <2> HIDE DEF w1
  <2>2. w2 = [i \in D |-> IF i + (s - scroll) \in D THEN w1[i + (s - scroll)]
                          ELSE [entry |-> item(scroll + (s - scroll) + i), lit |-> FALSE]]
    BY <2>1 DEF do_scroll
  <2>3. ASSUME NEW i \in D
        PROVE  /\ scroll + (s - scroll) + i = s + i
               /\ i + (s - scroll) \in D =>
                    w1[i + (s - scroll)] = [entry |-> item(s + i), lit |-> FALSE]
    <3>1. scroll + (i + (s - scroll)) = s + i /\ scroll + (s - scroll) + i = s + i
      BY <2>3
    <3> QED BY <3>1, <1>1
  <2> HIDE DEF w2, D
  <2> QED BY <2>2, <2>3
<1>3. w3 = Shown(s, c)
  <2> HIDE DEF w2
  <2> QED BY <1>2, ZenonT(30) DEF print_item, Shown
<1>4. Repainted(s, c) = w3 BY DEF Repainted
<1> QED BY <1>3, <1>4

LEMMA LinesNext == MenuInv /\ LinesShowTheItems /\ [MenuNext]_menuVars => LinesShowTheItems'
<1> SUFFICES ASSUME MenuInv, LinesShowTheItems, [MenuNext]_menuVars
             PROVE  LinesShowTheItems'
  OBVIOUS
<1>1. ASSUME NEW k, NEW s, NEW c, MoveTo(k, s, c), Inside(s, c)
      PROVE  LinesShowTheItems'
  <2>1. /\ result = Open /\ item_count # 0 /\ items' = items /\ stdscr' = stdscr
        /\ scroll' = s /\ choice' = c /\ window' = Repainted(s, c) /\ resized' = resized
    BY <1>1 DEF MoveTo
  <2>2. /\ max_choice \in Nat /\ scroll \in Nat /\ choice \in 0..(max_choice - 1)
        /\ s \in Nat /\ c \in 0..(max_choice - 1)
    BY <1>1, <2>1, KeysInside DEF Inside
  <2>3. CASE ~resized
    <3>1. window = Shown(scroll, choice) BY <2>1, <2>3 DEF LinesShowTheItems, Shown
    <3>2. window' = Shown(s, c) BY <2>1, <2>2, <3>1, RepaintedIsShown
    <3>3. window' = Shown(scroll, choice)'
      BY <2>1, <3>2 DEF Shown, max_choice, item
    <3> QED BY <3>3 DEF LinesShowTheItems, Shown
  <2>4. CASE resized BY <2>1, <2>4 DEF LinesShowTheItems
  <2> QED BY <2>3, <2>4
<1>2. CASE KeyUp \/ KeyDown \/ KeyPageUp \/ KeyPageDown \/ \E e \in Entries : HotKey(Letter[e])
  <2>1. \E k, s, c : MoveTo(k, s, c) /\ Inside(s, c)
    BY <1>2, UpMoves, DownMoves, PageUpMoves, PageDownMoves, HotKeyMoves
  <2> QED BY <2>1, <1>1
<1>3. ASSUME NEW k \in {"left", "right"}, ButtonKey(k) PROVE LinesShowTheItems'
  BY <1>3 DEF ButtonKey, LinesShowTheItems, max_choice, item
<1>4. ASSUME NEW k \in ReturnKeys, ReturnKey(k) PROVE LinesShowTheItems'
  BY <1>4, AnswerIsUnder DEF LinesShowTheItems
<1>5. CASE Escape \/ MenuGone
  BY <1>5 DEF Escape, MenuGone, LinesShowTheItems, Left, Open
<1>6. ASSUME NEW size \in Sizes, KeyResize(size) PROVE LinesShowTheItems'
  BY <1>6 DEF KeyResize, LinesShowTheItems
<1>7. ASSUME NEW size \in Sizes, NEW its \in Seq(Entries), NEW data \in Entries \cup {NoEntry},
             NEW saved \in Nat, dialog_menu(size, its, data, saved)
      PROVE  LinesShowTheItems'
  <2>1. stdscr' = size /\ items' = its BY <1>7 DEF dialog_menu
  <2>2. size \in Nat /\ MenuMin \in Nat BY MenuboxAssumption
  <2>3. CASE size < MenuMin
    BY <1>7, <2>3 DEF dialog_menu, LinesShowTheItems, Left, Open
  <2>4. CASE ~(size < MenuMin)
    <3>1. Show(size, its, data, saved, 0, 0) /\ size >= MenuMin
      BY <1>7, <2>2, <2>4 DEF dialog_menu
    <3>2. window' = [i \in 0..(MaxChoice(size, its) - 1) |->
                       [entry |-> its[scroll' + i + 1], lit |-> i = choice']]
      BY <3>1, ShowInside
    <3> QED BY <2>1, <3>2 DEF LinesShowTheItems, max_choice, item
  <2> QED BY <2>3, <2>4
<1>8. CASE UNCHANGED menuVars
  BY <1>8 DEF menuVars, LinesShowTheItems, max_choice, item
<1> QED BY <1>2, <1>3, <1>4, <1>5, <1>6, <1>7, <1>8 DEF MenuNext, MenuKey

\* What is on the screen is what the keys act on, until the terminal changes
\* its size.
THEOREM LinesAlwaysShowTheItems == MenuSpec => []LinesShowTheItems
<1>1. MenuInit => LinesShowTheItems BY DEF MenuInit, LinesShowTheItems, Left, Open
<1> QED BY <1>1, LinesNext, MenuInvHolds, PTL DEF MenuSpec

-----------------------------------------------------------------------------
(* The refinement: where the window is scrolled to does not matter.        *)

LEMMA CursorInit == MenuInit => Cursor!Init
  BY DEF Page, MenuInit, Cursor!Init, Cursor!Nothing, Cursor!Left, Left

\* A key that moves the highlight moves the cursor alike.
LEMMA MoveImplements ==
    ASSUME MenuInv,
           KeyUp \/ KeyDown \/ KeyPageUp \/ KeyPageDown \/ \E e \in Entries : HotKey(Letter[e])
    PROVE  Cursor!Move
<1>1. PICK k, s, c :
        /\ MoveTo(k, s, c) /\ Inside(s, c)
        /\ \/ k = "up" /\ s + c = IF scroll + choice > 0 THEN scroll + choice - 1 ELSE 0
           \/ k = "down" /\ s + c = IF scroll + choice < item_count - 1 THEN scroll + choice + 1
                                                                   ELSE scroll + choice
           \/ k = "ppage" /\ s + c = IF scroll + choice > max_choice
                                     THEN scroll + choice - max_choice ELSE 0
           \/ k = "npage" /\ s + c = IF scroll + choice + max_choice < item_count
                                     THEN scroll + choice + max_choice ELSE item_count - 1
           \/ s + c \in 0..(item_count - 1) /\ k = Letter[items[s + c + 1]]
  <2>1. CASE KeyUp BY <2>1, UpMoves
  <2>2. CASE KeyDown BY <2>2, DownMoves
  <2>3. CASE KeyPageUp BY <2>3, PageUpMoves
  <2>4. CASE KeyPageDown BY <2>4, PageDownMoves
  <2>5. ASSUME NEW e \in Entries, HotKey(Letter[e])
        PROVE  \E s, c : /\ MoveTo(Letter[e], s, c) /\ Inside(s, c)
                         /\ s + c \in 0..(item_count - 1) /\ Letter[e] = Letter[items[s + c + 1]]
    BY <2>5, HotKeyMoves
  <2> QED BY <2>1, <2>2, <2>3, <2>4, <2>5
<1>2. /\ result = Open /\ item_count # 0 /\ key' = k /\ scroll' = s /\ choice' = c
      /\ UNCHANGED <<stdscr, items, active, result>>
  BY <1>1 DEF MoveTo
<1>3. (scroll + choice)' = s + c BY <1>2
<1>4. items # <<>> BY <1>2 DEF item_count
<1>5. Page' = Page /\ Page = max_choice BY <1>2, <1>4 DEF Page, max_choice
<1>6. Cursor!Up \/ Cursor!Down \/ Cursor!PageUp \/ Cursor!PageDown \/ Cursor!Jump
  <2> USE <1>2, <1>3
  <2>0. /\ max_choice \in Nat /\ item_count \in Nat /\ scroll \in Nat /\ choice \in Nat
        /\ s \in Nat /\ c \in Nat /\ Page = max_choice
    BY <1>1, <1>5, KeysInside DEF Inside
  <2>1. CASE k = "up" /\ s + c = IF scroll + choice > 0 THEN scroll + choice - 1 ELSE 0
    BY <2>0, <2>1 DEF Cursor!Up
  <2>2. CASE k = "down" /\ s + c = IF scroll + choice < item_count - 1 THEN scroll + choice + 1
                                                                 ELSE scroll + choice
    BY <2>0, <2>2 DEF Cursor!Down, item_count
  <2>3. CASE k = "ppage" /\ s + c = IF scroll + choice > max_choice
                                    THEN scroll + choice - max_choice ELSE 0
    BY <2>0, <2>3 DEF Cursor!PageUp
  <2>4. CASE k = "npage" /\ s + c = IF scroll + choice + max_choice < item_count
                                    THEN scroll + choice + max_choice ELSE item_count - 1
    BY <2>0, <2>4 DEF Cursor!PageDown, item_count
  <2>5. CASE s + c \in 0..(item_count - 1) /\ k = Letter[items[s + c + 1]]
    BY <2>0, <2>5 DEF Cursor!Jump, item_count
  <2> QED BY <1>1, <2>1, <2>2, <2>3, <2>4, <2>5
<1> QED BY <1>2, <1>4, <1>5, <1>6 DEF Cursor!Move, Cursor!Open, Open, Page

\* Showing the menu puts the cursor on the wanted entry.
LEMMA ShowImplements ==
    ASSUME MenuInv, NEW size \in Sizes, NEW its \in Seq(Entries),
           NEW data \in Entries \cup {NoEntry}, NEW saved \in Nat,
           dialog_menu(size, its, data, saved)
    PROVE  Cursor!Show
<1>1. /\ result \notin {Open, Dead} /\ items' = its /\ active' = data /\ key' = "none"
  BY DEF dialog_menu
<1>2. size \in Nat /\ MenuMin \in Nat BY MenuboxAssumption
<1>3. CASE size < MenuMin
  <2>1. result' = Left /\ scroll' = 0 /\ choice' = 0 BY <1>3 DEF dialog_menu
  <2>2. (scroll + choice)' = 0 BY <2>1
  <2> QED BY <1>1, <2>1, <2>2
          DEF Cursor!Show, Cursor!Open, Cursor!Dead, Cursor!Left, Open, Dead, Left
<1>4. CASE ~(size < MenuMin)
  <2>1. Show(size, its, data, saved, 0, 0) /\ size >= MenuMin
    BY <1>2, <1>4 DEF dialog_menu
  <2>2. result' = Open /\ (scroll + choice)' = Default(data, its, 0)
    BY <2>1, ShowInside
  <2>3. Default(data, its, 0) \in IF Found(data, its) = {} THEN {0} ELSE Found(data, its)
    BY DefaultInside
  <2>4. Found(data, its) = Cursor!Places(data, its) BY DEF Found, Cursor!Places
  <2>5. (scroll + choice)' \in IF Cursor!Places(active', items') = {}
                               THEN {0} ELSE Cursor!Places(active', items')
    BY <2>2, <2>3, <2>4, <1>1
  <2> HIDE DEF Cursor!Places
  <2> QED BY <1>1, <2>2, <2>5 DEF Cursor!Show, Cursor!Open, Cursor!Dead, Open, Dead
<1> QED BY <1>3, <1>4

\* A change of the terminal's size: the cursor starts again, or the menu or
\* the program ends.
LEMMA ResizeImplements ==
    ASSUME MenuInv, NEW size \in Sizes, KeyResize(size)
    PROVE  Cursor!Move \/ Cursor!Leave
<1>1. result = Open /\ items' = items /\ active' = active /\ key' = "resize"
  BY DEF KeyResize
<1>2. items \in Seq(Entries) /\ choice \in Nat /\ scroll \in Nat
  BY DEF MenuInv, MenuTypeOK
<1>3. CASE size < MenuMin
  <2>1. result' = Left /\ scroll' = scroll /\ choice' = choice BY <1>3, ResizeKeepsInv
  <2> QED BY <1>1, <2>1 DEF Cursor!Leave, Cursor!Open, Cursor!Left, Open, Left
<1>4. CASE ~(size < MenuMin)
  <2>1. result' \in {Open, Dead} /\ (scroll + choice)' = Default(active, items, choice)
    BY <1>4, ResizeKeepsInv
  <2>2. choice < Len(items) \/ choice = 0
    <3>1. stdscr \in Sizes /\ stdscr >= MenuMin BY <1>1 DEF MenuInv, MenuTypeOK
    <3>2. max_choice <= item_count /\ max_choice \in Nat
      BY <3>1, <1>2, Room DEF max_choice, item_count
    <3>3. choice < max_choice \/ choice = 0 BY <1>1 DEF MenuInv, HighlightInside
    <3> QED BY <3>2, <3>3, <1>2 DEF item_count
  <2>3. Default(active, items, choice)
          \in IF Found(active, items) = {}
              THEN {0} \cup 0..(Len(items) - 1) ELSE Found(active, items)
    BY <1>2, <2>2, DefaultInside
  <2>4. Found(active, items) = Cursor!Places(active, items) BY DEF Found, Cursor!Places
  <2>5. Cursor!Resize BY <1>1, <2>1, <2>3, <2>4 DEF Cursor!Resize
  <2> QED BY <1>1, <2>1, <2>5
          DEF Cursor!Move, Cursor!Leave, Cursor!Open, Cursor!Dead, Open, Dead
<1> QED BY <1>3, <1>4

\* The rest: an answer, the escape, the return, and what the cursor does not see.
LEMMA RestImplements ==
    ASSUME MenuInv,
           \/ \E k \in {"left", "right"} : ButtonKey(k)
           \/ \E k \in ReturnKeys : ReturnKey(k)
           \/ Escape
           \/ MenuGone /\ stdscr' \in Sizes
           \/ UNCHANGED menuVars
    PROVE  Cursor!Next \/ UNCHANGED Cursor!cursorVars
<1> USE DEF max_choice, Page
<1>1. ASSUME NEW k \in {"left", "right"}, ButtonKey(k) PROVE UNCHANGED Cursor!cursorVars
  BY <1>1 DEF ButtonKey, Cursor!cursorVars
<1>2. ASSUME NEW k \in ReturnKeys, ReturnKey(k) PROVE Cursor!Answer
  <2>1. result = Open /\ UNCHANGED <<stdscr, items, active, scroll, choice, key>>
    BY <1>2 DEF ReturnKey
  <2>2. /\ Code(k) \in 0..10
        /\ result' = [code |-> Code(k), entry |-> Cursor!Under(items, scroll + choice)]
    BY <1>2, AnswerIsUnder DEF Cursor!Under
  <2> QED BY <2>1, <2>2 DEF Cursor!Answer, Cursor!Open, Open
<1>3. CASE Escape
  BY <1>3 DEF Escape, Cursor!Leave, Cursor!Next, Cursor!Open, Cursor!Left, Open, Left
<1>4. CASE MenuGone /\ stdscr' \in Sizes
  <2>1. (scroll + choice)' = 0 BY <1>4 DEF MenuGone
  <2> QED BY <1>4, <2>1 DEF MenuGone, Cursor!Seen, Cursor!Next, Cursor!Nothing, Cursor!Open,
                            Cursor!Dead, Cursor!Left, Open, Dead, Left
<1>5. CASE UNCHANGED menuVars BY <1>5 DEF menuVars, Cursor!cursorVars
<1> QED BY <1>1, <1>2, <1>3, <1>4, <1>5 DEF Cursor!Next

\* The scrolling menu is a cursor over its list: its callers may forget the
\* window, and what they saved of it for another list.
THEOREM MenuImplementsCursor == MenuSpec => ImplementsCursor
<1>1. MenuInv /\ [MenuNext]_menuVars => [Cursor!Next]_(Cursor!cursorVars)
  BY MoveImplements, ShowImplements, ResizeImplements, RestImplements
     DEF MenuNext, MenuKey, Cursor!Next
<1> QED BY <1>1, CursorInit, MenuInvHolds, PTL DEF MenuSpec, ImplementsCursor, Cursor!Spec

-----------------------------------------------------------------------------
(* The checklist (Checklist).                                              *)

\* The window lies inside the options and the highlight inside the window.
ListInside(s, c, n) ==
    LET lines == IF list_height < n THEN list_height ELSE n
    IN  /\ s \in Nat /\ c \in Nat /\ s + lines <= n
        /\ c < lines \/ (n = 0 /\ c = 0)

ListInv ==
    /\ options \in Seq(Option)
    /\ list_result = ListOpen => ListInside(list_scroll, list_choice, Len(options))
    /\ OptionsShown

\* The lines of the window with none of them lit.
Dark(s) == [i \in 0..(ListLines - 1) |-> [entry |-> option(s + i).data, lit |-> FALSE]]

\* A set of numbers below n has a largest one.
LEMMA LargestBelow ==
    ASSUME NEW n \in Nat, NEW S \in SUBSET (0..(n - 1)), S # {}
    PROVE  \E i \in S : \A j \in S : i >= j
<1> DEFINE R == {n - i : i \in S}
<1>1. R \in SUBSET Nat /\ R # {}
  <2>1. \A i \in S : n - i \in Nat OBVIOUS
  <2>2. PICK i \in S : TRUE OBVIOUS
  <2>3. n - i \in R BY <2>2
  <2> QED BY <2>1, <2>3
<1>2. PICK r \in R : \A q \in R : r <= q BY <1>1, SmallestNat
<1>3. PICK i \in S : r = n - i BY <1>2
<1>4. \A j \in S : n - i <= n - j BY <1>2, <1>3
<1> QED BY <1>3, <1>4

\* The option the list begins on is one of the options, if there are any.
LEMMA PreferredInside ==
    ASSUME NEW its \in Seq(Option), NEW data
    PROVE  Preferred(its, data) \in IF its = <<>> THEN {0} ELSE 0..(Len(its) - 1)
<1> DEFINE tagged == {i \in 0..(Len(its) - 1) : its[i + 1].x}
           looked_at == {i \in 0..(Len(its) - 1) : its[i + 1].data = data}
<1>1. CASE looked_at # {}
  <2>1. looked_at \in SUBSET Nat OBVIOUS
  <2>2. \E i \in looked_at : \A j \in looked_at : i <= j BY <1>1, <2>1, SmallestNat
  <2>3. Preferred(its, data) = CHOOSE i \in looked_at : \A j \in looked_at : i <= j
    BY <1>1 DEF Preferred
  <2>4. Preferred(its, data) \in looked_at BY <2>2, <2>3
  <2> QED BY <2>4
<1>2. CASE looked_at = {} /\ tagged # {}
  <2>1. tagged \in SUBSET (0..(Len(its) - 1)) /\ Len(its) \in Nat OBVIOUS
  <2> HIDE DEF tagged
  <2>2. \E i \in tagged : \A j \in tagged : i >= j BY <1>2, <2>1, LargestBelow
  <2>3. Preferred(its, data) = CHOOSE i \in tagged : \A j \in tagged : i >= j
    BY <1>2 DEF Preferred, tagged
  <2>4. Preferred(its, data) \in tagged BY <2>2, <2>3
  <2> QED BY <2>4 DEF tagged
<1>3. CASE looked_at = {} /\ tagged = {}
  <2>1. Preferred(its, data) = 0 BY <1>3 DEF Preferred
  <2> QED BY <2>1
<1> QED BY <1>1, <1>2, <1>3

\* The highlight is taken from a line, and put on one.
LEMMA PaintedDark ==
    ASSUME ListLines \in Nat, NEW s, NEW c \in 0..(ListLines - 1)
    PROVE  Paint(Drawn(options, s, c), s, c, FALSE) = Dark(s)
<1> DEFINE D == 0..(ListLines - 1)
<1>1. Drawn(options, s, c) = [i \in D |-> [entry |-> option(s + i).data, lit |-> i = c]]
  BY DEF Drawn, ListLines, option
<1> HIDE DEF D
<1> QED BY <1>1, ZenonT(30) DEF Paint, Dark, D

LEMMA PaintedLit ==
    ASSUME ListLines \in Nat, NEW s, NEW c \in 0..(ListLines - 1)
    PROVE  Paint(Dark(s), s, c, TRUE) = Drawn(options, s, c)
<1> DEFINE D == 0..(ListLines - 1)
<1>1. Drawn(options, s, c) = [i \in D |-> [entry |-> option(s + i).data, lit |-> i = c]]
  BY DEF Drawn, ListLines, option
<1> HIDE DEF D
<1> QED BY <1>1, ZenonT(30) DEF Paint, Dark, D

\* The lines move by one, and the line that comes in is printed: at the edge e.
LEMMA Scrolled ==
    ASSUME ListLines \in Nat \ {0}, list_height > 1 \/ ListLines = 1,
           NEW n \in Int, NEW e \in Int, (n = -1 /\ e = 0) \/ (n = 1 /\ e = ListLines - 1),
           NEW t \in Int, NEW w, list_height > 1 => w = Dark(t - n),
           ~(list_height > 1) => w = Drawn(options, t - n, e)
    PROVE  Paint(Wscrl(w, n), t, e, TRUE) = Drawn(options, t, e)
<1> DEFINE D == 0..(ListLines - 1)
           v == Wscrl(w, n)
           u == Paint(v, t, e, TRUE)
<1>0. PICK s \in Int : s = t - n /\ t = s + n OBVIOUS
<1>1. Drawn(options, t, e) = [i \in D |-> [entry |-> option(s + n + i).data, lit |-> i = e]]
  BY <1>0 DEF Drawn, ListLines, option
<1>2. DOMAIN w = D
  <2>1. DOMAIN Dark(s) = D BY DEF Dark
  <2>2. DOMAIN Drawn(options, s, e) = D BY DEF Drawn, ListLines
  <2> QED BY <1>0, <2>1, <2>2
<1>3. DOMAIN v = D BY <1>2 DEF Wscrl
<1>4. ASSUME NEW i \in D, i # e PROVE v[i] = [entry |-> option(s + n + i).data, lit |-> FALSE]
  <2>1. list_height > 1 BY <1>4
  <2>2. i + n \in D /\ s + (i + n) = s + n + i BY <1>4
  <2>3. v[i] = w[i + n] BY <1>2, <1>4, <2>1, <2>2 DEF Wscrl
  <2>4. w[i + n] = [entry |-> option(s + (i + n)).data, lit |-> FALSE]
    BY <1>0, <2>1, <2>2 DEF Dark
  <2> QED BY <2>2, <2>3, <2>4
<1>5. e \in D OBVIOUS
<1>6. u = [v EXCEPT ![e] = [entry |-> option(s + n + e).data, lit |-> TRUE]] BY <1>0 DEF Paint
<1>7. u = [i \in D |-> [entry |-> option(s + n + i).data, lit |-> i = e]]
  <2> HIDE DEF v, D
  <2>1. DOMAIN u = D /\ \A i \in D : u[i] = [entry |-> option(s + n + i).data, lit |-> i = e]
    BY <1>3, <1>4, <1>5, <1>6
  <2>2. u = [i \in DOMAIN u |-> u[i]]
    <3> HIDE DEF u
    <3> QED BY <1>6
  <2> HIDE DEF u
  <2> QED BY <2>1, <2>2
<1> QED BY <1>1, <1>7

LEMMA InsideLines ==
    ASSUME NEW s, NEW c
    PROVE  ListInside(s, c, Len(options)) <=>
             /\ s \in Nat /\ c \in Nat /\ s + ListLines <= Len(options)
             /\ c < ListLines \/ (Len(options) = 0 /\ c = 0)
  BY DEF ListInside, ListLines

\* The keys leave the window as do_resize would draw it.
LEMMA MovesDraw ==
    ASSUME ListInv, ListUp \/ ListDown \/ \E k : ListLetter(k)
    PROVE  /\ UNCHANGED <<options, list_result>>
           /\ ListInside(list_scroll', list_choice', Len(options))
           /\ list_window' = Drawn(options, list_scroll', list_choice')
<1> USE ChecklistAssumption
<1>1. list_result = ListOpen BY DEF ListUp, ListDown, ListLetter, ListTo, ListMove
<1>2. /\ ListLines \in Nat /\ ListLines <= Len(options) /\ ListLines <= list_height
      /\ Len(options) \in Nat /\ list_scroll \in Nat /\ list_choice \in Nat
      /\ ListInside(list_scroll, list_choice, Len(options))
      /\ list_scroll + ListLines <= Len(options)
      /\ list_choice \in 0..(ListLines - 1) \/ (Len(options) = 0 /\ list_choice = 0)
      /\ ListLines = 0 <=> Len(options) = 0
      /\ list_window = Drawn(options, list_scroll, list_choice)
  BY <1>1 DEF ListInv, ListInside, ListLines, OptionsShown
<1>3. ASSUME NEW i \in 0..(ListLines - 1), ListTo(i)
      PROVE  /\ UNCHANGED <<options, list_result>>
             /\ ListInside(list_scroll', list_choice', Len(options))
             /\ list_window' = Drawn(options, list_scroll', list_choice')
  <2>1. /\ UNCHANGED <<options, list_result>> /\ list_scroll' = list_scroll /\ list_choice' = i
        /\ list_window' = Paint(Paint(list_window, list_scroll, list_choice, FALSE),
                                list_scroll, i, TRUE)
    BY <1>3 DEF ListTo, ListMove
  <2>2. list_choice \in 0..(ListLines - 1) /\ i \in Nat /\ i < ListLines BY <1>2, <1>3
  <2>3. Paint(list_window, list_scroll, list_choice, FALSE) = Dark(list_scroll)
    BY <1>2, <2>2, PaintedDark
  <2>4. list_window' = Drawn(options, list_scroll, i)
    BY <1>2, <1>3, <2>1, <2>3, PaintedLit
  <2>5. ListInside(list_scroll, i, Len(options)) BY <1>2, <2>2, InsideLines
  <2> QED BY <2>1, <2>4, <2>5
<1>4. ASSUME NEW n \in {-1, 1}, NEW e, e = (IF n = -1 THEN 0 ELSE ListLines - 1),
             ListLines > 0, list_choice = e, list_scroll + n \in Nat,
             list_scroll + n + ListLines <= Len(options),
             NEW dark,
             dark = IF list_height > 1 THEN Paint(list_window, list_scroll, e, FALSE)
                    ELSE list_window,
             ListMove(list_scroll + n, e, Paint(Wscrl(dark, n), list_scroll + n, e, TRUE))
      PROVE  /\ UNCHANGED <<options, list_result>>
             /\ ListInside(list_scroll', list_choice', Len(options))
             /\ list_window' = Drawn(options, list_scroll', list_choice')
  <2>1. /\ UNCHANGED <<options, list_result>> /\ list_scroll' = list_scroll + n /\ list_choice' = e
        /\ list_window' = Paint(Wscrl(dark, n), list_scroll + n, e, TRUE)
    BY <1>4 DEF ListMove
  <2>2. dark = IF list_height > 1 THEN Dark(list_scroll) ELSE Drawn(options, list_scroll, e)
    <3>1. e \in 0..(ListLines - 1) /\ list_window = Drawn(options, list_scroll, e) BY <1>2, <1>4
    <3>2. Paint(list_window, list_scroll, e, FALSE) = Dark(list_scroll)
      BY <1>2, <3>1, PaintedDark
    <3> QED BY <1>4, <3>1, <3>2
  <2>3. list_window' = Drawn(options, list_scroll + n, e)
    <3>1. ListLines \in Nat \ {0} /\ (list_height > 1 \/ ListLines = 1) BY <1>2, <1>4
    <3>2. PICK t \in Int : t = list_scroll + n /\ t - n = list_scroll BY <1>2
    <3>3. (n = -1 /\ e = 0) \/ (n = 1 /\ e = ListLines - 1)
      <4>1. n \in {-1, 1} /\ e = (IF n = -1 THEN 0 ELSE ListLines - 1) BY <1>4
      <4> QED BY <4>1
    <3>4. /\ list_height > 1 => dark = Dark(t - n)
          /\ ~(list_height > 1) => dark = Drawn(options, t - n, e)
      BY <2>2, <3>2
    <3>5. n \in Int /\ e \in Int BY <1>2, <3>3
    <3>6. Paint(Wscrl(dark, n), t, e, TRUE) = Drawn(options, t, e)
      BY <3>1, <3>3, <3>4, <3>5, Scrolled
    <3> QED BY <2>1, <3>2, <3>6
  <2>4. ListInside(list_scroll + n, e, Len(options)) BY <1>2, <1>4, InsideLines
  <2> QED BY <2>1, <2>3, <2>4
<1>5. CASE ListUp
  <2>1. CASE list_choice > 0 /\ ListTo(list_choice - 1) BY <1>2, <1>3, <2>1
  <2>2. CASE ~(list_choice > 0 /\ ListTo(list_choice - 1))
    <3> DEFINE dark == IF list_height > 1 THEN Paint(list_window, list_scroll, 0, FALSE)
                       ELSE list_window
    <3>1. /\ list_choice = 0 /\ list_scroll > 0
          /\ ListMove(list_scroll - 1, 0, Paint(Wscrl(dark, -1), list_scroll - 1, 0, TRUE))
      BY <1>5, <2>2 DEF ListUp
    <3>2. list_scroll - 1 = list_scroll + -1 /\ ListLines > 0 BY <1>2, <3>1
    <3> HIDE DEF dark
    <3>3. ListMove(list_scroll + -1, 0, Paint(Wscrl(dark, -1), list_scroll + -1, 0, TRUE))
      BY <3>1, <3>2
    <3>4. list_scroll + -1 \in Nat /\ list_scroll + -1 + ListLines <= Len(options)
      BY <1>2, <3>1
    <3> QED BY <1>4, <3>1, <3>2, <3>3, <3>4 DEF dark
  <2> QED BY <2>1, <2>2
<1>6. CASE ListDown
  <2> DEFINE last == ListLines - 1
  <2>1. CASE list_choice < last /\ ListTo(list_choice + 1) BY <1>2, <1>3, <2>1
  <2>2. CASE ~(list_choice < last /\ ListTo(list_choice + 1))
    <3> DEFINE dark == IF list_height > 1 THEN Paint(list_window, list_scroll, last, FALSE)
                       ELSE list_window
    <3>1. /\ list_choice = last /\ list_scroll + last < Len(options) - 1
          /\ ListMove(list_scroll + 1, last, Paint(Wscrl(dark, 1), list_scroll + 1, last, TRUE))
      BY <1>6, <2>2 DEF ListDown
    <3>2. ListLines > 0 /\ list_scroll + 1 \in Nat /\ list_scroll + 1 + ListLines <= Len(options)
      BY <1>2, <3>1
    <3>3. last = (IF 1 = -1 THEN 0 ELSE ListLines - 1) OBVIOUS
    <3>4. dark = IF list_height > 1 THEN Paint(list_window, list_scroll, last, FALSE)
                 ELSE list_window
      OBVIOUS
    <3> HIDE DEF dark, last
    <3> QED BY <1>4, <3>1, <3>2, <3>3, <3>4
  <2> QED BY <2>1, <2>2
<1>7. ASSUME NEW k, ListLetter(k)
      PROVE  \E i \in 0..(ListLines - 1) : ListTo(i)
  <2> DEFINE hits == {i \in 0..(ListLines - 1) : Initial[option(list_scroll + i).data] = k}
  <2>1. hits # {} /\ ListTo(CHOOSE i \in hits : \A j \in hits : i <= j)
    BY <1>7 DEF ListLetter
  <2>2. hits \in SUBSET Nat /\ hits \subseteq 0..(ListLines - 1) BY <1>2
  <2> HIDE DEF hits
  <2>3. \E i \in hits : \A j \in hits : i <= j BY <2>1, <2>2, SmallestNat
  <2> QED BY <2>1, <2>2, <2>3
<1> QED BY <1>3, <1>5, <1>6, <1>7

LEMMA ListCodes ==
    /\ ListLeft # ListOpen /\ ListSmall # ListOpen
    /\ \A r : r.code \in {0, 1} => r # ListOpen
<1>1. ListOpen.code = -1 /\ ListLeft.code = -2 /\ ListSmall.code = -3
  BY DEF ListOpen, ListLeft, ListSmall
<1> QED BY <1>1

LEMMA BeginsInside ==
    ASSUME NEW n \in Nat, NEW at \in Nat, at < n \/ (n = 0 /\ at = 0), list_height \in Nat \ {0},
           NEW s, s = IF at >= list_height THEN at - list_height + 1 ELSE 0
    PROVE  ListInside(s, at - s, n)
<1>1. CASE at >= list_height
  <2>1. /\ s \in Nat /\ at - s \in Nat /\ at - s < list_height /\ s + list_height <= n
        /\ list_height <= n
    BY <1>1
  <2>2. at - s < n BY <2>1
  <2> QED BY <2>1, <2>2 DEF ListInside
<1>2. CASE ~(at >= list_height)
  <2>1. s = 0 /\ at - s = at BY <1>2
  <2> QED BY <1>2, <2>1 DEF ListInside
<1> QED BY <1>1, <1>2

\* The list begins with its highlight on a line of its window.
LEMMA OpenedInside ==
    ASSUME ListInv, NEW size, NEW its \in Seq(Option), NEW data,
           dialog_checklist(size, its, data)
    PROVE  ListInv'
<1> DEFINE at == Preferred(its, data)
           s == IF at >= list_height THEN at - list_height + 1 ELSE 0
<1>1. options' = its BY DEF dialog_checklist
<1>2. CASE size < ListNeeds
  <2>1. list_result' = ListSmall BY <1>2 DEF dialog_checklist
  <2>2. list_result' # ListOpen BY <2>1, ListCodes
  <2> QED BY <1>1, <2>2 DEF ListInv, OptionsShown
<1>3. CASE ~(size < ListNeeds)
  <2>1. list_scroll' = s /\ list_choice' = at - s /\ list_window' = Drawn(its, s, at - s)
    BY <1>3 DEF dialog_checklist
  <2>2. at \in IF its = <<>> THEN {0} ELSE 0..(Len(its) - 1) BY PreferredInside
  <2>3. /\ at \in Nat /\ Len(its) \in Nat /\ list_height \in Nat \ {0}
        /\ at < Len(its) \/ (Len(its) = 0 /\ at = 0)
    BY <2>2, ChecklistAssumption
  <2> HIDE DEF at
  <2>6. ListInside(s, at - s, Len(its)) BY <2>3, BeginsInside
  <2> QED BY <1>1, <2>1, <2>6 DEF ListInv, OptionsShown
<1> QED BY <1>2, <1>3

\* Every step of the list keeps the invariant.
LEMMA ListStep ==
    ASSUME ListInv, ListNext
    PROVE  ListInv'
<1>1. CASE ListUp \/ ListDown \/ \E k : ListLetter(k)
  <2>1. /\ UNCHANGED <<options, list_result>>
        /\ ListInside(list_scroll', list_choice', Len(options))
        /\ list_window' = Drawn(options, list_scroll', list_choice')
    BY <1>1, MovesDraw
  <2> QED BY <2>1 DEF ListInv, OptionsShown
<1>2. CASE ListButton BY <1>2 DEF ListInv, OptionsShown, ListButton
<1>3. CASE ListEscape BY <1>3 DEF ListInv, OptionsShown, ListEscape, ListOpen, ListLeft
<1>4. ASSUME NEW code \in {0, 1}, ListReturn(code) PROVE ListInv'
  <2>1. list_result'.code \in {0, 1} /\ options' = options BY <1>4 DEF ListReturn
  <2>2. list_result' # ListOpen BY <2>1, ListCodes
  <2> QED BY <2>1, <2>2 DEF ListInv, OptionsShown
<1>5. CASE ListGone
  <2>1. options' = <<>> /\ list_result' # ListOpen BY <1>5, ListCodes DEF ListGone
  <2> QED BY <2>1 DEF ListInv, OptionsShown
<1>6. ASSUME NEW size, ListResize(size) PROVE ListInv'
  <2>1. CASE size < ListNeeds
    BY <1>6, <2>1 DEF ListInv, OptionsShown, ListResize, ListOpen, ListSmall
  <2>2. CASE ~(size < ListNeeds)
    BY <1>6, <2>2 DEF ListInv, OptionsShown, ListResize
  <2> QED BY <2>1, <2>2
<1>7. ASSUME NEW size, NEW its \in Seq(Option), NEW data, dialog_checklist(size, its, data)
      PROVE  ListInv'
  BY <1>7, OpenedInside
<1> QED BY <1>1, <1>2, <1>3, <1>4, <1>5, <1>6, <1>7 DEF ListNext, ListKey

\* For every list of options, every height of the window and every
\* sequence of keys, calls and changes of the terminal's size, what the
\* checklist shows is what its keys act on: its incremental repainting
\* agrees with a redraw (lxdialog/checklist.c, do_resize and the keys).
THEOREM ChecklistShowsTheOptions == ListSpec => []OptionsShown
<1>1. ListInit => ListInv BY ListCodes DEF ListInit, ListInv, OptionsShown
<1>2. ListInv /\ [ListNext]_listVars => ListInv'
  <2>1. ASSUME ListInv, UNCHANGED listVars PROVE ListInv'
    BY <2>1 DEF ListInv, ListInside, OptionsShown, Drawn, listVars
  <2> QED BY <2>1, ListStep
<1>3. ListInv => OptionsShown BY DEF ListInv
<1> QED BY <1>1, <1>2, <1>3, PTL DEF ListSpec

-----------------------------------------------------------------------------
(* The input box (Inputbox).                                               *)

\* The field showing a text from character x on.
ShownFrom(text, x) == [i \in Cell |-> IF x + i < Len(text) THEN text[x + i + 1] ELSE Blank]

LEMMA CellNumbers == Cell \subseteq Nat /\ box_width \in Nat /\ box_width > 1 /\ MaxLen \in Nat
BY InputboxAssumption DEF Cell

\* Printing the text over a field gives the text in the field, when what is
\* left behind its end is empty already.
LEMMA PrintedShows ==
    ASSUME NEW text \in Seq(Charset), NEW old \in Seq(Charset), NEW x \in Nat, NEW y \in Nat,
           \A i \in Cell : x + i > Len(text) => y + i >= Len(old)
    PROVE  Printed(ShownFrom(old, y), text, x) = ShownFrom(text, x)
<1> DEFINE c == ShownFrom(old, y)
<1>1. ASSUME NEW i \in Cell
      PROVE  (IF x + i < Len(text) THEN text[x + i + 1]
              ELSE IF x + i = Len(text) THEN Blank ELSE c[i])
             = (IF x + i < Len(text) THEN text[x + i + 1] ELSE Blank)
  <2>1. x + i \in Nat /\ y + i \in Nat /\ Len(text) \in Nat /\ Len(old) \in Nat
    BY CellNumbers
  <2>2. x + i > Len(text) => c[i] = Blank BY <2>1 DEF ShownFrom
  <2> HIDE DEF c
  <2> QED BY <2>1, <2>2
<1> HIDE DEF c
<1>2. Printed(c, text, x) = ShownFrom(text, x) BY <1>1, Zenon DEF Printed, ShownFrom
<1> QED BY <1>2 DEF c

\* The field while it is open.
Held(text, p, x, at, c) ==
    /\ text \in FieldTexts /\ x \in Nat /\ at \in Cell /\ p = x + at /\ p <= Len(text)
    /\ c = ShownFrom(text, x)

\* The buffer has room for the text, and the open field shows it around the
\* cursor.
FieldInv ==
    /\ instr \in FieldTexts
    /\ field_result = FieldOpen => Held(instr, pos, show_x, input_x, cells)

\* Showing the field puts the cursor behind the text, and both inside.
LEMMA FieldShown ==
    ASSUME NEW text \in FieldTexts, FieldShow(text)
    PROVE  Held(text, pos', show_x', input_x', cells')
<1> DEFINE x == IF Len(text) >= box_width THEN Len(text) - box_width + 1 ELSE 0
           at == IF Len(text) >= box_width THEN box_width - 1 ELSE Len(text)
<1>1. pos' = Len(text) /\ show_x' = x /\ input_x' = at /\ cells' = ShownFrom(text, x)
  BY DEF FieldShow, ShownFrom
<1>2. Len(text) \in Nat /\ box_width \in Nat /\ box_width > 1
  BY CellNumbers DEF FieldTexts
<1>3. x \in Nat /\ at \in 0..(box_width - 1) /\ Len(text) = x + at BY <1>2
<1> HIDE DEF x, at
<1> QED BY <1>1, <1>2, <1>3 DEF Held, Cell

\* What a key leaves of the field, when it prints the text anew.
LEMMA EditShows ==
    ASSUME FieldInv, NEW text \in FieldTexts, NEW p, NEW x \in Nat, NEW at \in Cell,
           Edit(text, p, x, at, Printed(cells, text, x)),
           p = x + at, p <= Len(text),
           \A i \in Cell : x + i > Len(text) => show_x + i >= Len(instr)
    PROVE  FieldInv'
<1>1. field_result = FieldOpen BY DEF Edit, Editing
<1>2. Held(instr, pos, show_x, input_x, cells) BY <1>1 DEF FieldInv
<1>3. cells = ShownFrom(instr, show_x) /\ show_x \in Nat /\ instr \in Seq(Charset)
  BY <1>2 DEF Held, FieldTexts
<1>4. Printed(cells, text, x) = ShownFrom(text, x) BY <1>3, PrintedShows DEF FieldTexts
<1>5. Held(text, p, x, at, Printed(cells, text, x)) BY <1>4 DEF Held
<1>6. instr' \in FieldTexts /\ Held(instr', pos', show_x', input_x', cells')
  BY <1>5 DEF Edit
<1> QED BY <1>6 DEF FieldInv

\* Two texts one after the other.
LEMMA Joined ==
    ASSUME NEW a \in Seq(Charset), NEW b \in Seq(Charset)
    PROVE  a \o b \in Seq(Charset) /\ Len(a \o b) = Len(a) + Len(b)
OBVIOUS

\* The text before a character and the text from it on.
LEMMA Cut ==
    ASSUME NEW p \in 0..Len(instr), instr \in Seq(Charset)
    PROVE  /\ SubSeq(instr, 1, p) \in Seq(Charset) /\ Len(SubSeq(instr, 1, p)) = p
           /\ SubSeq(instr, p + 1, Len(instr)) \in Seq(Charset)
           /\ Len(SubSeq(instr, p + 1, Len(instr))) = Len(instr) - p
OBVIOUS

\* A text without its character p, and with another one after it.
Without(p) == SubSeq(instr, 1, p - 1) \o SubSeq(instr, p + 1, Len(instr))
With(p, k) == SubSeq(instr, 1, p) \o <<k>> \o SubSeq(instr, p + 1, Len(instr))

LEMMA TextWithout ==
    ASSUME NEW p \in 1..Len(instr), instr \in FieldTexts
    PROVE  Without(p) \in FieldTexts /\ Len(Without(p)) = Len(instr) - 1
<1>1. instr \in Seq(Charset) /\ Len(instr) <= MaxLen /\ Len(instr) \in Nat BY DEF FieldTexts
<1>2. p \in 0..Len(instr) /\ p - 1 \in 0..Len(instr) BY <1>1
<1> DEFINE a == SubSeq(instr, 1, p - 1)  b == SubSeq(instr, p + 1, Len(instr))
<1>3. a \in Seq(Charset) /\ Len(a) = p - 1 BY <1>1, <1>2, Cut
<1>4. b \in Seq(Charset) /\ Len(b) = Len(instr) - p BY <1>1, <1>2, Cut
<1>5. Without(p) = a \o b BY DEF Without
<1> HIDE DEF a, b
<1>6. Without(p) \in Seq(Charset) /\ Len(Without(p)) = Len(a) + Len(b)
  BY <1>3, <1>4, <1>5, Joined
<1>7. Len(Without(p)) = Len(instr) - 1 BY <1>1, <1>3, <1>4, <1>6
<1>8. Len(Without(p)) <= MaxLen BY <1>1, <1>7, CellNumbers
<1> QED BY <1>6, <1>7, <1>8 DEF FieldTexts

LEMMA TextWith ==
    ASSUME NEW p \in 0..Len(instr), instr \in FieldTexts, Len(instr) < MaxLen, NEW k \in Charset
    PROVE  With(p, k) \in FieldTexts /\ Len(With(p, k)) = Len(instr) + 1
<1>1. instr \in Seq(Charset) /\ Len(instr) \in Nat BY DEF FieldTexts
<1> DEFINE a == SubSeq(instr, 1, p)  b == SubSeq(instr, p + 1, Len(instr))  c == a \o <<k>>
<1>2. a \in Seq(Charset) /\ Len(a) = p /\ b \in Seq(Charset) /\ Len(b) = Len(instr) - p
  BY <1>1, Cut
<1>3. With(p, k) = c \o b BY DEF With
<1>4. <<k>> \in Seq(Charset) /\ Len(<<k>>) = 1 OBVIOUS
<1> HIDE DEF a, b
<1>5. c \in Seq(Charset) /\ Len(c) = p + 1
  <2>1. c \in Seq(Charset) /\ Len(c) = Len(a) + Len(<<k>>) BY <1>2, <1>4, Joined
  <2> QED BY <1>2, <1>4, <2>1
<1> HIDE DEF c
<1>6. With(p, k) \in Seq(Charset) /\ Len(With(p, k)) = Len(c) + Len(b)
  BY <1>2, <1>3, <1>5, Joined
<1>7. Len(With(p, k)) = Len(instr) + 1 BY <1>1, <1>2, <1>5, <1>6
<1>8. Len(With(p, k)) <= MaxLen BY <1>1, <1>7, CellNumbers
<1> QED BY <1>6, <1>7, <1>8 DEF FieldTexts

\* Every key of the field keeps the invariant.
LEMMA KeysShow ==
    ASSUME FieldInv, Backspace \/ FieldLeft \/ FieldRight \/ \E c \in Chars : Typed(c)
    PROVE  FieldInv'
<1>1. field_result = FieldOpen
  BY DEF Backspace, FieldLeft, FieldRight, Typed, Editing
<1>2. /\ instr \in FieldTexts /\ cells = ShownFrom(instr, show_x)
      /\ show_x \in Nat /\ input_x \in Cell /\ pos = show_x + input_x /\ pos <= Len(instr)
  BY <1>1 DEF FieldInv, Held
<1>3. /\ input_x \in 0..(box_width - 1) /\ Len(instr) \in Nat /\ pos \in Nat
      /\ \A i \in Cell : i \in Nat
  BY <1>2, CellNumbers DEF Cell, FieldTexts
<1>4. CASE Backspace
  <2> DEFINE text == Without(pos)
             x == IF input_x = 0 THEN show_x - 1 ELSE show_x
             at == IF input_x = 0 THEN 0 ELSE input_x - 1
  <2>1. pos > 0 /\ Edit(text, pos - 1, x, at, Printed(cells, text, x))
    BY <1>4 DEF Backspace, Without
  <2>2. text \in FieldTexts /\ Len(text) = Len(instr) - 1 
    <3>1. pos \in 1..Len(instr) BY <1>2, <1>3, <2>1
    <3> QED BY <1>2, <3>1, TextWithout
  <2>3. x \in Nat /\ x <= show_x /\ at \in Cell /\ pos - 1 = x + at
    BY <1>2, <1>3, <2>1, CellNumbers DEF Cell
  <2> HIDE DEF text, x, at
  <2>4. \A i \in Cell : x + i > Len(text) => show_x + i >= Len(instr)
    BY <1>2, <1>3, <2>2, <2>3
  <2>5. pos - 1 <= Len(text) BY <1>2, <1>3, <2>2
  <2> QED BY <2>1, <2>2, <2>3, <2>4, <2>5, EditShows
<1>5. CASE FieldLeft
  <2>1. CASE input_x > 0 /\ Edit(instr, pos - 1, show_x, input_x - 1, cells)
    <3>1. Held(instr, pos - 1, show_x, input_x - 1, cells)
      BY <1>2, <1>3, <2>1, CellNumbers DEF Held, Cell
    <3> QED BY <1>2, <2>1, <3>1 DEF Edit, FieldInv
  <2>2. CASE ~(input_x > 0 /\ Edit(instr, pos - 1, show_x, input_x - 1, cells))
    <3>1. /\ input_x = 0 /\ pos > 0
          /\ Edit(instr, pos - 1, show_x - 1, 0, Printed(cells, instr, show_x - 1))
      BY <1>5, <2>2 DEF FieldLeft
    <3>2. PICK x : x = show_x - 1 OBVIOUS
    <3>3. x \in Nat /\ pos - 1 = x + 0 /\ pos - 1 <= Len(instr) /\ 0 \in Cell
      BY <1>2, <1>3, <3>1, <3>2, CellNumbers DEF Cell
    <3>4. \A i \in Cell : x + i > Len(instr) => show_x + i >= Len(instr)
      BY <1>2, <1>3, <3>2
    <3> QED BY <1>2, <3>1, <3>2, <3>3, <3>4, EditShows
  <2> QED BY <2>1, <2>2
<1>6. CASE FieldRight
  <2>1. CASE input_x < box_width - 1 /\ Edit(instr, pos + 1, show_x, input_x + 1, cells)
    <3>1. pos < Len(instr) BY <1>6 DEF FieldRight
    <3>2. Held(instr, pos + 1, show_x, input_x + 1, cells)
      BY <1>2, <1>3, <2>1, <3>1, CellNumbers DEF Held, Cell
    <3> QED BY <1>2, <2>1, <3>2 DEF Edit, FieldInv
  <2>2. CASE ~(input_x < box_width - 1 /\ Edit(instr, pos + 1, show_x, input_x + 1, cells))
    <3>1. /\ input_x = box_width - 1 /\ pos < Len(instr)
          /\ Edit(instr, pos + 1, show_x + 1, input_x, Printed(cells, instr, show_x + 1))
      BY <1>6, <2>2 DEF FieldRight
    <3>2. PICK x : x = show_x + 1 OBVIOUS
    <3>3. x \in Nat /\ pos + 1 = x + input_x /\ pos + 1 <= Len(instr)
      BY <1>2, <1>3, <3>1, <3>2
    <3>4. \A i \in Cell : x + i > Len(instr) => show_x + i >= Len(instr)
      BY <1>2, <1>3, <3>2
    <3> QED BY <1>2, <3>1, <3>2, <3>3, <3>4, EditShows
  <2> QED BY <2>1, <2>2
<1>7. ASSUME NEW k \in Chars, Typed(k) PROVE FieldInv'
  <2> DEFINE text == With(pos, k)
             full == input_x = box_width - 1
             x == IF full THEN show_x + 1 ELSE show_x
             at == IF full THEN input_x ELSE input_x + 1
  <2>1. Len(instr) < MaxLen /\ Edit(text, pos + 1, x, at, Printed(cells, text, x))
    BY <1>7 DEF Typed, With
  <2>2. text \in FieldTexts /\ Len(text) = Len(instr) + 1
    <3>1. k \in Charset /\ pos \in 0..Len(instr) BY <1>2, <1>3, InputboxAssumption
    <3> QED BY <1>2, <2>1, <3>1, TextWith
  <2>3. x \in Nat /\ x <= show_x + 1 /\ at \in Cell /\ pos + 1 = x + at
    BY <1>2, <1>3, <2>1, CellNumbers DEF Cell
  <2> HIDE DEF text, x, at
  <2>4. \A i \in Cell : x + i > Len(text) => show_x + i >= Len(instr)
    BY <1>2, <1>3, <2>2, <2>3
  <2>5. pos + 1 <= Len(text) BY <1>2, <1>3, <2>2
  <2> QED BY <2>1, <2>2, <2>3, <2>4, <2>5, EditShows
<1> QED BY <1>4, <1>5, <1>6, <1>7

LEMMA FieldStep ==
    ASSUME FieldInv, FieldNext
    PROVE  FieldInv'
<1>1. CASE Backspace \/ FieldLeft \/ FieldRight \/ \E c \in Chars : Typed(c)
  BY <1>1, KeysShow
<1>2. CASE FieldEscape BY <1>2 DEF FieldInv, FieldEscape, FieldOpen, FieldEscaped
<1>3. ASSUME NEW step \in {-1, 1}, FieldTab(step) PROVE FieldInv'
  BY <1>3 DEF FieldInv, FieldTab
<1>4. ASSUME NEW code \in {0, 1}, FieldReturn(code) PROVE FieldInv'
  BY <1>4 DEF FieldInv, FieldReturn, FieldOpen
<1>5. CASE FieldGone
  BY <1>5, CellNumbers DEF FieldInv, FieldGone, FieldTexts, FieldOpen, FieldEscaped
<1>6. ASSUME NEW size, FieldResize(size) PROVE FieldInv'
  <2>1. CASE size < FieldNeeds
    BY <1>6, <2>1 DEF FieldInv, FieldResize, FieldOpen, FieldSmall
  <2>2. CASE ~(size < FieldNeeds)
    <3>1. FieldShow(instr) /\ instr' = instr /\ instr \in FieldTexts
      BY <1>6, <2>2 DEF FieldInv, FieldResize
    <3> QED BY <3>1, FieldShown DEF FieldInv
  <2> QED BY <2>1, <2>2
<1>7. ASSUME NEW size, NEW init \in FieldTexts, dialog_inputbox(size, init) PROVE FieldInv'
  <2>1. CASE size < FieldNeeds
    BY <1>7, <2>1 DEF FieldInv, dialog_inputbox, FieldOpen, FieldSmall
  <2>2. CASE ~(size < FieldNeeds)
    <3>1. FieldShow(init) /\ instr' = init BY <1>7, <2>2 DEF dialog_inputbox
    <3> QED BY <3>1, FieldShown DEF FieldInv
  <2> QED BY <2>1, <2>2
<1> QED BY <1>1, <1>2, <1>3, <1>4, <1>5, <1>6, <1>7 DEF FieldNext, FieldKey

LEMMA FieldInvHolds == FieldSpec => []FieldInv
<1>1. FieldInit => FieldInv
  BY CellNumbers DEF FieldInit, FieldInv, FieldTexts, FieldOpen, FieldEscaped
<1>2. FieldInv /\ [FieldNext]_fieldVars => FieldInv'
  <2>1. ASSUME FieldInv, UNCHANGED fieldVars PROVE FieldInv'
    BY <2>1 DEF FieldInv, fieldVars
  <2> QED BY <2>1, FieldStep
<1> QED BY <1>1, <1>2, PTL DEF FieldSpec

\* For every width of the field and every text the buffer holds, the field
\* shows the text that will be returned, around the place of the next
\* character, after any editing: a key prints one part of the field only
\* (lxdialog/inputbox.c, dialog_inputbox).
THEOREM FieldAlwaysShowsTheText == FieldSpec => []FieldShowsTheText
<1>1. FieldInv => FieldShowsTheText
  BY CellNumbers DEF FieldInv, Held, FieldShowsTheText, FieldTexts, ShownFrom
<1> QED BY <1>1, FieldInvHolds, PTL

-----------------------------------------------------------------------------
(* The text box (Textbox).                                                 *)

\* Where the pointer into a text may be, and its flags.
Pointers(b) == [page : 0..End(b), begin : BOOLEAN, end : BOOLEAN]

\* A page of h lines from line t on: its length, and whether the text ends on it.
OnPage(b, h, t, length, begin, end) ==
    /\ t \in 0..End(b) /\ length \in Nat \ {0}
    /\ begin => t = 0
    /\ end <=> h >= CallsToEnd(b, t)

\* While a text is shown the pointer is in it, and what is shown is a page of
\* it.
TextInv ==
    /\ buf \in Texts /\ vscroll \in Nat /\ hscroll \in 0..MaxScroll
    /\ fixed \in {0} \cup {n \in Nat : n > 4}
    /\ Showing => /\ boxh \in Nat \ {0} /\ State \in Pointers(buf)
                  /\ OnPage(buf, boxh, top, page_length, begin_reached, end_reached)

LEMMA Ends ==
    ASSUME NEW b \in Texts
    PROVE  /\ End(b) \in Nat /\ b.tail \in BOOLEAN /\ b.marks \in BOOLEAN
           /\ \A p \in 0..End(b) : CallsToEnd(b, p) \in Nat \ {0}
<1>1. b.lines \in Nat /\ b.tail \in BOOLEAN /\ b.marks \in BOOLEAN BY DEF Texts
<1>2. End(b) \in Nat BY <1>1 DEF End
<1>3. ASSUME NEW p \in 0..End(b) PROVE CallsToEnd(b, p) \in Nat \ {0}
  <2>1. CASE b.tail /\ p < End(b)
    <3>1. CallsToEnd(b, p) = End(b) - p BY <2>1 DEF CallsToEnd
    <3> QED BY <1>2, <2>1, <3>1
  <2>2. CASE ~(b.tail /\ p < End(b))
    <3>1. CallsToEnd(b, p) = End(b) - p + 1 BY <2>2 DEF CallsToEnd
    <3> QED BY <1>2, <3>1
  <2> QED BY <2>1, <2>2
<1> QED BY <1>1, <1>2, <1>3

\* A pointer that is moved.
To(st, p, f) == [st EXCEPT !.page = p, !.end = f]
Begun(st, p) == [st EXCEPT !.page = p, !.begin = TRUE]
Further(st) == [st EXCEPT !.begin = FALSE]

LEMMA Flagged ==
    ASSUME NEW b \in Texts, NEW st \in Pointers(b), NEW p \in 0..End(b)
    PROVE  /\ Begun(st, p) \in Pointers(b) /\ Begun(st, p).page = p
           /\ Further(st) \in Pointers(b) /\ ~Further(st).begin
BY DEF Pointers, Begun, Further

\* Forward: the pointer stays in the text, and the flag tells its end.
LEMMA Forward ==
    ASSUME NEW b \in Texts, NEW st \in Pointers(b), NEW n \in Nat
    PROVE  /\ get_lines(b, st, n) \in Pointers(b)
           /\ get_lines(b, st, n).begin = st.begin
           /\ get_lines(b, st, n).page = Low(st.page + n, End(b))
           /\ n > 0 => (get_lines(b, st, n).end <=> n >= CallsToEnd(b, st.page))
<1>1. End(b) \in Nat /\ st.page \in 0..End(b) /\ st.end \in BOOLEAN BY Ends DEF Pointers
<1> DEFINE p == Low(st.page + n, End(b))
           e == n >= CallsToEnd(b, st.page)
<1>2. p \in 0..End(b) BY <1>1 DEF Low
<1>3. e \in BOOLEAN OBVIOUS
<1>4. CASE n = 0
  <2>1. get_lines(b, st, n) = To(st, p, st.end) BY <1>4 DEF get_lines, To
  <2> HIDE DEF p
  <2>2. /\ get_lines(b, st, n) \in Pointers(b) /\ get_lines(b, st, n).begin = st.begin
        /\ get_lines(b, st, n).page = p
    <3>1. /\ To(st, p, st.end) \in Pointers(b) /\ To(st, p, st.end).begin = st.begin
          /\ To(st, p, st.end).page = p
      BY <1>1, <1>2 DEF Pointers, To
    <3> QED BY <2>1, <3>1, Zenon
  <2> QED BY <1>4, <2>2 DEF p
<1>5. CASE n > 0
  <2>1. get_lines(b, st, n) = To(st, p, e)
    <3>1. n # 0 BY <1>5
    <3> QED BY <3>1, Zenon DEF get_lines, To
  <2> HIDE DEF p, e
  <2>2. /\ get_lines(b, st, n) \in Pointers(b) /\ get_lines(b, st, n).begin = st.begin
        /\ get_lines(b, st, n).page = p /\ get_lines(b, st, n).end = e
    <3>1. /\ To(st, p, e) \in Pointers(b) /\ To(st, p, e).begin = st.begin
          /\ To(st, p, e).page = p /\ To(st, p, e).end = e
      BY <1>2, <1>3 DEF Pointers, To
    <3> QED BY <2>1, <3>1, Zenon
  <2> QED BY <2>2 DEF p, e
<1> QED BY <1>4, <1>5

\* Back: the flag of the first line is only set on the first line.
LEMMA Backward ==
    ASSUME NEW b \in Texts, NEW st \in Pointers(b), NEW n \in Nat
    PROVE  /\ back_lines(b, st, n) \in Pointers(b)
           /\ back_lines(b, st, n).begin => back_lines(b, st, n).page = 0
<1>1. End(b) \in Nat /\ st.page \in 0..End(b) /\ st.end \in BOOLEAN BY Ends DEF Pointers
<1> DEFINE seen == n > 0 /\ st.page = End(b) /\ st.end
           k == IF seen THEN n - 1 ELSE n
           p == High(st.page - k, 0)
           bg == k > 0 /\ st.page - k <= 0
           e == st.end /\ ~seen
<1>2. back_lines(b, st, n) = [page |-> p, begin |-> bg, end |-> e] BY DEF back_lines
<1>3. k \in Nat
  <2>1. CASE seen
    <3>1. n > 0 BY <2>1
    <3>2. k = n - 1 BY <2>1
    <3> QED BY <3>1, <3>2
  <2>2. CASE ~seen BY <2>2
  <2> QED BY <2>1, <2>2
<1>4. e \in BOOLEAN BY <1>1
<1> HIDE DEF k, e, seen
<1>5. p \in 0..End(b) /\ (bg => p = 0) BY <1>1, <1>3 DEF High
<1>6. bg \in BOOLEAN OBVIOUS
<1> HIDE DEF p, bg
<1> QED BY <1>2, <1>4, <1>5, <1>6 DEF Pointers

\* Whatever the pointer was, print_page leaves a page of the text on the
\* screen and flags that are true of it.
LEMMA PagePrinted ==
    ASSUME NEW b \in Texts, NEW st \in Pointers(b), st.begin => st.page = 0,
           NEW h \in Nat \ {0}, print_page(b, st, h)
    PROVE  /\ OnPage(b, h, top', page_length', begin_reached', end_reached')
           /\ State' \in Pointers(b)
<1> DEFINE from == IF b.marks THEN back_lines(b, get_lines(b, st, h), h) ELSE st
           after == get_lines(b, from, h)
<1>1. /\ top' = from.page
      /\ page' = after.page /\ end_reached' = after.end /\ begin_reached' = from.begin
      /\ page_length' = Low(h, CallsToEnd(b, from.page))
  BY DEF print_page
<1>2. from \in Pointers(b) /\ (from.begin => from.page = 0)
  <2>1. CASE b.marks
    <3>1. get_lines(b, st, h) \in Pointers(b) BY Forward
    <3>2. from = back_lines(b, get_lines(b, st, h), h) BY <2>1
    <3> HIDE DEF from
    <3> QED BY <3>1, <3>2, Backward
  <2>2. CASE ~b.marks
    <3>1. from = st BY <2>2
    <3> HIDE DEF from
    <3> QED BY <3>1
  <2> QED BY <2>1, <2>2
<1> HIDE DEF from
<1>3. after \in Pointers(b) /\ (after.end <=> h >= CallsToEnd(b, from.page)) BY <1>2, Forward
<1> HIDE DEF after
<1>4. /\ from.page \in 0..End(b) /\ after.page \in 0..End(b)
      /\ from.begin \in BOOLEAN /\ after.end \in BOOLEAN
  BY <1>2, <1>3 DEF Pointers
<1>5. page_length' \in Nat \ {0} BY <1>1, <1>4, Ends DEF Low
<1>6. State' \in Pointers(b) BY <1>1, <1>4 DEF Pointers, State
<1> QED BY <1>1, <1>2, <1>3, <1>4, <1>5, <1>6 DEF OnPage

\* A key that shows another page of the same text.
LEMMA TurnShows ==
    ASSUME TextInv, Showing, NEW st \in Pointers(buf), st.begin => st.page = 0, Turn(st)
    PROVE  TextInv'
<1>1. buf \in Texts /\ boxh \in Nat \ {0} BY DEF TextInv
<1>2. /\ print_page(buf, st, boxh)
      /\ UNCHANGED <<buf, boxh, fixed, hscroll, vscroll, text_result>>
  BY DEF Turn
<1>3. /\ OnPage(buf, boxh, top', page_length', begin_reached', end_reached')
      /\ State' \in Pointers(buf)
  BY <1>1, <1>2, PagePrinted
<1>4. page_length' \in Nat BY <1>3 DEF OnPage
<1> QED BY <1>1, <1>2, <1>3, <1>4 DEF TextInv, Showing

\* Back from the page that is shown.
LEMMA BackShows ==
    ASSUME TextInv, Showing, NEW n \in Nat
    PROVE  Back(n) \in Pointers(buf) /\ (Back(n).begin => Back(n).page = 0)
BY Backward DEF TextInv, Back

LEMMA KeysTurn ==
    ASSUME TextInv,
           TextHome \/ TextEnd \/ TextUp \/ TextDown \/ TextPageUp \/ TextPageDown
    PROVE  TextInv'
<1>1. Showing BY DEF TextHome, TextEnd, TextUp, TextDown, TextPageUp, TextPageDown
<1>2. /\ buf \in Texts /\ boxh \in Nat \ {0} /\ page_length \in Nat \ {0}
      /\ State \in Pointers(buf) /\ End(buf) \in Nat
  BY <1>1, Ends DEF TextInv, OnPage
<1>3. CASE TextHome
  <2> DEFINE st == [State EXCEPT !.page = 0, !.begin = TRUE]
  <2>1. Turn(st) BY <1>3 DEF TextHome
  <2>2. st = Begun(State, 0) /\ 0 \in 0..End(buf) BY <1>2 DEF Begun
  <2> HIDE DEF st
  <2>3. st \in Pointers(buf) /\ st.page = 0
    <3>1. Begun(State, 0) \in Pointers(buf) /\ Begun(State, 0).page = 0
      BY <1>2, <2>2, Flagged
    <3> QED BY <2>2, <3>1
  <2> QED BY <1>1, <2>1, <2>3, TurnShows
<1>4. CASE TextEnd
  <2> DEFINE st == [State EXCEPT !.page = End(buf), !.end = TRUE]
  <2>1. Turn(back_lines(buf, st, boxh)) BY <1>4 DEF TextEnd
  <2>2. st = To(State, End(buf), TRUE) /\ End(buf) \in 0..End(buf)
    BY <1>2 DEF To
  <2> HIDE DEF st
  <2>3. st \in Pointers(buf) BY <1>2, <2>2 DEF Pointers, To
  <2>4. /\ back_lines(buf, st, boxh) \in Pointers(buf)
        /\ back_lines(buf, st, boxh).begin => back_lines(buf, st, boxh).page = 0
    BY <1>2, <2>3, Backward
  <2> QED BY <1>1, <2>1, <2>4, TurnShows
<1>5. CASE TextUp
  <2>1. Turn(Back(page_length + 1)) /\ page_length + 1 \in Nat BY <1>2, <1>5 DEF TextUp
  <2> QED BY <1>1, <2>1, BackShows, TurnShows
<1>6. CASE TextPageUp
  <2>1. Turn(Back(page_length + boxh)) /\ page_length + boxh \in Nat
    BY <1>2, <1>6 DEF TextPageUp
  <2> QED BY <1>1, <2>1, BackShows, TurnShows
<1>7. CASE TextDown
  <2>1. Turn(Back(page_length - 1)) /\ page_length - 1 \in Nat BY <1>2, <1>7 DEF TextDown
  <2> QED BY <1>1, <2>1, BackShows, TurnShows
<1>8. CASE TextPageDown
  <2> DEFINE st == [State EXCEPT !.begin = FALSE]
  <2>1. Turn(st) BY <1>8 DEF TextPageDown
  <2>2. st \in Pointers(buf) /\ ~st.begin
    <3>1. 0 \in 0..End(buf) BY <1>2
    <3>2. st = Further(State) BY DEF Further
    <3> HIDE DEF st
    <3> QED BY <1>2, <3>1, <3>2, Flagged, Zenon
  <2> HIDE DEF st
  <2> QED BY <1>1, <2>1, <2>2, TurnShows
<1> QED BY <1>3, <1>4, <1>5, <1>6, <1>7, <1>8

LEMMA TextStep ==
    ASSUME TextInv, TextNext
    PROVE  TextInv'
<1>1. CASE TextHome \/ TextEnd \/ TextUp \/ TextDown \/ TextPageUp \/ TextPageDown
  BY <1>1, KeysTurn
<1>2. ASSUME NEW h \in 0..MaxScroll, TextScroll(h) PROVE TextInv'
  <2>1. /\ Showing /\ buf \in Texts /\ boxh \in Nat \ {0} /\ page_length \in Nat
        /\ print_page(buf, Back(page_length), boxh) /\ hscroll' = h
        /\ UNCHANGED <<buf, boxh, fixed, vscroll, text_result>>
    BY <1>2 DEF TextScroll, TextInv, OnPage
  <2>2. /\ OnPage(buf, boxh, top', page_length', begin_reached', end_reached')
        /\ State' \in Pointers(buf)
    BY <2>1, BackShows, PagePrinted
  <2>3. page_length' \in Nat BY <2>2 DEF OnPage
  <2> QED BY <2>1, <2>2, <2>3 DEF TextInv, Showing
<1>3. CASE TextLeft
  <2>1. hscroll \in 0..MaxScroll /\ MaxScroll \in Nat BY TextboxAssumption DEF TextInv
  <2>2. PICK h \in {0, hscroll - 1} : hscroll > 0 /\ TextScroll(h) BY <1>3 DEF TextLeft
  <2>3. h \in 0..MaxScroll BY <2>1, <2>2
  <2> QED BY <1>2, <2>2, <2>3
<1>4. CASE TextRight
  <2>1. hscroll \in 0..MaxScroll /\ MaxScroll \in Nat BY TextboxAssumption DEF TextInv
  <2>2. hscroll < MaxScroll /\ TextScroll(hscroll + 1) BY <1>4 DEF TextRight
  <2>3. hscroll + 1 \in 0..MaxScroll BY <2>1, <2>2
  <2> QED BY <1>2, <2>2, <2>3
<1>5. ASSUME NEW code, code # "open", TextClose(code) PROVE TextInv'
  <2>1. Showing /\ buf \in Texts /\ End(buf) \in Nat /\ page_length \in Nat
    BY <1>5, Ends DEF TextClose, TextInv, OnPage
  <2>2. /\ Back(page_length) \in Pointers(buf)
        /\ page' = Back(page_length).page /\ begin_reached' = Back(page_length).begin
        /\ end_reached' = Back(page_length).end /\ vscroll' = Back(page_length).page
        /\ text_result' = code
        /\ UNCHANGED <<buf, boxh, fixed, page_length, hscroll, top>>
    BY <1>5, <2>1, BackShows DEF TextClose
  <2>3. vscroll' \in Nat BY <2>2, <2>1 DEF Pointers
  <2> QED BY <1>5, <2>2, <2>3 DEF TextInv, Showing
<1>6. CASE TextGone
  <2>1. NoText \in Texts BY DEF NoText, Texts
  <2> QED BY <1>6, <2>1, TextboxAssumption DEF TextGone, TextInv, Showing
<1>7. ASSUME NEW old \in Roomy, NEW size \in Roomy, TextResize(old, size) PROVE TextInv'
  <2> DEFINE n == IF fixed # 0 THEN fixed ELSE old - 4
             st == Back(n)
  <2>1. /\ buf \in Texts /\ fixed \in {0} \cup {i \in Nat : i > 4}
        /\ End(buf) \in Nat /\ TextFrame \in Nat /\ TextFrame >= 4
    BY Ends, TextboxAssumption DEF TextInv
  <2>2. n \in Nat /\ Height(size, fixed) \in Nat \ {0} BY <2>1 DEF Roomy, Height
  <2>3. st \in Pointers(buf) /\ (st.begin => st.page = 0)
    <3>1. Showing BY <1>7 DEF TextResize
    <3> QED BY <2>2, <3>1, BackShows
  <2>4. /\ Showing /\ boxh' = Height(size, fixed) /\ UNCHANGED <<buf, fixed, hscroll, vscroll>>
        /\ IF size < TextMin
           THEN /\ text_result' = "small"
                /\ page' = st.page /\ begin_reached' = st.begin /\ end_reached' = st.end
                /\ UNCHANGED <<page_length, top>>
           ELSE UNCHANGED text_result /\ print_page(buf, st, boxh')
    BY <1>7 DEF TextResize
  <2> HIDE DEF n, st
  <2>5. CASE size < TextMin
    BY <2>1, <2>4, <2>5 DEF TextInv, Showing
  <2>6. CASE ~(size < TextMin)
    <3>1. print_page(buf, st, boxh') /\ text_result' = text_result /\ boxh' \in Nat \ {0}
      BY <2>2, <2>4, <2>6
    <3>2. /\ OnPage(buf, boxh', top', page_length', begin_reached', end_reached')
          /\ State' \in Pointers(buf)
      BY <2>1, <2>3, <3>1, PagePrinted
    <3>3. page_length' \in Nat BY <3>2 DEF OnPage
    <3> QED BY <2>1, <2>4, <3>1, <3>2, <3>3 DEF TextInv, Showing
  <2> QED BY <2>5, <2>6
<1>8. ASSUME NEW size \in Roomy, NEW b \in Texts, NEW f \in {0} \cup {n \in Nat : n > 4},
             NEW v \in Nat, NEW h \in 0..MaxScroll, dialog_textbox(size, b, f, v, h)
      PROVE  TextInv'
  <2> DEFINE zero == [page |-> 0, begin |-> v = 0, end |-> FALSE]
             st == get_lines(b, zero, v)
  <2>1. End(b) \in Nat /\ TextFrame \in Nat BY Ends, TextboxAssumption
  <2>2. Height(size, f) \in Nat \ {0} BY <2>1 DEF Roomy, Height
  <2>3. zero \in Pointers(b) BY <2>1 DEF Pointers
  <2>4. /\ text_result # "open"
        /\ buf' = b /\ fixed' = f /\ hscroll' = h /\ vscroll' = v /\ boxh' = Height(size, f)
        /\ IF size < TextMin
           THEN text_result' = "small" /\ UNCHANGED <<page, begin_reached, end_reached, page_length, top>>
           ELSE text_result' = "open" /\ print_page(b, st, Height(size, f))
    BY <1>8 DEF dialog_textbox
  <2>5. st \in Pointers(b) /\ (st.begin => st.page = 0)
    <3>1. st \in Pointers(b) /\ st.begin = zero.begin BY <2>3, Forward
    <3>2. ASSUME v = 0 PROVE st.page = 0
      <4>1. st.page = Low(0 + v, End(b)) BY DEF get_lines
      <4> QED BY <2>1, <3>2, <4>1 DEF Low
    <3> QED BY <3>1, <3>2
  <2> HIDE DEF zero, st
  <2>6. CASE size < TextMin
    BY <2>4, <2>6 DEF TextInv, Showing
  <2>7. CASE ~(size < TextMin)
    <3>1. /\ OnPage(b, boxh', top', page_length', begin_reached', end_reached')
          /\ State' \in Pointers(b)
      BY <2>2, <2>4, <2>5, <2>7, PagePrinted
    <3>2. page_length' \in Nat BY <3>1 DEF OnPage
    <3> QED BY <2>2, <2>4, <3>1, <3>2 DEF TextInv, Showing
  <2> QED BY <2>6, <2>7
<1> QED BY <1>1, <1>3, <1>4, <1>5, <1>6, <1>7, <1>8 DEF TextNext, TextKey

LEMMA TextInvInit == TextInit => TextInv
<1>1. NoText \in Texts BY DEF NoText, Texts
<1> QED BY <1>1, TextboxAssumption DEF TextInit, TextInv, Showing

LEMMA TextInvNext == TextInv /\ [TextNext]_textVars => TextInv'
<1>1. ASSUME TextInv, UNCHANGED textVars PROVE TextInv'
  BY <1>1 DEF TextInv, textVars, Showing, State, OnPage
<1> QED BY <1>1, TextStep

LEMMA TextInvHolds == TextSpec => []TextInv
  BY TextInvInit, TextInvNext, PTL DEF TextSpec

\* For every text, with or without jump keys, and every height of the box:
\* begin_reached is only set while the first line is shown and end_reached
\* exactly while the last is, after any keys, changes of the terminal's size
\* and returns to a saved line (lxdialog/textbox.c, get_line and back_lines).
THEOREM EdgesAlwaysKnown == TextSpec => []EdgesAreKnown
<1>1. TextInv => EdgesAreKnown
  <2> SUFFICES ASSUME TextInv, Showing
               PROVE  /\ begin_reached => top = 0
                      /\ end_reached <=> top + boxh > (IF buf.tail THEN End(buf) - 1 ELSE End(buf))
    BY DEF EdgesAreKnown
  <2>1. /\ buf \in Texts /\ boxh \in Nat \ {0} /\ top \in 0..End(buf) /\ End(buf) \in Nat
        /\ begin_reached => top = 0
        /\ end_reached <=> boxh >= CallsToEnd(buf, top)
    BY Ends DEF TextInv, OnPage
  <2>2. boxh >= CallsToEnd(buf, top)
        <=> top + boxh > (IF buf.tail THEN End(buf) - 1 ELSE End(buf))
    <3>1. CASE buf.tail /\ top < End(buf)
      <4>1. CallsToEnd(buf, top) = End(buf) - top BY <3>1 DEF CallsToEnd
      <4> QED BY <2>1, <3>1, <4>1
    <3>2. CASE ~(buf.tail /\ top < End(buf))
      <4>1. CallsToEnd(buf, top) = End(buf) - top + 1 BY <3>2 DEF CallsToEnd
      <4> QED BY <2>1, <3>2, <4>1
    <3> QED BY <3>1, <3>2
  <2> QED BY <2>1, <2>2
<1> QED BY <1>1, TextInvHolds, PTL

-----------------------------------------------------------------------------
(* menuconfig: the boxes together.                                         *)

\* The entry i behind those before it, if it is visible.
Longer(q, V, l, i) ==
    IF i = 0 THEN <<>> ELSE IF q[i] \in V THEN Append(l[i - 1], q[i]) ELSE l[i - 1]
IsListing(q, V, l, n) == l = [i \in 0..n |-> Longer(q, V, l, i)]

LEMMA ListingExists ==
    ASSUME NEW S, NEW q \in Seq(S), NEW V
    PROVE  \E l : IsListing(q, V, l, Len(q))
<1> DEFINE bad == {n \in 0..Len(q) : ~ \E l : IsListing(q, V, l, n)}
<1>1. ASSUME bad # {} PROVE FALSE
  <2>1. bad \in SUBSET Nat /\ bad \subseteq 0..Len(q) /\ Len(q) \in Nat OBVIOUS
  <2>2. \A n \in 0..Len(q) : (\E l : IsListing(q, V, l, n)) \/ n \in bad OBVIOUS
  <2>3. \A n \in bad : ~ \E l : IsListing(q, V, l, n) OBVIOUS
  <2> HIDE DEF bad
  <2>4. PICK n \in bad : \A j \in bad : n <= j BY <1>1, <2>1, SmallestNat
  <2>5. CASE n = 0
    <3> DEFINE l == [i \in 0..0 |-> <<>>]
    <3>1. l = [i \in 0..0 |-> Longer(q, V, l, i)] BY DEF Longer
    <3> HIDE DEF l
    <3> QED BY <2>3, <2>4, <2>5, <3>1 DEF IsListing
  <2>6. CASE n # 0
    <3>1. n - 1 \in 0..Len(q) /\ n \in Nat BY <2>1, <2>4, <2>6
    <3>2. n - 1 \notin bad BY <2>4, <3>1
    <3>3. PICK l : IsListing(q, V, l, n - 1) BY <2>2, <3>1, <3>2
    <3> DEFINE new == [i \in 0..n |-> IF i = n THEN Longer(q, V, l, n) ELSE l[i]]
    <3>4. DOMAIN new = 0..n /\ new[n] = Longer(q, V, l, n) BY <3>1
    <3>5. \A i \in 0..(n - 1) : new[i] = l[i] /\ l[i] = Longer(q, V, l, i)
      <4> TAKE i \in 0..(n - 1)
      <4>1. i \in 0..n /\ i # n BY <3>1
      <4>2. new[i] = l[i] BY <4>1
      <4> HIDE DEF new
      <4> QED BY <3>3, <4>2 DEF IsListing
    <3>6. new = [i \in 0..n |-> new[i]] OBVIOUS
    <3> HIDE DEF new
    <3>7. ASSUME NEW i \in 0..n PROVE new[i] = Longer(q, V, new, i)
      <4>1. i = 0 \/ new[i - 1] = l[i - 1]
        <5>1. i = 0 \/ i - 1 \in 0..(n - 1) BY <3>1
        <5> QED BY <3>5, <5>1
      <4>2. new[i] = Longer(q, V, l, i)
        <5>1. i = n \/ i \in 0..(n - 1) BY <3>1
        <5> QED BY <3>4, <3>5, <5>1
      <4> QED BY <4>1, <4>2 DEF Longer
    <3>8. IsListing(q, V, new, n) BY <3>6, <3>7 DEF IsListing
    <3> QED BY <2>3, <2>4, <3>8
  <2> QED BY <2>5, <2>6
<1>2. Len(q) \in 0..Len(q) OBVIOUS
<1> QED BY <1>1, <1>2

\* Every list of the series is one of the entries.
LEMMA ListingTyped ==
    ASSUME NEW S, NEW q \in Seq(S), NEW V, NEW l, IsListing(q, V, l, Len(q))
    PROVE  l[Len(q)] \in Seq(S)
<1> DEFINE bad == {n \in 0..Len(q) : l[n] \notin Seq(S)}
<1>1. ASSUME bad # {} PROVE FALSE
  <2>1. bad \in SUBSET Nat /\ Len(q) \in Nat OBVIOUS
  <2>2. \A n \in 0..Len(q) : l[n] = Longer(q, V, l, n) BY DEF IsListing
  <2>3. PICK n \in bad : \A j \in bad : n <= j
    <3> HIDE DEF bad
    <3> QED BY <1>1, <2>1, SmallestNat
  <2>4. n \in 0..Len(q) /\ l[n] \notin Seq(S) /\ l[n] = Longer(q, V, l, n) BY <2>2, <2>3
  <2>5. n # 0
    <3>1. n = 0 => Longer(q, V, l, n) = <<>> BY DEF Longer
    <3>2. <<>> \in Seq(S) OBVIOUS
    <3> QED BY <2>4, <3>1, <3>2
  <2>6. n \in 1..Len(q) /\ n - 1 \in 0..Len(q) /\ ~(n <= n - 1) BY <2>1, <2>4, <2>5
  <2>7. l[n - 1] \in Seq(S) BY <2>3, <2>6
  <2>8. q[n] \in S BY <2>6
  <2>9. Append(l[n - 1], q[n]) \in Seq(S) BY <2>7, <2>8
  <2>10. Longer(q, V, l, n) \in {Append(l[n - 1], q[n]), l[n - 1]} BY <2>5 DEF Longer
  <2> QED BY <2>4, <2>7, <2>9, <2>10
<1>2. Len(q) \in 0..Len(q) OBVIOUS
<1> QED BY <1>1, <1>2

\* What a menu is shown with are entries of it.
LEMMA ListedTyped ==
    ASSUME NEW S, NEW q \in Seq(S), NEW V
    PROVE  Listed(q, V) \in Seq(S)
<1> DEFINE l == CHOOSE l : IsListing(q, V, l, Len(q))
<1>1. IsListing(q, V, l, Len(q)) BY ListingExists
<1>2. Listed(q, V) = l[Len(q)] BY DEF Listed, IsListing, Longer
<1> HIDE DEF l
<1> QED BY <1>1, <1>2, ListingTyped

Frames == [menu : DOMAIN Tree, active : Entries \cup {NoEntry}, s_scroll : Nat]
Suspended == [frame : Frames, found : Nat \cup {-1}, right : 0..MaxScroll]

TextScreens == {"help", "option", "refused", "string help", "no file", "saved", "file help",
                "search help", "found"}

\* dialog_menu() has returned: nothing of its list is left.
MenuIsGone ==
    /\ items = <<>> /\ active = NoEntry /\ s_scroll = 0 /\ scroll = 0 /\ choice = 0
    /\ first_item = 0 /\ button = 0 /\ window = <<>> /\ key = "none" /\ result = Left
    /\ resized = FALSE

\* What conf() keeps for the menus is what they take, a menu is only there
\* while its screen is, and so is a text.
DialogsInv ==
    /\ MenuInv /\ TextInv
    /\ frame \in Frames /\ stack \in Seq(Suspended)
    /\ screen # "menu" => MenuIsGone
    /\ Showing => screen \in TextScreens

\* A step in which every box does what it does by itself, or nothing.
Boxes ==
    /\ MenuNext \/ UNCHANGED menuVars
    /\ ListNext \/ UNCHANGED listVars
    /\ FieldNext \/ UNCHANGED fieldVars
    /\ TextNext \/ UNCHANGED textVars
    /\ screen' # "menu" => MenuIsGone'
    /\ Showing' => screen' \in TextScreens

LEMMA Terminal == ASSUME DialogsInv PROVE stdscr \in Sizes /\ stdscr \in Nat /\ stdscr \in Roomy
BY MenuboxAssumption, DialogsAssumption DEF DialogsInv, MenuInv, MenuTypeOK, Roomy

LEMMA MenuReturns ==
    ASSUME DialogsInv, MenuGone, UNCHANGED stdscr
    PROVE  MenuNext /\ MenuIsGone'
BY Terminal DEF MenuNext, MenuGone, MenuIsGone

LEMMA TextReturns == ASSUME TextGone PROVE TextNext /\ ~Showing'
BY DEF TextNext, TextGone, Showing

\* The menu returns, and nothing or another box is opened.
LEMMA GotoSteps ==
    ASSUME DialogsInv, NEW to, to # "menu", Goto(to)
    PROVE  Boxes
<1>1. /\ screen' = to /\ MenuGone /\ ListGone /\ FieldGone /\ TextGone /\ UNCHANGED stdscr
  BY DEF Goto
<1> QED BY <1>1, MenuReturns, TextReturns DEF Boxes, ListNext, FieldNext

LEMMA OpenTextSteps ==
    ASSUME DialogsInv, NEW to \in TextScreens, NEW b \in Texts, NEW f \in {0, 5, 6},
           NEW v \in Nat, NEW h \in 0..MaxScroll, OpenText(to, b, f, v, h)
    PROVE  Boxes
<1>1. /\ dialog_textbox(stdscr, b, f, v, h) /\ screen' = to
      /\ MenuGone /\ ListGone /\ FieldGone /\ UNCHANGED stdscr
  BY DEF OpenText
<1>2. f \in {0} \cup {n \in Nat : n > 4} OBVIOUS
<1>3. TextNext BY <1>1, <1>2, Terminal DEF TextNext
<1>4. MenuNext /\ MenuIsGone' BY <1>1, MenuReturns
<1> QED BY <1>1, <1>3, <1>4 DEF Boxes, ListNext, FieldNext

LEMMA OpenFieldSteps ==
    ASSUME DialogsInv, NEW to, to # "menu", NEW init \in FieldTexts, OpenField(to, init)
    PROVE  Boxes
<1>1. /\ dialog_inputbox(stdscr, init) /\ screen' = to
      /\ MenuGone /\ ListGone /\ TextGone /\ UNCHANGED stdscr
  BY DEF OpenField
<1>2. FieldNext BY <1>1, Terminal DEF FieldNext
<1>3. MenuNext /\ MenuIsGone' BY <1>1, MenuReturns
<1> QED BY <1>1, <1>2, <1>3, TextReturns DEF Boxes, ListNext

LEMMA OpenListSteps ==
    ASSUME DialogsInv, NEW set, NEW last, OpenList(set, last)
    PROVE  Boxes
<1> DEFINE its == [i \in DOMAIN Picks |-> [data |-> Picks[i], x |-> Picks[i] = set]]
<1>1. /\ dialog_checklist(stdscr, its, last) /\ screen' = "choice"
      /\ MenuGone /\ FieldGone /\ TextGone /\ UNCHANGED stdscr
  BY DEF OpenList
<1>2. its \in Seq(Option)
  <2>1. Picks \in Seq(DOMAIN Initial) BY DialogsAssumption
  <2>2. DOMAIN Picks = 1..Len(Picks) /\ Len(Picks) \in Nat BY <2>1
  <2>3. ASSUME NEW i \in DOMAIN Picks PROVE [data |-> Picks[i], x |-> Picks[i] = set] \in Option
    <3>1. Picks[i] \in DOMAIN Initial BY <2>1, <2>3
    <3>2. (Picks[i] = set) \in BOOLEAN OBVIOUS
    <3> QED BY <3>1, <3>2, Zenon DEF Option
  <2>4. its \in [1..Len(Picks) -> Option] BY <2>2, <2>3
  <2> QED BY <2>2, <2>4
<1> HIDE DEF its
<1>3. ListNext BY <1>1, <1>2, Terminal DEF ListNext
<1>4. MenuNext /\ MenuIsGone' BY <1>1, MenuReturns
<1> QED BY <1>1, <1>3, <1>4, TextReturns DEF Boxes, FieldNext

\* The boxes that are open: only theirs moves, and the terminal's size is for
\* all.
LEMMA InMenuSteps == ASSUME DialogsInv, InMenu PROVE Boxes
<1>1. /\ MenuNext /\ screen' = "menu" /\ UNCHANGED <<listVars, fieldVars, textVars>>
      /\ screen = "menu"
  BY DEF InMenu, MenuNext
<1>2. Showing' = Showing BY <1>1 DEF textVars, Showing
<1> QED BY <1>1, <1>2 DEF Boxes, DialogsInv

\* A change of the terminal's size is no matter for a menu that is gone.
LEMMA GoneMenuSteps ==
    ASSUME DialogsInv, MenuIsGone, UNCHANGED menuRest, stdscr' \in Sizes
    PROVE  MenuNext /\ MenuIsGone'
<1>1. MenuIsGone' BY DEF MenuIsGone, menuRest
<1>2. result \notin {Open, Dead} BY DEF MenuIsGone, Left, Open, Dead
<1>3. MenuGone BY <1>1, <1>2 DEF MenuIsGone, MenuGone
<1> QED BY <1>1, <1>3 DEF MenuNext

LEMMA InListSteps == ASSUME DialogsInv, InList PROVE Boxes
<1>1. /\ screen = "choice" /\ screen' = screen
      /\ UNCHANGED <<menuRest, fieldVars, textVars>>
  BY DEF InList
<1>2. ListNext /\ stdscr' \in Sizes
  BY Terminal, MenuboxAssumption DEF InList, ListNext
<1>3. MenuNext /\ MenuIsGone' BY <1>1, <1>2, GoneMenuSteps DEF DialogsInv
<1>4. Showing' = Showing BY <1>1 DEF textVars, Showing
<1> QED BY <1>1, <1>2, <1>3, <1>4 DEF Boxes, DialogsInv

LEMMA InFieldSteps == ASSUME DialogsInv, InField PROVE Boxes
<1>1. /\ screen \in {"string", "file", "search"} /\ screen' = screen
      /\ UNCHANGED <<menuRest, listVars, textVars>>
  BY DEF InField
<1>2. FieldNext /\ stdscr' \in Sizes
  BY Terminal, MenuboxAssumption DEF InField, FieldNext
<1>3. MenuNext /\ MenuIsGone' BY <1>1, <1>2, GoneMenuSteps DEF DialogsInv
<1>4. Showing' = Showing BY <1>1 DEF textVars, Showing
<1> QED BY <1>1, <1>2, <1>3, <1>4 DEF Boxes, DialogsInv

LEMMA InTextSteps == ASSUME DialogsInv, InText PROVE Boxes
<1>1. /\ screen' = screen /\ UNCHANGED <<menuRest, listVars, fieldVars>>
  BY DEF InText
<1>2. TextNext /\ stdscr' \in Sizes
  <2>1. ASSUME NEW mark \in Marks, TextClose(mark) PROVE TextNext
    BY <2>1, DialogsAssumption DEF TextNext
  <2>2. ASSUME NEW size \in Sizes, TextResize(stdscr, size) PROVE TextNext
    <3>1. size \in Roomy BY MenuboxAssumption, DialogsAssumption DEF Roomy
    <3> QED BY <2>2, <3>1, Terminal DEF TextNext
  <2>3. TextKey => TextNext BY DEF TextNext
  <2> QED BY <2>1, <2>2, <2>3, Terminal DEF InText
<1>3. Showing
  BY DEF InText, TextKey, TextHome, TextEnd, TextUp, TextDown, TextPageUp, TextPageDown,
         TextLeft, TextRight, TextScroll, TextClose, TextResize
<1>4. screen \in TextScreens /\ screen # "menu" BY <1>3 DEF DialogsInv, TextScreens
<1>5. MenuNext /\ MenuIsGone' BY <1>1, <1>2, <1>4, GoneMenuSteps DEF DialogsInv
<1> QED BY <1>1, <1>2, <1>4, <1>5 DEF Boxes

\* A menu is shown with entries of the menu, and with what conf() kept.
LEMMA ShowMenuSteps == ASSUME DialogsInv, ShowMenu PROVE Boxes
<1>1. /\ dialog_menu(stdscr, build_conf(frame.menu, on, show_all), frame.active, frame.s_scroll)
      /\ screen = "conf" /\ screen' = "menu" /\ UNCHANGED <<listVars, fieldVars, textVars>>
  BY DEF ShowMenu
<1>2. /\ frame.menu \in DOMAIN Tree /\ frame.active \in Entries \cup {NoEntry}
      /\ frame.s_scroll \in Nat
  BY DEF DialogsInv, Frames
<1>3. build_conf(frame.menu, on, show_all) \in Seq(Entries)
  <2>1. Tree[frame.menu] \in Seq(Entries) BY <1>2, DialogsAssumption
  <2> QED BY <2>1, ListedTyped DEF build_conf
<1>4. MenuNext BY <1>1, <1>2, <1>3, Terminal DEF MenuNext
<1>5. ~Showing' BY <1>1 DEF textVars, Showing, DialogsInv, TextScreens
<1> QED BY <1>1, <1>4, <1>5 DEF Boxes

\* What conf() keeps of a menu that has answered.
LEMMA KeptTyped == ASSUME DialogsInv PROVE result.entry \in Entries \cup {NoEntry} /\ Kept \in Frames
<1>1. result.entry \in Entries \cup {NoEntry} /\ s_scroll \in Nat /\ frame \in Frames
  BY DEF DialogsInv, MenuInv, MenuTypeOK, Results
<1> QED BY <1>1 DEF Kept, Frames

LEMMA ConstantTexts ==
    /\ HelpText \in Texts /\ Message \in Texts /\ FoundText \in Texts
    /\ 0 \in 0..MaxScroll /\ <<>> \in FieldTexts
    /\ "help" \in TextScreens /\ "option" \in TextScreens /\ "refused" \in TextScreens
    /\ "string help" \in TextScreens /\ "no file" \in TextScreens /\ "saved" \in TextScreens
    /\ "file help" \in TextScreens /\ "search help" \in TextScreens /\ "found" \in TextScreens
BY DialogsAssumption, TextboxAssumption, InputboxAssumption DEF TextScreens, FieldTexts

\* conf()'s own variables after a step.
Caller == frame' \in Frames /\ stack' \in Seq(Suspended)

LEMMA ConfSteps ==
    ASSUME DialogsInv,
           \/ ConfToggle \/ ConfSubmenu \/ ConfChoice \/ ConfBox \/ ConfShowAll \/ ConfNothing
    PROVE  Boxes /\ Caller
<1>1. /\ Kept \in Frames /\ result.entry \in Entries \cup {NoEntry}
      /\ stack \in Seq(Suspended)
  BY KeptTyped DEF DialogsInv
<1>2. CASE ConfToggle
  <2>1. Goto("conf") /\ frame' = Kept /\ stack' = stack BY <1>2 DEF ConfToggle
  <2> QED BY <1>1, <2>1, GotoSteps DEF Caller
<1>3. CASE ConfSubmenu
  <2> DEFINE call == [frame |-> Kept, found |-> -1, right |-> 0]
             new == [menu |-> result.entry, active |-> NoEntry, s_scroll |-> 0]
  <2>1. Tag = "m" /\ Goto("conf") /\ stack' = Append(stack, call) /\ frame' = new
    BY <1>3 DEF ConfSubmenu
  <2>2. call \in Suspended BY <1>1, ConstantTexts DEF Suspended
  <2>3. new \in Frames
    <3>1. result.entry \in Entries /\ Kind[result.entry] = "m" BY <1>1, <2>1 DEF Tag
    <3>2. result.entry \in DOMAIN Tree BY <3>1, DialogsAssumption
    <3> QED BY <3>2 DEF Frames
  <2> HIDE DEF call, new
  <2> QED BY <1>1, <2>1, <2>2, <2>3, GotoSteps DEF Caller
<1>4. CASE ConfChoice
  <2>1. frame' = Kept /\ stack' = stack /\ \E i \in DOMAIN Picks : OpenList(Picks[i], Picks[i])
    BY <1>4 DEF ConfChoice
  <2> QED BY <1>1, <2>1, OpenListSteps DEF Caller
<1>5. CASE ConfBox
  <2>1. frame' = Kept /\ stack' = stack BY <1>5 DEF ConfBox
  <2>2. ASSUME NEW value \in Values, OpenField("string", value) PROVE Boxes
    <3>1. value \in FieldTexts BY DialogsAssumption
    <3> QED BY <2>2, <3>1, OpenFieldSteps
  <2>3. ASSUME OpenText("help", HelpText, 0, 0, 0) PROVE Boxes
    BY <2>3, ConstantTexts, OpenTextSteps
  <2>4. ASSUME OpenField("file", <<>>) \/ OpenField("search", <<>>) PROVE Boxes
    BY <2>4, ConstantTexts, OpenFieldSteps
  <2>5. Boxes BY <1>5, <2>2, <2>3, <2>4 DEF ConfBox
  <2> QED BY <1>1, <2>1, <2>5 DEF Caller
<1>6. CASE ConfShowAll
  <2>1. Goto("conf") /\ frame' = Kept /\ stack' = stack BY <1>6 DEF ConfShowAll
  <2> QED BY <1>1, <2>1, GotoSteps DEF Caller
<1>7. CASE ConfNothing
  <2>1. Goto("conf") /\ frame' = Kept /\ stack' = stack BY <1>7 DEF ConfNothing
  <2> QED BY <1>1, <2>1, GotoSteps DEF Caller
<1> QED BY <1>2, <1>3, <1>4, <1>5, <1>6, <1>7

\* Back to the menu, or to the line of the search results, conf() was called
\* from.
LEMMA LeaveSteps == ASSUME DialogsInv, ConfLeave PROVE Boxes /\ Caller
<1>1. frame \in Frames /\ stack \in Seq(Suspended) BY DEF DialogsInv
<1>2. CASE stack = <<>>
  <2>1. (\E to \in {"quit", "over"} : Goto(to)) /\ frame' = frame /\ stack' = stack
    BY <1>2 DEF ConfLeave
  <2> QED BY <1>1, <2>1, GotoSteps DEF Caller
<1>3. CASE stack # <<>>
  <2> DEFINE caller == stack[Len(stack)]
  <2>1. /\ frame' = caller.frame /\ stack' = SubSeq(stack, 1, Len(stack) - 1)
        /\ IF caller.found = -1 THEN Goto("conf")
           ELSE OpenText("found", FoundText, 0, caller.found, caller.right)
    BY <1>3 DEF ConfLeave
  <2>2. caller \in Suspended BY <1>1, <1>3
  <2>3. stack' \in Seq(Suspended)
    <3>1. SubSeq(stack, 1, Len(stack) - 1) \in Seq(Suspended) BY <1>1, <1>3
    <3> QED BY <2>1, <3>1
  <2> HIDE DEF caller
  <2>4. caller.frame \in Frames /\ caller.right \in 0..MaxScroll /\ caller.found \in Nat \cup {-1}
    BY <2>2 DEF Suspended
  <2>5. CASE caller.found = -1
    BY <2>1, <2>3, <2>4, <2>5, GotoSteps DEF Caller
  <2>6. CASE caller.found # -1
    <3>1. OpenText("found", FoundText, 0, caller.found, caller.right) /\ caller.found \in Nat
      BY <2>1, <2>4, <2>6
    <3>2. Boxes BY <2>4, <3>1, ConstantTexts, OpenTextSteps
    <3> QED BY <2>1, <2>3, <2>4, <3>2 DEF Caller
  <2> QED BY <2>5, <2>6
<1> QED BY <1>2, <1>3

\* What is done with the answers of the boxes.
LEMMA AnswerSteps ==
    ASSUME DialogsInv, ChoiceDone \/ StringDone \/ FileDone \/ SearchDone
    PROVE  Boxes /\ Caller
<1>1. frame' = frame /\ stack' = stack
  BY DEF ChoiceDone, StringDone, FileDone, SearchDone, confVars
<1>2. \/ Goto("conf")
      \/ \E to \in TextScreens, b \in {HelpText, Message, FoundText}, f \in {0, 5, 6} :
            OpenText(to, b, f, 0, 0)
      \/ \E i \in DOMAIN Picks : OpenList(Picks[i], asked)
  <2>1. CASE ChoiceDone BY <2>1, ConstantTexts DEF ChoiceDone
  <2>2. CASE StringDone BY <2>2, ConstantTexts DEF StringDone
  <2>3. CASE FileDone BY <2>3, ConstantTexts DEF FileDone
  <2>4. CASE SearchDone BY <2>4, ConstantTexts DEF SearchDone
  <2> QED BY <2>1, <2>2, <2>3, <2>4
<1>3. Boxes
  <2>1. CASE Goto("conf") BY <2>1, GotoSteps
  <2>2. ASSUME NEW to \in TextScreens, NEW b \in {HelpText, Message, FoundText}, NEW f \in {0, 5, 6},
               OpenText(to, b, f, 0, 0)
        PROVE  Boxes
    <3>1. b \in Texts /\ 0 \in 0..MaxScroll BY ConstantTexts
    <3> QED BY <2>2, <3>1, OpenTextSteps
  <2>3. ASSUME NEW i \in DOMAIN Picks, OpenList(Picks[i], asked) PROVE Boxes
    BY <2>3, OpenListSteps
  <2> QED BY <1>2, <2>1, <2>2, <2>3
<1> QED BY <1>1, <1>3 DEF Caller, DialogsInv

\* A text was read: a jump from the search results keeps the line they are at.
LEMMA TextDoneSteps == ASSUME DialogsInv, TextDone PROVE Boxes /\ Caller
<1>1. frame \in Frames /\ stack \in Seq(Suspended) BY DEF DialogsInv
<1>2. ASSUME NEW value \in Values, OpenField("string", value) PROVE Boxes
  <2>1. value \in FieldTexts BY DialogsAssumption
  <2> QED BY <1>2, <2>1, OpenFieldSteps
<1>3. ASSUME OpenField("file", <<>>) \/ OpenField("search", <<>>) PROVE Boxes
  BY <1>3, ConstantTexts, OpenFieldSteps
<1>4. ASSUME Goto("conf") PROVE Boxes BY <1>4, GotoSteps
<1>5. ASSUME NEW i \in DOMAIN Picks, OpenList(Picks[i], asked) PROVE Boxes
  BY <1>5, OpenListSteps
<1>6. Boxes BY <1>2, <1>3, <1>4, <1>5 DEF TextDone
<1>7. ASSUME text_result \in Marks,
             stack' = Append(stack, [frame |-> frame, found |-> vscroll, right |-> hscroll]),
             frame' = [menu |-> Target[text_result].menu, active |-> Target[text_result].entry,
                       s_scroll |-> 0]
      PROVE  Caller
  <2> DEFINE call == [frame |-> frame, found |-> vscroll, right |-> hscroll]
  <2>1. call \in Suspended BY <1>1 DEF Suspended, DialogsInv, TextInv
  <2>2. Target[text_result].menu \in DOMAIN Tree /\ Target[text_result].entry \in Entries \cup {NoEntry}
    BY <1>7, DialogsAssumption
  <2>3. frame' \in Frames BY <1>7, <2>2 DEF Frames
  <2> HIDE DEF call
  <2>4. Append(stack, call) \in Seq(Suspended) BY <1>1, <2>1
  <2> QED BY <1>7, <2>3, <2>4 DEF Caller, call
<1>8. Caller BY <1>1, <1>7 DEF TextDone, Caller
<1> QED BY <1>6, <1>8

LEMMA QuitSteps == ASSUME DialogsInv, Quit PROVE Boxes /\ Caller
<1>1. /\ screen = "quit" /\ screen' \in {"quit", "over", "conf"}
      /\ UNCHANGED <<menuRest, listVars, fieldVars, textVars, stack>>
      /\ frame' \in {frame, Main} /\ stdscr' \in Sizes
  BY Terminal DEF Quit
<1>2. MenuNext /\ MenuIsGone' BY <1>1, GoneMenuSteps DEF DialogsInv
<1>3. ~Showing' BY <1>1 DEF textVars, Showing, DialogsInv, TextScreens
<1>4. Main \in Frames BY DialogsAssumption DEF Main, Frames
<1> QED BY <1>1, <1>2, <1>3, <1>4 DEF Boxes, Caller, DialogsInv

\* Whatever menuconfig does, every box only sees steps of its own.
LEMMA EveryStep == ASSUME DialogsInv, Next PROVE Boxes /\ Caller
<1>1. CASE ShowMenu \/ InMenu \/ InList \/ InField \/ InText
  <2>1. Boxes
    BY <1>1, ShowMenuSteps, InMenuSteps, InListSteps, InFieldSteps, InTextSteps
  <2>2. frame' = frame /\ stack' = stack
    BY <1>1 DEF ShowMenu, InMenu, InList, InField, InText, confVars
  <2> QED BY <2>1, <2>2 DEF Caller, DialogsInv
<1> QED BY <1>1, ConfSteps, LeaveSteps, AnswerSteps, TextDoneSteps, QuitSteps DEF Next

LEMMA DialogsStep ==
    DialogsInv /\ [Next]_vars =>
      /\ DialogsInv'
      /\ [MenuNext]_menuVars /\ [ListNext]_listVars /\ [FieldNext]_fieldVars
      /\ [TextNext]_textVars
<1> SUFFICES ASSUME DialogsInv, [Next]_vars
             PROVE  /\ DialogsInv'
                    /\ [MenuNext]_menuVars /\ [ListNext]_listVars /\ [FieldNext]_fieldVars
                    /\ [TextNext]_textVars
  OBVIOUS
<1>1. Boxes /\ Caller
  <2>1. CASE Next BY <2>1, EveryStep
  <2>2. CASE UNCHANGED vars
    <3>1. /\ UNCHANGED menuVars /\ UNCHANGED listVars /\ UNCHANGED fieldVars
          /\ UNCHANGED textVars /\ screen' = screen /\ frame' = frame /\ stack' = stack
      BY <2>2 DEF vars, confVars
    <3>2. MenuIsGone => MenuIsGone' BY <3>1 DEF menuVars, MenuIsGone
    <3>3. Showing' = Showing BY <3>1 DEF textVars, Showing
    <3> QED BY <3>1, <3>2, <3>3 DEF Boxes, Caller, DialogsInv
  <2> QED BY <2>1, <2>2
<1>2. MenuInv' BY <1>1, MenuInvNext DEF Boxes, DialogsInv
<1>3. TextInv' BY <1>1, TextInvNext DEF Boxes, DialogsInv
<1> QED BY <1>1, <1>2, <1>3 DEF Boxes, Caller, DialogsInv

LEMMA DialogsBegin ==
    Init => DialogsInv /\ MenuInit /\ ListInit /\ FieldInit /\ TextInit
<1> SUFFICES ASSUME Init PROVE DialogsInv BY DEF Init
<1>1. MenuInit /\ TextInit /\ screen = "conf" /\ frame = Main /\ stack = <<>> BY DEF Init
<1>2. MenuInv /\ TextInv BY <1>1, MenuInvInit, TextInvInit
<1>3. Main \in Frames BY DialogsAssumption DEF Main, Frames
<1>4. MenuIsGone BY <1>1 DEF MenuInit, MenuIsGone
<1>5. ~Showing BY <1>1 DEF TextInit, Showing
<1> QED BY <1>1, <1>2, <1>3, <1>4, <1>5 DEF DialogsInv

\* Every behaviour of menuconfig is one of each box.
LEMMA EveryBox == Spec => MenuSpec /\ ListSpec /\ FieldSpec /\ TextSpec
  BY DialogsBegin, DialogsStep, PTL DEF Spec, MenuSpec, ListSpec, FieldSpec, TextSpec

\* menuconfig's menus and radio lists show what the keys act on, for every
\* tree of menus, every terminal and all that is done in between: a menu is
\* called again with a list built anew and a position that was saved of
\* another one (mconf.c, conf and conf_choice; lxdialog/menubox.c).
THEOREM ScreenAlwaysShowsTheItems == Spec => []ScreenShowsTheItems
<1>1. LinesShowTheItems /\ OptionsShown => ScreenShowsTheItems BY DEF ScreenShowsTheItems
<1> QED BY <1>1, EveryBox, LinesAlwaysShowTheItems, ChecklistShowsTheOptions, PTL

\* The input boxes of menuconfig show the text that will be returned: strings,
\* file names and search strings, each edited in the one buffer there is
\* (lxdialog/inputbox.c, dialog_input_result; mconf.c, conf_string, conf_save,
\* conf_load and search_conf).
THEOREM DialogsShowTheText == Spec => []FieldShowsTheText
  BY EveryBox, FieldAlwaysShowsTheText, PTL

\* In the texts of menuconfig a key is only refused when it has nothing to
\* show: help, messages, and search results that are returned to at the line
\* they were left at (lxdialog/textbox.c; mconf.c, search_conf).
THEOREM DialogsKnowTheEdges == Spec => []EdgesAreKnown
  BY EveryBox, EdgesAlwaysKnown, PTL

\* In menuconfig too a menu is a cursor over its list: conf() may forget
\* where the window was scrolled to.
THEOREM DialogsImplementCursor == Spec => ImplementsCursor
  BY EveryBox, MenuImplementsCursor, PTL
=============================================================================
