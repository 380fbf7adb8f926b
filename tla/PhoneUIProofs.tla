--------------------------- MODULE PhoneUIProofs ----------------------------
(***************************************************************************)
(* The safety of the kernel for every set of keys, every queue length and  *)
(* every number of apps and contacts.                                      *)
(***************************************************************************)
EXTENDS PhoneUI, SequenceTheorems, TLAPS

-----------------------------------------------------------------------------
(* The keypad's queue.                                                     *)

\* Reading the keypad leaves a queue of presses, and only presses that were
\* already in it (read_keypress takes one event).
LEMMA TakeKeyKeeps ==
    ASSUME QueueTypeOK, TakeKey
    PROVE  /\ QueueTypeOK'
           /\ AllFresh => AllFresh'
           /\ Key \in Keys
<1>1. queue \in Seq(KeyEvent) /\ queue # <<>> /\ queue' = Tail(queue)
  BY DEF QueueTypeOK, TakeKey, Pending
<1>2. Tail(queue) \in Seq(KeyEvent) /\ Head(queue) \in KeyEvent
  BY <1>1
<1>3. AllFresh => \A i \in DOMAIN Tail(queue) : Tail(queue)[i].fresh
  BY <1>1 DEF AllFresh
<1> QED
  BY <1>1, <1>2, <1>3 DEF QueueTypeOK, AllFresh, Key, KeyEvent

\* A press appends one fresh event.
LEMMA PressKeeps ==
    ASSUME QueueTypeOK, NEW k \in Keys, Press(k)
    PROVE  QueueTypeOK' /\ (AllFresh => AllFresh')
<1> DEFINE e == [code |-> k, fresh |-> TRUE]
<1>1. queue \in Seq(KeyEvent) /\ e \in KeyEvent /\ queue' = Append(queue, e)
  BY DEF QueueTypeOK, Press, KeyEvent
<1>2. Append(queue, e) \in Seq(KeyEvent)
  BY <1>1
<1>3. AllFresh => \A i \in DOMAIN Append(queue, e) : Append(queue, e)[i].fresh
  BY <1>1 DEF AllFresh
<1> QED
  BY <1>1, <1>2, <1>3 DEF QueueTypeOK, AllFresh

\* Opening a screen keeps the presses that are pending.
LEMMA AgedType ==
    ASSUME NEW q \in Seq(KeyEvent)
    PROVE  Aged(q) \in Seq(KeyEvent)
<1>1. DOMAIN q = 1..Len(q) /\ Len(q) \in Nat
  OBVIOUS
<1>2. ASSUME NEW i \in 1..Len(q)
      PROVE  [code |-> q[i].code, fresh |-> FALSE] \in KeyEvent
  <2>1. q[i] \in KeyEvent
    OBVIOUS
  <2> QED
    BY <2>1 DEF KeyEvent
<1>3. Aged(q) \in [1..Len(q) -> KeyEvent]
  BY <1>1, <1>2, Zenon DEF Aged
<1> QED
  BY <1>1, <1>3, SeqDef, Zenon

\* Tail of a queue of presses.
LEMMA TailType ==
    ASSUME QueueTypeOK, Pending
    PROVE  Tail(queue) \in Seq(KeyEvent) /\ Key \in Keys
<1>1. Tail(queue) \in Seq(KeyEvent) /\ Head(queue) \in KeyEvent
  BY DEF QueueTypeOK, Pending
<1> QED
  BY <1>1 DEF Key, KeyEvent

\* Nothing pending is the empty queue, and all of that is fresh.
LEMMA EmptyQueue ==
    /\ ~Pending => AllFresh
    /\ queue' = <<>> => QueueTypeOK' /\ AllFresh'
<1>1. <<>> \in Seq(KeyEvent) /\ DOMAIN <<>> = {}
  OBVIOUS
<1>2. ~Pending => AllFresh
  BY <1>1 DEF Pending, AllFresh
<1>3. ASSUME queue' = <<>> PROVE QueueTypeOK' /\ AllFresh'
  BY <1>1, <1>3 DEF QueueTypeOK, AllFresh
<1> QED
  BY <1>2, <1>3

\* A step that does not touch the keypad.
LEMMA QueueSame ==
    ASSUME UNCHANGED queue
    PROVE  /\ QueueTypeOK => QueueTypeOK'
           /\ AllFresh => AllFresh'
  BY DEF QueueTypeOK, AllFresh

-----------------------------------------------------------------------------
(* The inductive invariant.  What the properties of PhoneUI lack is where  *)
(* the thread may be in each state: the call screen is only entered from   *)
(* HOME_DIALING, the menu only from MENU, and a line survives only there.  *)

\* The state, the line and the modem before the main loop first runs.
BootIsIdle ==
    at \in BootPoints \ {"boot"} =>
        state = "HOME" /\ dial_buffer = <<>> /\ requested = NoCall

\* Which states each screen runs in.
ScreenState ==
    /\ at \in {"menu_flush", "menu", "app"} => state = "MENU"
    /\ at \in {"call_flush", "call"} => state = "HOME_DIALING"
    /\ at \in {"contacts", "no_contacts"} => state = "HOME"
    /\ at = "read" => state # "MENU"

\* While a key is awaited the framebuffer shows the line.
LineIsShown == at = "read" => shown = dial_buffer

\* A menu starts on its first app.
MenuStartsAtTop == at = "menu_flush" => selected_index = 0

\* Past the notice, it has been dismissed, now or on an earlier boot.
NoticeIsBehind == at \in {"ack", "load"} => seen

Inv == /\ TypeOK
       /\ LineMatchesState
       /\ CallBelongsToScreen
       /\ OnlyFreshKeys
       /\ NoticeComesFirst
       /\ CursorOnItem
       /\ BootIsIdle
       /\ ScreenState
       /\ LineIsShown
       /\ MenuStartsAtTop
       /\ NoticeIsBehind

-----------------------------------------------------------------------------
\* A typed key gives a character of the line.
LEMMA DialChars == \A c \in DOMAIN DEV_KEYMAP : DEV_KEYMAP[c] \in DialChar
  BY DEF DialChar

\* A screen that opens finds presses in the queue, whichever they are.
LEMMA OpenKeeps ==
    ASSUME QueueTypeOK, NEW screen, NEW q \in {queue, Tail(queue)},
           Open(screen, q), Pending \/ q = queue
    PROVE  at' = screen /\ QueueTypeOK'
<1>1. q \in Seq(KeyEvent)
  BY TailType DEF QueueTypeOK
<1>2. Aged(q) \in Seq(KeyEvent)
  BY <1>1, AgedType
<1> QED
  BY <1>2 DEF Open, QueueTypeOK

\* A process that dies leaves an empty queue.
LEMMA CrashKeeps ==
    ASSUME Crash
    PROVE  at' = "crashed" /\ QueueTypeOK'
  BY EmptyQueue DEF Crash

-----------------------------------------------------------------------------
(* Every step keeps the invariant.                                         *)

LEMMA InvInit == Init => Inv
<1>1. Init => QueueTypeOK
  BY DEF Init, QueueTypeOK
<1>2. Init => NoticeComesFirst
  BY Zenon DEF Init, NoticeComesFirst, MainPoints
<1>3. Init => TypeOK
  <2>1. <<>> \in Seq(DialChar)
    OBVIOUS
  <2>2. Init => acked \in BOOLEAN /\ seen \in BOOLEAN /\ layout \in BOOLEAN
    BY Zenon DEF Init
  <2> QED
    BY <1>1, <2>1, <2>2, PhoneUIAssumption DEF Init, TypeOK, Points, BootPoints, NoCall
<1> QED
  BY <1>2, <1>3
  DEF Init, Inv, MainPoints, BootPoints, LineMatchesState,
      CallBelongsToScreen, OnlyFreshKeys, CursorOnItem, BootIsIdle,
      ScreenState, LineIsShown, MenuStartsAtTop, NoticeIsBehind, NoCall

LEMMA InvStep ==
    ASSUME Inv, [Next]_vars
    PROVE  Inv'
<1> USE DEF Inv, TypeOK, LineMatchesState, CallBelongsToScreen, OnlyFreshKeys,
        NoticeComesFirst, CursorOnItem, BootIsIdle, ScreenState, LineIsShown, MenuStartsAtTop, NoticeIsBehind,
        NoCall, Points, BootPoints, MainPoints, home, lists, loaded, notice
<1>1. CASE Construct
  BY <1>1, EmptyQueue DEF Construct
<1>2. CASE NoticeDrawn
  BY <1>2, QueueSame, EmptyQueue DEF NoticeDrawn
<1>3. CASE NoticeKey
  <2>1. CASE at' = "ack" /\ seen' = TRUE
    BY <1>3, <2>1, TakeKeyKeeps DEF NoticeKey
  <2>2. CASE UNCHANGED <<at, seen>>
    BY <1>3, <2>2, TakeKeyKeeps DEF NoticeKey
  <2> QED
    BY <1>3, <2>1, <2>2 DEF NoticeKey
<1>4. CASE WriteAck
  <2>1. NoticeComesFirst' /\ acked' \in BOOLEAN
    BY <1>4, Zenon DEF WriteAck
  <2> QED
    BY <1>4, <2>1, QueueSame DEF WriteAck
<1>5. CASE Load
  BY <1>5, QueueSame DEF Load
<1>6. CASE DrawHome
  BY <1>6, QueueSame DEF DrawHome
<1>7. CASE OpenMenu
  BY <1>7, OpenKeeps DEF OpenMenu
<1>8. CASE NoKey
  BY <1>8, QueueSame DEF NoKey
<1>9. CASE ChooseMenu
  BY <1>9, TakeKeyKeeps DEF ChooseMenu
<1>10. CASE DialTyped
  BY <1>10, OpenKeeps DEF DialTyped
<1>11. CASE EraseDigit
  BY <1>11, TakeKeyKeeps DEF EraseDigit
<1>12. CASE OpenContacts
  BY <1>12, OpenKeeps, CrashKeeps DEF OpenContacts
<1>13. CASE TypeDigit
  <2>1. /\ dial_buffer' \in Seq(DialChar)
        /\ dial_buffer' # <<>>
    <3>1. DEV_KEYMAP[Key] \in DialChar
      BY <1>13, DialChars DEF TypeDigit
    <3> QED
      BY <1>13, <3>1 DEF TypeDigit
  <2> QED
    BY <1>13, <2>1, TakeKeyKeeps DEF TypeDigit
<1>14. CASE IgnoreKey
  BY <1>14, TakeKeyKeeps DEF IgnoreKey
<1>15. CASE MenuDrawn
  BY <1>15, QueueSame, EmptyQueue DEF MenuDrawn
<1>16. CASE MenuMove
  <2>1. CASE napps = 0
    BY <1>16, <2>1, CrashKeeps DEF MenuMove
  <2>2. CASE napps > 0
    <3>1. /\ selected_index + 1 \in Nat
          /\ selected_index + napps - 1 \in Nat
          /\ napps \in Nat
      BY <2>2, PhoneUIAssumption
    <3>2. selected_index' \in 0..(napps - 1)
      BY <1>16, <2>2, <3>1 DEF MenuMove
    <3>3. QueueTypeOK' /\ AllFresh'
      BY <1>16, <2>2, TakeKeyKeeps DEF MenuMove, TakeKey
    <3> QED
      BY <1>16, <2>2, <3>2, <3>3, PhoneUIAssumption DEF MenuMove
  <2> QED
    BY <2>1, <2>2, PhoneUIAssumption
<1>17. CASE MenuSelect
  BY <1>17, OpenKeeps, CrashKeeps DEF MenuSelect
<1>18. CASE MenuBack
  BY <1>18, TakeKeyKeeps DEF MenuBack
<1>19. CASE MenuIgnore
  BY <1>19, TakeKeyKeeps DEF MenuIgnore, Ignore
<1>20. CASE AppReads
  BY <1>20, TakeKeyKeeps DEF AppReads
<1>21. CASE AppReturns
  BY <1>21, QueueSame DEF AppReturns
<1>22. CASE AppRaises
  BY <1>22, CrashKeeps DEF AppRaises
<1>23. CASE NoContactsShown
  BY <1>23, QueueSame DEF NoContactsShown
<1>24. CASE ListMove
  BY <1>24, TakeKeyKeeps DEF ListMove
<1>25. CASE ListSelect
  BY <1>25, CrashKeeps DEF ListSelect
<1>26. CASE ListBack
  BY <1>26, TakeKeyKeeps DEF ListBack
<1>27. CASE ListIgnore
  BY <1>27, TakeKeyKeeps DEF ListIgnore, Ignore
<1>28. CASE CallDrawn
  BY <1>28, QueueSame, EmptyQueue, CrashKeeps DEF CallDrawn
<1>29. CASE EndCall
  BY <1>29, TakeKeyKeeps DEF EndCall
<1>30. CASE CallIgnore
  BY <1>30, TakeKeyKeeps DEF CallIgnore, Ignore
<1>31. CASE Flush
  BY <1>31, TakeKeyKeeps DEF Flush
<1>32. CASE PressKey
  <2>1. QueueTypeOK' /\ (AllFresh => AllFresh')
    BY <1>32, PressKeeps DEF PressKey
  <2> QED
    BY <1>32, <2>1 DEF PressKey
<1>33. CASE Restart
  BY <1>33, EmptyQueue DEF Restart
<1>34. CASE UNCHANGED vars
  BY <1>34, QueueSame DEF vars
<1> QED
  BY <1>1, <1>2, <1>3, <1>4, <1>5, <1>6, <1>7, <1>8, <1>9, <1>10, <1>11, <1>12, <1>13, <1>14, <1>15, <1>16, <1>17, <1>18, <1>19, <1>20, <1>21, <1>22, <1>23, <1>24, <1>25, <1>26, <1>27, <1>28, <1>29, <1>30, <1>31, <1>32, <1>33, <1>34
  DEF Next, Kernel, Boot, MainLoop, HandleInput, Menu, App, Contacts, Call

-----------------------------------------------------------------------------
(* The theorems.                                                           *)

THEOREM InvHolds == Spec => []Inv
  BY InvInit, InvStep, PTL DEF Spec

\* Type correctness of the kernel, for every bound on its inputs.
THEOREM TypeCorrect == Spec => []TypeOK
  BY InvHolds, PTL DEF Inv

\* There is a line to dial exactly in HOME_DIALING (handle_input), so Enter
\* never hands the modem an empty number.
THEOREM LineAlwaysMatchesState == Spec => []LineMatchesState
  BY InvHolds, PTL DEF Inv

\* While the kernel runs the modem is off hook exactly on the call screen, for
\* the number on the line (handle_input's dial, show_calling's hangup).
THEOREM CallAlwaysBelongsToScreen == Spec => []CallBelongsToScreen
  BY InvHolds, PTL DEF Inv

\* The notice, the menu and the call screen obey no key pressed before they
\* opened, however the presses interleave with their drain loops.
THEOREM FlushedScreensSeeFreshKeys == Spec => []OnlyFreshKeys
  BY InvHolds, PTL DEF Inv

\* No screen of the phone, and no acknowledgement file, precedes a dismissed
\* notice, across restarts and failed writes of the file.
THEOREM NoticeAlwaysComesFirst == Spec => []NoticeComesFirst
  BY InvHolds, PTL DEF Inv

\* Enter on an open list picks an item that exists, unless the menu is empty.
THEOREM CursorAlwaysOnItem == Spec => []CursorOnItem
  BY InvHolds, PTL DEF Inv

\* Whatever is dialled was on the screen when Enter was read.
THEOREM DialledIsShown == Spec => DialsWhatIsShown
<1>1. ASSUME Inv, [Next]_vars
      PROVE  [requested' \notin {requested, NoCall} => requested' = shown]_vars
  <2>1. CASE DialTyped
    BY <1>1, <2>1 DEF DialTyped, Inv, LineIsShown
  <2>2. ASSUME ~DialTyped PROVE requested' \in {requested, NoCall}
    BY <1>1, <2>2 DEF Next, Kernel, Boot, MainLoop, HandleInput, Menu, App, Contacts, Call,
       Construct, NoticeDrawn, NoticeKey, WriteAck, Load, DrawHome, OpenMenu, NoKey,
       ChooseMenu, EraseDigit, OpenContacts, TypeDigit, IgnoreKey, MenuDrawn, MenuMove,
       MenuSelect, MenuBack, MenuIgnore, AppReads, AppReturns, AppRaises, NoContactsShown,
       ListMove, ListSelect, ListBack, ListIgnore, CallDrawn, EndCall, CallIgnore, Flush,
       PressKey, Restart, vars
  <2> QED
    BY <2>1, <2>2
<1> QED
  BY <1>1, InvHolds, PTL DEF Spec, DialsWhatIsShown
=============================================================================
