------------------------------ MODULE PhoneUI -------------------------------
(***************************************************************************)
(* The kernel of the phone (System/core/main.py) with the screens it opens *)
(* itself: the alpha notice at boot, the home screen and its dialling      *)
(* line, the main menu (AppSelector), the contact list opened from home    *)
(* and the call screen.                                                    *)
(*                                                                         *)
(* One thread runs everything.  A screen is a blocking loop of its own     *)
(* over the same keypad, so "at" names the loop the thread is in; what     *)
(* runs beside it is the user, who may press a key between any two steps,  *)
(* and the power switch.  An app is a function the kernel calls: here it   *)
(* reads keys and returns or raises, and modules of its own say what it    *)
(* does.                                                                   *)
(***************************************************************************)
EXTENDS Keypad

CONSTANTS MaxApps,       \* bound: apps in the app directory
          MaxContacts,   \* bound: rows of the phone book
          MaxDial        \* bound: digits the user types on one line

ASSUME PhoneUIAssumption ==
    /\ MaxApps \in Nat
    /\ MaxContacts \in Nat
    /\ MaxDial \in Nat

VARIABLES
    at,              \* the loop or call the UI thread is in
    state,           \* NeoDCT_UI.state
    dial_buffer,     \* NeoDCT_UI.dial_buffer
    shown,           \* the number on the framebuffer
    selected_index,  \* cursor of the list that is open
    rows,            \* how many contacts the open contact list fetched
    layout,          \* home_layout is loaded (FALSE: load_layout gave None)
    napps,           \* how many apps the scan at boot found
    requested,       \* the number the modem was told to dial and not yet
                     \*   told to hang up, or NoCall
    acked,           \* the acknowledgement file of the notice exists
    seen             \* history: the user has dismissed the notice

home   == <<state, dial_buffer, shown>>
lists  == <<selected_index, rows>>
loaded == <<layout, napps>>
notice == <<acked, seen>>
vars   == <<queue, at, home, lists, loaded, requested, notice>>

-----------------------------------------------------------------------------
\* What the keys type on the home screen.  28 is in the table too ("#") but
\* handle_input tests it as Enter first.
DEV_KEYMAP ==
    [c \in (2..12) \cup {28, 42, 51, 52} |->
        IF c \in 2..12
        THEN <<"1", "2", "3", "4", "5", "6", "7", "8", "9", "0", "-">>[c - 1]
        ELSE CASE c = 28 -> "#" [] c = 42 -> "*" [] c = 51 -> "," [] c = 52 -> "."]

DialChar == {DEV_KEYMAP[c] : c \in DOMAIN DEV_KEYMAP}

\* The line is never dialled empty, so the empty one stands for no call.
NoCall == <<>>

BootPoints == {"boot", "notice_flush", "notice", "ack", "load"}
MainPoints == {"update", "read", "menu_flush", "menu", "app",
               "no_contacts", "contacts", "call_flush", "call"}
Points     == BootPoints \cup MainPoints \cup {"crashed"}

TypeOK ==
    /\ QueueTypeOK
    /\ at \in Points
    /\ state \in {"HOME", "HOME_DIALING", "MENU"}
    /\ dial_buffer \in Seq(DialChar)
    /\ shown \in Seq(DialChar)
    /\ selected_index \in Nat
    /\ rows \in 0..MaxContacts
    /\ layout \in BOOLEAN
    /\ napps \in 0..MaxApps
    /\ requested \in Seq(DialChar)
    /\ acked \in BOOLEAN
    /\ seen \in BOOLEAN

Init ==
    /\ queue = <<>>
    /\ at = "boot"
    /\ state = "HOME"
    /\ dial_buffer = <<>>
    /\ shown = <<>>
    /\ selected_index = 0
    /\ rows = 0
    /\ layout = FALSE
    /\ napps = 0
    /\ requested = NoCall
    /\ acked = FALSE
    /\ seen = FALSE

-----------------------------------------------------------------------------
(* What the steps are made of.                                             *)

\* An exception nothing catches ends the process; its keypad goes with it.
Crash == at' = "crashed" /\ queue' = <<>>

\* Some screen's show() is entered; what is pending was pressed before it.
Open(screen, pending) == at' = screen /\ queue' = Aged(pending)

\* A press the open screen has no use for.
Ignore(keys) == Key \notin keys /\ UNCHANGED <<at, lists>>

-----------------------------------------------------------------------------
(* Boot: NeoDCT_UI.__init__.                                               *)

\* The keypad is opened here: what was pressed before is not delivered.
Construct ==
    /\ at = "boot"
    /\ dial_buffer' = <<>>
    /\ state' = "HOME"
    /\ requested' = NoCall
    /\ queue' = <<>>
    /\ at' = IF acked THEN "load" ELSE "notice_flush"
    /\ UNCHANGED <<shown, lists, loaded, notice>>

\* Fault: the notice counts as acknowledged once it is drawn.
NoticeDrawn_AcksEarly ==
    /\ at = "notice_flush" /\ ~Pending
    /\ at' = "notice"
    /\ acked' = TRUE
    /\ UNCHANGED <<queue, home, lists, loaded, requested, seen>>

NoticeDrawn ==
    /\ at = "notice_flush" /\ ~Pending
    /\ at' = "notice"
    /\ UNCHANGED <<queue, home, lists, loaded, requested, notice>>

\* Fault: the dialog knows its accept key only.
NoticeKey_EnterOnly ==
    /\ at = "notice"
    /\ TakeKey
    /\ \/ Key = KEY_ENTER /\ at' = "ack" /\ seen' = TRUE
       \/ Key # KEY_ENTER /\ UNCHANGED <<at, seen>>
    /\ UNCHANGED <<home, lists, loaded, requested, acked>>

NoticeKey ==
    /\ at = "notice"
    /\ TakeKey
    /\ \/ /\ Key \in {KEY_ENTER, KEY_BACK}
          /\ at' = "ack"
          /\ seen' = TRUE
       \/ /\ Key \notin {KEY_ENTER, KEY_BACK}
          /\ UNCHANGED <<at, seen>>
    /\ UNCHANGED <<home, lists, loaded, requested, acked>>

\* "Best-effort persistence": the file may not get written.
WriteAck ==
    /\ at = "ack"
    /\ acked' \in {acked, TRUE}
    /\ at' = "load"
    /\ UNCHANGED <<queue, home, lists, loaded, requested, seen>>

\* The home layout is read, then the app directory scanned; a layout that is
\* missing or damaged gives None, a scan that fails keeps what it has found.
Load ==
    /\ at = "load"
    /\ layout' \in BOOLEAN
    /\ napps' \in 0..MaxApps
    /\ at' = "update"
    /\ UNCHANGED <<queue, home, lists, requested, notice>>

-----------------------------------------------------------------------------
(* The main loop: update(), then read_keypress(0.1), then handle_input().  *)

DrawHome ==
    /\ at = "update" /\ state # "MENU"
    /\ shown' = IF state = "HOME" THEN <<>> ELSE dial_buffer
    /\ at' = "read"
    /\ UNCHANGED <<queue, state, dial_buffer, lists, loaded, requested, notice>>

\* render_menu(): a new AppSelector, whose show() first drains the keypad.
OpenMenu ==
    /\ at = "update" /\ state = "MENU"
    /\ Open("menu_flush", queue)
    /\ selected_index' = 0
    /\ UNCHANGED <<home, rows, loaded, requested, notice>>

NoKey ==
    /\ at = "read" /\ ~Pending
    /\ at' = "update"
    /\ UNCHANGED <<queue, home, lists, loaded, requested, notice>>

ChooseMenu ==
    /\ at = "read" /\ TakeKey
    /\ Key = KEY_ENTER /\ state = "HOME"
    /\ state' = "MENU"
    /\ at' = "update"
    /\ UNCHANGED <<dial_buffer, shown, lists, loaded, requested, notice>>

DialTyped ==
    /\ at = "read" /\ Pending
    /\ Key = KEY_ENTER /\ state = "HOME_DIALING"
    /\ requested' = dial_buffer
    /\ Open("call_flush", Tail(queue))
    /\ UNCHANGED <<home, lists, loaded, notice>>

EraseDigit ==
    /\ at = "read" /\ TakeKey
    /\ Key = KEY_BACK /\ state = "HOME_DIALING"
    /\ dial_buffer' = SubSeq(dial_buffer, 1, Len(dial_buffer) - 1)
    /\ state' = IF dial_buffer' = <<>> THEN "HOME" ELSE state
    /\ at' = "update"
    /\ UNCHANGED <<shown, lists, loaded, requested, notice>>

\* show_contact_selector(): the rows are fetched, then listed.  A database
\* that cannot be read raises out of the main loop.
OpenContacts ==
    /\ at = "read" /\ Pending
    /\ Key \in {KEY_UP, KEY_DOWN} /\ state = "HOME"
    /\ \/ /\ \E n \in 0..MaxContacts :
                /\ rows' = n
                /\ Open(IF n = 0 THEN "no_contacts" ELSE "contacts", Tail(queue))
          /\ selected_index' = 0
       \/ Crash /\ UNCHANGED lists
    /\ UNCHANGED <<home, loaded, requested, notice>>

\* Fault: the loop reads on without redrawing.
TypeDigit_NoRedraw ==
    /\ at = "read" /\ TakeKey
    /\ Key \in DOMAIN DEV_KEYMAP \ {KEY_ENTER} /\ state \in {"HOME", "HOME_DIALING"}
    /\ dial_buffer' = Append(dial_buffer, DEV_KEYMAP[Key])
    /\ state' = "HOME_DIALING"
    /\ UNCHANGED <<at, shown, lists, loaded, requested, notice>>

TypeDigit ==
    /\ at = "read" /\ TakeKey
    /\ Key \in DOMAIN DEV_KEYMAP \ {KEY_ENTER} /\ state \in {"HOME", "HOME_DIALING"}
    /\ dial_buffer' = Append(dial_buffer, DEV_KEYMAP[Key])
    /\ state' = "HOME_DIALING"
    /\ at' = "update"
    /\ UNCHANGED <<shown, lists, loaded, requested, notice>>

\* No branch of handle_input takes the key.
IgnoreKey ==
    /\ at = "read" /\ TakeKey
    /\ \/ Key = KEY_BACK /\ state = "HOME"
       \/ Key \in {KEY_UP, KEY_DOWN} /\ state = "HOME_DIALING"
       \/ Key \notin DOMAIN DEV_KEYMAP \cup {KEY_BACK, KEY_UP, KEY_DOWN}
    /\ at' = "update"
    /\ UNCHANGED <<home, lists, loaded, requested, notice>>

-----------------------------------------------------------------------------
(* The drain loop that the notice, the menu and the call screen start      *)
(* with.  Presses that arrive while it runs are dropped too.               *)

Flush ==
    /\ at \in {"notice_flush", "menu_flush", "call_flush"}
    /\ TakeKey
    /\ UNCHANGED <<at, home, lists, loaded, requested, notice>>

-----------------------------------------------------------------------------
(* The main menu.                                                          *)

\* Fault: the drain loop gives up while presses are still pending.
MenuDrawn_NotDrained ==
    /\ at = "menu_flush"
    /\ at' = "menu"
    /\ UNCHANGED <<queue, home, lists, loaded, requested, notice>>

MenuDrawn ==
    /\ at = "menu_flush" /\ ~Pending
    /\ at' = "menu"
    /\ UNCHANGED <<queue, home, lists, loaded, requested, notice>>

\* The cursor goes round; on the "No Apps" screen the modulo divides by 0.
MenuMove ==
    /\ at = "menu" /\ Pending /\ Key \in {KEY_UP, KEY_DOWN}
    /\ \/ /\ napps > 0
          /\ queue' = Tail(queue)
          /\ selected_index' = (IF Key = KEY_DOWN THEN selected_index + 1
                                ELSE selected_index + napps - 1) % napps
          /\ UNCHANGED at
       \/ napps = 0 /\ Crash /\ UNCHANGED selected_index
    /\ UNCHANGED <<home, rows, loaded, requested, notice>>

\* launch_app(self.apps[choice]): with no apps index 0 is out of range.
MenuSelect ==
    /\ at = "menu" /\ Pending /\ Key = KEY_ENTER
    /\ IF selected_index < napps THEN Open("app", Tail(queue)) ELSE Crash
    /\ UNCHANGED <<home, lists, loaded, requested, notice>>

MenuBack ==
    /\ at = "menu" /\ TakeKey /\ Key = KEY_BACK
    /\ state' = "HOME"
    /\ at' = "update"
    /\ UNCHANGED <<dial_buffer, shown, lists, loaded, requested, notice>>

MenuIgnore ==
    /\ at = "menu" /\ TakeKey
    /\ Ignore({KEY_UP, KEY_DOWN, KEY_ENTER, KEY_BACK})
    /\ UNCHANGED <<home, loaded, requested, notice>>

-----------------------------------------------------------------------------
(* An app: it reads keys for as long as it likes, then run() returns or    *)
(* raises; launch_app has no handler.                                      *)

AppReads ==
    /\ at = "app" /\ TakeKey
    /\ UNCHANGED <<at, home, lists, loaded, requested, notice>>

AppReturns ==
    /\ at = "app"
    /\ state' = "HOME"
    /\ at' = "update"
    /\ UNCHANGED <<queue, dial_buffer, shown, lists, loaded, requested, notice>>

AppRaises ==
    /\ at = "app"
    /\ Crash
    /\ UNCHANGED <<home, lists, loaded, requested, notice>>

-----------------------------------------------------------------------------
(* The contact list opened from home: a VerticalList, which does not drain *)
(* the keypad.                                                             *)

NoContactsShown ==
    /\ at = "no_contacts"
    /\ at' = "update"
    /\ UNCHANGED <<queue, home, lists, loaded, requested, notice>>

ListMove ==
    /\ at = "contacts" /\ TakeKey /\ Key \in {KEY_UP, KEY_DOWN}
    /\ selected_index' =
           CASE Key = KEY_DOWN /\ selected_index < rows - 1 -> selected_index + 1
             [] Key = KEY_UP   /\ selected_index > 0        -> selected_index - 1
             [] OTHER                                       -> selected_index
    /\ UNCHANGED <<at, home, rows, loaded, requested, notice>>

\* The digit keys pick the item of that number, Enter the one under the cursor.
ListShortcut == Key \in 2..10 /\ Key - 2 < rows

\* show_contact_selector returns the pair (contact, index); handle_input takes
\* target[2] of it, which is out of range whatever the contact.
ListSelect ==
    /\ at = "contacts" /\ Pending
    /\ ListShortcut \/ Key = KEY_ENTER
    /\ Crash
    /\ UNCHANGED <<home, lists, loaded, requested, notice>>

ListBack ==
    /\ at = "contacts" /\ TakeKey /\ Key = KEY_BACK
    /\ at' = "update"
    /\ UNCHANGED <<home, lists, loaded, requested, notice>>

ListIgnore ==
    /\ at = "contacts" /\ TakeKey /\ ~ListShortcut
    /\ Ignore({KEY_UP, KEY_DOWN, KEY_ENTER, KEY_BACK})
    /\ UNCHANGED <<home, loaded, requested, notice>>

-----------------------------------------------------------------------------
(* The call screen: show_calling().                                        *)

\* The first draw reads the clock and the icons from the home layout.
CallDrawn ==
    /\ at = "call_flush" /\ ~Pending
    /\ IF layout THEN at' = "call" /\ UNCHANGED queue ELSE Crash
    /\ UNCHANGED <<home, lists, loaded, requested, notice>>

\* Fault: the centre key leaves the call screen without hanging up.
EndCall_NoHangup ==
    /\ at = "call" /\ TakeKey /\ Key \in {KEY_ENTER, KEY_BACK}
    /\ requested' = IF Key = KEY_BACK THEN NoCall ELSE requested
    /\ dial_buffer' = <<>>
    /\ state' = "HOME"
    /\ at' = "update"
    /\ UNCHANGED <<shown, lists, loaded, notice>>

EndCall ==
    /\ at = "call" /\ TakeKey /\ Key \in {KEY_ENTER, KEY_BACK}
    /\ requested' = NoCall
    /\ dial_buffer' = <<>>
    /\ state' = "HOME"
    /\ at' = "update"
    /\ UNCHANGED <<shown, lists, loaded, notice>>

CallIgnore ==
    /\ at = "call" /\ TakeKey
    /\ Ignore({KEY_ENTER, KEY_BACK})
    /\ UNCHANGED <<home, loaded, requested, notice>>

-----------------------------------------------------------------------------
(* The user and the power switch.                                          *)

\* Bound: the user does not type more than MaxDial digits on a line.
PressKey ==
    /\ at \notin {"boot", "crashed"}
    /\ \E k \in Keys :
          /\ k \in DOMAIN DEV_KEYMAP \ {KEY_ENTER}
                => Len(dial_buffer) + Len(queue) < MaxDial
          /\ Press(k)
    /\ UNCHANGED <<at, home, lists, loaded, requested, notice>>

\* The handset is switched off and on: the process starts over, the
\* acknowledgement file stays.
Restart ==
    /\ at' = "boot"
    /\ queue' = <<>>
    /\ UNCHANGED <<home, lists, loaded, requested, notice>>

-----------------------------------------------------------------------------
Boot        == Construct \/ NoticeDrawn \/ NoticeKey \/ WriteAck \/ Load
MainLoop    == DrawHome \/ OpenMenu \/ NoKey
HandleInput == ChooseMenu \/ DialTyped \/ EraseDigit \/ OpenContacts \/ TypeDigit \/ IgnoreKey
Menu        == MenuDrawn \/ MenuMove \/ MenuSelect \/ MenuBack \/ MenuIgnore
App         == AppReads \/ AppReturns \/ AppRaises
Contacts    == NoContactsShown \/ ListMove \/ ListSelect \/ ListBack \/ ListIgnore
Call        == CallDrawn \/ EndCall \/ CallIgnore

\* The steps of the kernel's own code.
Kernel == Boot \/ MainLoop \/ HandleInput \/ Flush \/ Menu \/ Contacts \/ Call

Next == Kernel \/ App \/ PressKey \/ Restart

\* The UI thread keeps running while it has something to do: every loop of the
\* kernel polls with a timeout and none waits on another thread.  Nothing is
\* assumed of the user, of the power switch or of an app.
Spec == Init /\ [][Next]_vars /\ WF_vars(Kernel)

-----------------------------------------------------------------------------
(* Safety.                                                                 *)

\* The dialling line and the state agree: there is a line to dial exactly in
\* HOME_DIALING, so Enter never dials an empty number and the home screen
\* never hides digits that a later key would extend (handle_input).
LineMatchesState ==
    at \in MainPoints => (state = "HOME_DIALING" <=> dial_buffer # <<>>)

\* The modem is off hook exactly while the call screen is up, and for the
\* number on the line: whichever way the screen is left, the call it placed is
\* not left behind (handle_input's dial against show_calling's hangup).  The
\* process may die with a call up.
CallBelongsToScreen ==
    at \in MainPoints =>
        requested = IF at \in {"call_flush", "call"} THEN dial_buffer ELSE NoCall

\* The notice, the menu and the call screen only ever see keys pressed after
\* they opened ("so we don't instantly 'End' due to buffered input").
OnlyFreshKeys == at \in {"notice", "menu", "call"} => AllFresh

\* The cursor of an open list is on one of its items, so what Enter picks
\* exists; only a menu without apps has no item to be on.
CursorOnItem ==
    /\ at = "menu" /\ napps > 0 => selected_index < napps
    /\ at = "contacts" => selected_index < rows

\* Nobody uses the phone, and no acknowledgement is on file, before a user has
\* dismissed the notice, whatever restarts come between.
NoticeComesFirst == acked \/ at \in MainPoints \cup {"crashed"} => seen

\* The number handed to the modem is the one that was on the screen when the
\* key was read: update() ran between the last digit and Enter.
DialsWhatIsShown ==
    [][requested' \notin {requested, NoCall} => requested' = shown]_vars

-----------------------------------------------------------------------------
(* Liveness.                                                               *)

\* C pressed at a screen of the kernel always leaves it, however many other
\* keys are ahead of it and however many follow.
BackLeavesScreen ==
    \A screen \in {"notice", "menu", "contacts", "call"} :
        (at = screen /\ FreshPress(KEY_BACK)) ~> (at # screen)

-----------------------------------------------------------------------------
(* What the sources say and the code does not do.                          *)

\* The list opened from home has the button "Call" and its selector "returns
\* the selected contact Tuple": choosing a contact should call it.
ContactListCalls ==
    [][at = "contacts" /\ at' # at => at' \in {"update", "call_flush", "boot"}]_vars
=============================================================================
