------------------------------- MODULE Keypad -------------------------------
(***************************************************************************)
(* The keypad of the handset: the evdev device every screen reads.         *)
(*                                                                         *)
(* The device is a queue of key presses the process has not read yet.      *)
(* Nothing but the reader empties it, so a key pressed on one screen is    *)
(* still there when the next screen starts reading.  Each pending press    *)
(* carries a history bit: fresh means it was pressed after the show() of   *)
(* the screen that is now open was entered, stale means the user was       *)
(* looking at something else.  No code reads that bit.                     *)
(*                                                                         *)
(* Releases, auto-repeats and SYN events make read_keypress return None    *)
(* (core/main.py:359-361); they are left out.                              *)
(***************************************************************************)
EXTENDS Naturals, Sequences

CONSTANTS Keys,      \* the key codes a user may press
          MaxQueue   \* bound of the model: presses pending at one time

ASSUME KeypadAssumption ==
    /\ Keys \subseteq Nat
    /\ MaxQueue \in Nat \ {0}

VARIABLE queue       \* pending presses, oldest first

\* The codes the screens know by number.
KEY_ENTER == 28
KEY_BACK  == 14
KEY_UP    == 103
KEY_DOWN  == 108

KeyEvent == [code : Keys, fresh : BOOLEAN]

QueueTypeOK == queue \in Seq(KeyEvent)

Pending == queue # <<>>

\* The press the next read returns.
Key == Head(queue).code

\* The user presses k: the driver appends it.
Press(k) ==
    /\ Len(queue) < MaxQueue
    /\ queue' = Append(queue, [code |-> k, fresh |-> TRUE])

\* One read of the device takes the oldest press.
TakeKey == Pending /\ queue' = Tail(queue)

\* What is pending once another screen opens: the same presses, now stale.
Aged(q) == [i \in DOMAIN q |-> [code |-> q[i].code, fresh |-> FALSE]]

\* Every pending press was meant for the screen that is open.
AllFresh == \A i \in DOMAIN queue : queue[i].fresh

\* A press of k meant for the open screen is pending.
FreshPress(k) == \E i \in DOMAIN queue : queue[i] = [code |-> k, fresh |-> TRUE]
=============================================================================
