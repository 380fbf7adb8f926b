------------------------------ MODULE LongText ------------------------------
(***************************************************************************)
(* TextInputLong of System/ui/framework.py: the editor of a message.  The  *)
(* C key takes one character away, leaves the editor when there is none,   *)
(* and clears the whole text when it has been pressed fast and long enough *)
(* (handle_key).                                                           *)
(*                                                                         *)
(* The code keeps the wall-clock times of the last C and of the first C of *)
(* a series and compares them with `now`; here the two differences are     *)
(* kept, and Tick makes them grow as far as the comparisons can tell.      *)
(***************************************************************************)
EXTENDS Integers, Sequences

CONSTANTS Letters,      \* characters the keypad types
          Gap,          \* _backspace_hold_gap
          Duration,     \* _backspace_hold_duration
          Repeats,      \* _backspace_hold_repeats
          MaxText       \* bound: characters of the text

ASSUME LongTextAssumption ==
    /\ Gap \in Nat
    /\ Duration \in Nat
    /\ Repeats \in Nat
    /\ MaxText \in Nat

VARIABLES
    text,      \* the characters typed; the first of a text is a capital
    cursor,    \* how many of them are left of the cursor
    gap,       \* time since _last_backspace_time, up to Gap + 1
    hold,      \* time since _backspace_hold_start, up to Duration, or None
    count,     \* _backspace_repeat_count
    streak,    \* history: presses of C without a letter or a pause between
    span       \* history: time since the first of them, up to Duration

history == <<streak, span>>
vars    == <<text, cursor, gap, hold, count, history>>

Chars == [letter : Letters, capital : BOOLEAN]
None  == -1

TypeOK ==
    /\ text \in Seq(Chars)
    /\ cursor \in Nat
    /\ gap \in 0..(Gap + 1)
    /\ hold \in 0..Duration \cup {None}
    /\ count \in Nat
    /\ streak \in Nat
    /\ span \in 0..Duration

Init ==
    /\ text = <<>>
    /\ cursor = 0
    /\ gap = Gap + 1
    /\ hold = None
    /\ count = 0
    /\ streak = 0
    /\ span = 0

-----------------------------------------------------------------------------
\* text[:n] and text[n:]
Before(n) == SubSeq(text, 1, IF n <= Len(text) THEN n ELSE Len(text))
After(n)  == SubSeq(text, n + 1, Len(text))

Least(a, b) == IF a <= b THEN a ELSE b

\* Fault: the series is not ended.
TypeLetter_KeepsSeries(l) ==
    /\ Len(text) < MaxText
    /\ text' = Before(cursor) \o <<[letter |-> l, capital |-> text = <<>>]>> \o After(cursor)
    /\ cursor' = cursor + 1
    /\ streak' = 0
    /\ span' = 0
    /\ UNCHANGED <<gap, hold, count>>

\* Fault: the cursor does not follow the letter.
TypeLetter_CursorStays(l) ==
    /\ Len(text) < MaxText
    /\ text' = Before(cursor) \o <<[letter |-> l, capital |-> text = <<>>]>> \o After(cursor)
    /\ hold' = None
    /\ count' = 0
    /\ streak' = 0
    /\ span' = 0
    /\ UNCHANGED <<cursor, gap>>

\* The letter goes in at the cursor and ends a series of C presses.
TypeLetter(l) ==
    /\ Len(text) < MaxText
    /\ text' = Before(cursor) \o <<[letter |-> l, capital |-> text = <<>>]>> \o After(cursor)
    /\ cursor' = cursor + 1
    /\ hold' = None
    /\ count' = 0
    /\ streak' = 0
    /\ span' = 0
    /\ UNCHANGED gap

\* The series of presses as the user makes it.
Pressed ==
    /\ streak' = streak + 1
    /\ span' = IF streak = 0 THEN 0 ELSE span

EraseLetter ==
    /\ IF cursor > 0
       THEN /\ text' = Before(cursor - 1) \o After(cursor)
            /\ cursor' = cursor - 1
       ELSE UNCHANGED <<text, cursor>>
    /\ gap' = 0

\* The first C of a series.
FirstBack ==
    /\ text # <<>> /\ gap > Gap
    /\ hold' = 0
    /\ count' = 1
    /\ EraseLetter
    /\ Pressed

IsHeld == hold # None /\ hold >= Duration /\ count + 1 >= Repeats

NextBack ==
    /\ text # <<>> /\ gap <= Gap /\ ~IsHeld
    /\ count' = count + 1
    /\ UNCHANGED hold
    /\ EraseLetter
    /\ Pressed

HeldBack ==
    /\ text # <<>> /\ gap <= Gap /\ IsHeld
    /\ text' = <<>>
    /\ cursor' = 0
    /\ hold' = None
    /\ count' = 0
    /\ gap' = 0
    /\ streak' = 0
    /\ span' = 0

\* "empty_backspace": the screen returns; the next one makes a new editor.
LeaveEditor ==
    /\ text = <<>>
    /\ cursor' = 0
    /\ gap' = Gap + 1
    /\ hold' = None
    /\ count' = 0
    /\ streak' = 0
    /\ span' = 0
    /\ UNCHANGED text

\* Time goes by.  A pause longer than Gap ends the user's series.
Tick ==
    /\ gap' = Least(gap + 1, Gap + 1)
    /\ hold' = IF hold = None THEN None ELSE Least(hold + 1, Duration)
    /\ IF gap + 1 > Gap \/ streak = 0
       THEN streak' = 0 /\ span' = 0
       ELSE span' = Least(span + 1, Duration) /\ UNCHANGED streak
    /\ UNCHANGED <<text, cursor, count>>

Back == FirstBack \/ NextBack \/ HeldBack \/ LeaveEditor

Next == (\E l \in Letters : TypeLetter(l)) \/ Back \/ Tick

Spec == Init /\ [][Next]_vars

-----------------------------------------------------------------------------
(* Properties.                                                             *)

\* The capital is where a text starts and nowhere else, however letters were
\* erased and typed again: the cursor that the slices of handle_key use stays
\* at the end of the text.
CapitalStartsText ==
    /\ cursor = Len(text)
    /\ \A i \in 1..Len(text) : text[i].capital <=> i = 1

\* More than one character goes at a time only when C was pressed Repeats times
\* in a row, without a letter or a pause longer than Gap between, for at least
\* Duration: a letter or a pause makes the count start again.
ClearsOnlyWhenHeld ==
    [][Len(text) - Len(text') > 1 => streak + 1 >= Repeats /\ span >= Duration]_vars

\* The editor does nothing to a text but add at its end, take from its end and
\* clear it.
Draft == INSTANCE Draft

ImplementsDraft == Draft!Spec
=============================================================================
