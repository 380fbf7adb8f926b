------------------------- MODULE MusicPlayerProofs --------------------------
(* What holds of the music player whatever pids the system has. *)
EXTENDS MusicPlayer, TLAPS

\* The only child that makes itself heard, or is paused, is the one held.
OneChild == \A p \in Pids : process[p] \in {"playing", "stopped"} => p = current_process

\* A song starts unpaused.
StartsPlaying ==
    at = "loading" => ~is_paused /\ process[current_process] \in {"playing", "zombie"}

Inv == TypeOK /\ OneChild /\ SignalsOwnChild /\ PauseIsTrue /\ StartsPlaying

LEMMA InitInv == Init => Inv
  BY DEF Init, Inv, TypeOK, OneChild, SignalsOwnChild, PauseIsTrue, StartsPlaying,
         NowPlaying, Points, ProcessState, None

LEMMA StepInv == Inv /\ [Next]_vars => Inv'
<1> SUFFICES ASSUME Inv, [Next]_vars PROVE Inv'
  OBVIOUS
<1> USE MusicAssumption
    DEF Inv, TypeOK, OneChild, SignalsOwnChild, PauseIsTrue, StartsPlaying,
        NowPlaying, Points, ProcessState, None, Becomes, Ended, Forget, Signal
<1>1. CASE LeaveApp
  BY <1>1 DEF LeaveApp
<1>2. CASE OpenApp
  BY <1>2 DEF OpenApp
<1>3. CASE play_file
  BY <1>3 DEF play_file
<1>4. CASE LaunchFails
  BY <1>4 DEF LaunchFails
<1>5. CASE Loaded
  BY <1>5 DEF Loaded
<1>6. CASE Poll
  <2>1. CASE Ended
    <3>1. /\ current_process \in Pids
          /\ process' = [process EXCEPT ![current_process] = "free"]
          /\ current_process' = 0 /\ is_paused' = FALSE /\ at' \in {"empty", "list"}
      BY <1>6, <2>1 DEF Poll
    <3>2. TypeOK'
      BY <3>1
    <3>3. OneChild'
      BY <3>1
    <3> QED
      BY <3>1, <3>2, <3>3
  <2>2. CASE ~Ended
    <3>1. at = "poll" /\ at' = "read" /\ UNCHANGED <<current_process, is_paused, process>>
      BY <1>6, <2>2 DEF Poll
    <3> QED
      BY <3>1
  <2> QED
    BY <2>1, <2>2
<1>7. CASE NoKey
  BY <1>7 DEF NoKey
<1>8. CASE toggle_pause
  BY <1>8 DEF toggle_pause
<1>9. CASE Terminate
  BY <1>9 DEF Terminate
<1>10. CASE Waited
  BY <1>10 DEF Waited
<1>11. CASE WaitTimeout
  BY <1>11 DEF WaitTimeout
<1>12. CASE System
  BY <1>12 DEF System, ChildEnds, ForeignStarts, ForeignEnds
<1>13. CASE UNCHANGED vars
  BY <1>13 DEF vars
<1> QED
  BY <1>1, <1>2, <1>3, <1>4, <1>5, <1>6, <1>7, <1>8, <1>9, <1>10, <1>11, <1>12, <1>13
  DEF Next, Songs, Timed

LEMMA InvHolds == Spec => []Inv
  BY InitInv, StepInv, PTL DEF Spec

\* The app holds a child exactly while its Now Playing screen is up.
THEOREM MusicTypeCorrect == Spec => []TypeOK
  BY InvHolds, PTL DEF Inv

\* No song is heard, or left paused, once its screen is gone.
THEOREM AlwaysSilentOutside == Spec => []SilentOutsideNowPlaying
<1>1. Inv => SilentOutsideNowPlaying
  BY MusicAssumption DEF Inv, TypeOK, OneChild, SilentOutsideNowPlaying, None
<1> QED
  BY <1>1, InvHolds, PTL

\* Signals only ever reach the app's own child.
THEOREM AlwaysSignalsOwnChild == Spec => []SignalsOwnChild
  BY InvHolds, PTL DEF Inv

\* The soft key never shows the wrong one of "Play" and "Pause".
THEOREM PauseAlwaysTrue == Spec => []PauseIsTrue
  BY InvHolds, PTL DEF Inv
=============================================================================
