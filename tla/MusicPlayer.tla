---------------------------- MODULE MusicPlayer -----------------------------
(***************************************************************************)
(* The MusicPlayer app (System/apps/MusicPlayer/main.py).  Each song is    *)
(* played by a child process (mpv) that the app starts, pauses and stops   *)
(* with signals while its Now Playing screen polls the keypad.  The child  *)
(* ends when it likes: at the end of the song, or because it failed.       *)
(*                                                                         *)
(* A child that has ended keeps its pid until the app has waited for it;   *)
(* then the system may give the pid to a process of somebody else.         *)
(***************************************************************************)
EXTENDS Integers, FiniteSets

CONSTANT Pids     \* the process identifiers

ASSUME MusicAssumption == Pids # {} /\ 0 \notin Pids

VARIABLES
    at,               \* where the UI thread is
    current_process,  \* the pid of the Popen object the app holds, or None
    is_paused,
    process           \* what each pid is

vars == <<at, current_process, is_paused, process>>

None == 0

\* A pid is free, another program's, or a child's: playing, stopped by SIGSTOP,
\* or ended and not yet waited for.
ProcessState == {"free", "foreign", "playing", "stopped", "zombie"}

NowPlaying == {"loading", "poll", "read", "stopping"}
Points     == {"empty", "list", "left"} \cup NowPlaying

TypeOK ==
    /\ at \in Points
    /\ current_process \in IF at \in NowPlaying THEN Pids ELSE {None}
    /\ is_paused \in BOOLEAN
    /\ process \in [Pids -> ProcessState]

Init ==
    /\ at \in {"empty", "list"}
    /\ current_process = None
    /\ is_paused = FALSE
    /\ process = [p \in Pids |-> "free"]

-----------------------------------------------------------------------------
(* The signals and waits the app uses.                                     *)

Becomes(p, s) == process' = [process EXCEPT ![p] = s]

Ended == process[current_process] = "zombie"

\* What stop() leaves behind once the child is waited for or killed.
Forget ==
    /\ current_process' = None
    /\ is_paused' = FALSE

-----------------------------------------------------------------------------
(* The list of songs.                                                      *)

\* run(): the folder is scanned before each list; with no song in it the app
\* can only be left.
LeaveApp ==
    /\ at \in {"empty", "list"}
    /\ at' = "left"
    /\ UNCHANGED <<current_process, is_paused, process>>

OpenApp ==
    /\ at = "left"
    /\ at' \in {"empty", "list"}
    /\ Forget
    /\ UNCHANGED process

\* Popen first waits for the children that ended after their object was dropped.
play_file ==
    /\ at = "list"
    /\ LET waited == [p \in Pids |-> IF process[p] = "zombie" THEN "free" ELSE process[p]]
       IN \E p \in Pids :
             /\ waited[p] = "free"
             /\ process' = [waited EXCEPT ![p] = "playing"]
             /\ current_process' = p
    /\ is_paused' = FALSE
    /\ at' = "loading"

\* Popen raises: the list is scanned and shown again.
LaunchFails ==
    /\ at = "list"
    /\ at' \in {"empty", "list"}
    /\ UNCHANGED <<current_process, is_paused, process>>

-----------------------------------------------------------------------------
(* The Now Playing screen.                                                 *)

Loaded ==
    /\ at = "loading"
    /\ at' = "poll"
    /\ UNCHANGED <<current_process, is_paused, process>>

\* Fault: the screen does not leave when it has waited for the child.
Poll_GoesOn ==
    /\ at = "poll"
    /\ IF Ended THEN Becomes(current_process, "free") ELSE UNCHANGED process
    /\ at' = "read"
    /\ UNCHANGED <<current_process, is_paused>>

\* poll(): a child that has ended is waited for, and stop() finds nothing to do.
Poll ==
    /\ at = "poll"
    /\ \/ /\ Ended
          /\ Becomes(current_process, "free")
          /\ Forget
          /\ at' \in {"empty", "list"}
       \/ /\ ~Ended
          /\ at' = "read"
          /\ UNCHANGED <<current_process, is_paused, process>>

\* Fault: the screen waits for a key however long it takes.
NoKey_Blocks ==
    /\ at = "read"
    /\ UNCHANGED vars

\* No key for a second, or one the screen does not know.
NoKey ==
    /\ at = "read"
    /\ at' = "poll"
    /\ UNCHANGED <<current_process, is_paused, process>>

Signal(stop) ==
    Becomes(current_process,
            CASE Ended -> "zombie" [] ~Ended /\ stop -> "stopped" [] OTHER -> "playing")

\* Fault: a paused song is not continued.
toggle_pause_StopsOnly ==
    /\ at = "read"
    /\ Signal(TRUE)
    /\ is_paused' = ~is_paused
    /\ at' = "poll"
    /\ UNCHANGED current_process

\* SIGSTOP or SIGCONT; a zombie takes them without effect.
toggle_pause ==
    /\ at = "read"
    /\ Signal(~is_paused)
    /\ is_paused' = ~is_paused
    /\ at' = "poll"
    /\ UNCHANGED current_process

\* stop(): SIGTERM, which a stopped child does not see before it is continued,
\* then 0.2 seconds for the child to end.
Terminate ==
    /\ at = "read"
    /\ at' = "stopping"
    /\ UNCHANGED <<current_process, is_paused, process>>

Waited ==
    /\ at = "stopping" /\ Ended
    /\ Becomes(current_process, "free")
    /\ Forget
    /\ at' \in {"empty", "list"}

\* Fault: SIGTERM is all the child gets.
WaitTimeout_NoKill ==
    /\ at = "stopping" /\ ~Ended
    /\ Forget
    /\ at' \in {"empty", "list"}
    /\ UNCHANGED process

\* SIGKILL ends a child in any state.  Nobody waits for it.
WaitTimeout ==
    /\ at = "stopping" /\ ~Ended
    /\ Becomes(current_process, "zombie")
    /\ Forget
    /\ at' \in {"empty", "list"}

-----------------------------------------------------------------------------
(* The rest of the system.                                                 *)

ChildEnds(p) == process[p] = "playing" /\ Becomes(p, "zombie")

ForeignStarts(p) == process[p] = "free" /\ Becomes(p, "foreign")

ForeignEnds(p) == process[p] = "foreign" /\ Becomes(p, "free")

System ==
    /\ \E p \in Pids : ChildEnds(p) \/ ForeignStarts(p) \/ ForeignEnds(p)
    /\ UNCHANGED <<at, current_process, is_paused>>

Songs == LeaveApp \/ OpenApp \/ play_file \/ LaunchFails

\* The steps of the Now Playing screen that wait for no key.
Timed == Loaded \/ Poll \/ NoKey \/ Waited \/ WaitTimeout

Next == Songs \/ Timed \/ toggle_pause \/ Terminate \/ System

\* The Now Playing loop reads the keypad for at most a second and waits for a
\* child for at most 0.2, so it never stands still.  Nothing is assumed of the
\* user or of the child.
Spec == Init /\ [][Next]_vars /\ WF_vars(Timed)

-----------------------------------------------------------------------------
\* No song plays on, and none stays paused, once its screen has been left: also
\* when the song was paused, where SIGTERM alone would do nothing (stop).
SilentOutsideNowPlaying ==
    at \notin NowPlaying => \A p \in Pids : process[p] \notin {"playing", "stopped"}

\* The pid the app would signal is its own child's, ended or not, so pausing or
\* stopping never hits a program that was given the pid later (toggle_pause).
SignalsOwnChild ==
    at \in NowPlaying => process[current_process] \in {"playing", "stopped", "zombie"}

\* "Play" and "Pause" on the soft key say what the child is doing.
PauseIsTrue ==
    at \in {"poll", "read"} /\ ~Ended => (is_paused <=> process[current_process] = "stopped")

\* When the song ends, its screen goes, whatever the user does meanwhile.
EndLeavesScreen ==
    (at \in NowPlaying /\ Ended) ~> (at \notin NowPlaying)
=============================================================================
