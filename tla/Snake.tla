------------------------------- MODULE Snake --------------------------------
(***************************************************************************)
(* The Snake game of the Games app (System/apps/Games/main.py): a board,   *)
(* a snake moved by a timer, food, and the player's keys, of which any     *)
(* number may be read between two moves.  Time is abstract: the next move  *)
(* may be due after any key.                                               *)
(***************************************************************************)
EXTENDS Integers, SequencesExt

CONSTANTS GRID_W, GRID_H,   \* the board
          Keys,             \* the key codes a user may press
          Nowhere           \* the food when there is no cell left for it

Cells == (0..(GRID_W - 1)) \X (0..(GRID_H - 1))

\* The snake starts as three cells of the middle column.
ASSUME SnakeAssumption ==
    /\ GRID_W \in Nat \ {0}
    /\ GRID_H \in Nat \ (0..2)
    /\ Keys \subseteq Nat
    /\ Nowhere \notin Cells

VARIABLES
    at,              \* "play": loop(); "over": game_over(); "left": run() has returned
    snake,           \* the cells of the body, head first
    direction,       \* of the last move
    next_direction,  \* of the next one
    food,
    score

vars == <<at, snake, direction, next_direction, food, score>>

-----------------------------------------------------------------------------
KEY_ENTER == 28
KEY_MENU  == 50
KEY_BACK  == 14

Up    == <<0, -1>>
Down  == <<0, 1>>
Left  == <<-1, 0>>
Right == <<1, 0>>

Directions == {Up, Down, Left, Right}

\* The cursor keys, and the digits 2, 8, 4 and 6 as a joystick.
direction_from_key ==
    [k \in {103, 3, 108, 9, 105, 5, 106, 7} |->
        CASE k \in {103, 3} -> Up
          [] k \in {108, 9} -> Down
          [] k \in {105, 5} -> Left
          [] k \in {106, 7} -> Right]

Plus(a, b) == <<a[1] + b[1], a[2] + b[2]>>

Body(s) == ToSet(s)

\* A random open cell, or None.
spawn_food(s) ==
    LET open == Cells \ Body(s)
    IN IF open = {} THEN {Nowhere} ELSE open

Start == [i \in 1..3 |-> <<GRID_W \div 2, GRID_H \div 2 + i - 2>>]

Init ==
    /\ at = "play"
    /\ snake = Start
    /\ direction = Up
    /\ next_direction = Up
    /\ food \in spawn_food(snake)
    /\ score = 0

-----------------------------------------------------------------------------
(* loop(): one key at most, then a move if it is due.                      *)

\* Fault: the turn is compared with the turn already asked for.
Steer_AgainstNext(key) ==
    /\ key \in DOMAIN direction_from_key
    /\ next_direction' = IF Plus(direction_from_key[key], next_direction) = <<0, 0>>
                         THEN next_direction ELSE direction_from_key[key]
    /\ UNCHANGED at

\* A turn back onto the body is not taken: it is compared with the last move.
Steer(key) ==
    /\ key \in DOMAIN direction_from_key
    /\ next_direction' = IF Plus(direction_from_key[key], direction) = <<0, 0>>
                         THEN next_direction ELSE direction_from_key[key]
    /\ UNCHANGED at

Leave(key) ==
    /\ key = KEY_BACK
    /\ at' = "left"
    /\ UNCHANGED next_direction

KeyInPlay(key) ==
    /\ at = "play"
    /\ Steer(key) \/ Leave(key)
    /\ UNCHANGED <<snake, direction, food, score>>

NewHead == Plus(snake[1], next_direction)

\* Fault: the snake may cross itself.
Deadly_WallsOnly(cell) == cell \notin Cells

\* A wall, or any part of the body: the tail counts although it would move on.
Deadly(cell) == cell \notin Cells \/ cell \in Body(snake)

Die ==
    /\ at = "play" /\ Deadly(NewHead)
    /\ direction' = next_direction
    /\ at' = "over"
    /\ UNCHANGED <<snake, next_direction, food, score>>

\* Fault: the new food is chosen before the head has moved.
Eat_SpawnsFirst ==
    /\ at = "play" /\ ~Deadly(NewHead) /\ NewHead = food
    /\ direction' = next_direction
    /\ snake' = <<NewHead>> \o snake
    /\ score' = score + 1
    /\ food' \in spawn_food(snake)
    /\ UNCHANGED <<at, next_direction>>

Eat ==
    /\ at = "play" /\ ~Deadly(NewHead) /\ NewHead = food
    /\ direction' = next_direction
    /\ snake' = <<NewHead>> \o snake
    /\ score' = score + 1
    /\ food' \in spawn_food(snake')
    /\ UNCHANGED <<at, next_direction>>

Crawl ==
    /\ at = "play" /\ ~Deadly(NewHead) /\ NewHead # food
    /\ direction' = next_direction
    /\ snake' = <<NewHead>> \o Front(snake)
    /\ UNCHANGED <<at, next_direction, food, score>>

-----------------------------------------------------------------------------
(* game_over(), and play() around the two.                                 *)

reset ==
    /\ at' = "play"
    /\ snake' = Start
    /\ direction' = Up
    /\ next_direction' = Up
    /\ food' \in spawn_food(snake')
    /\ score' = 0

KeyGameOver(key) ==
    /\ at = "over"
    /\ \/ key \in {KEY_MENU, KEY_ENTER, 5} /\ reset
       \/ /\ key = KEY_BACK
          /\ at' = "left"
          /\ UNCHANGED <<snake, direction, next_direction, food, score>>

\* The menu starts the app again: a new SnakeGame.
StartAgain == at = "left" /\ reset

Next ==
    \/ \E key \in Keys : KeyInPlay(key) \/ KeyGameOver(key)
    \/ Die \/ Eat \/ Crawl
    \/ StartAgain

Spec == Init /\ [][Next]_vars

-----------------------------------------------------------------------------
TypeOK ==
    /\ at \in {"play", "over", "left"}
    /\ snake \in Seq(Cells)
    /\ direction \in Directions
    /\ next_direction \in Directions
    /\ food \in Cells \cup {Nowhere}
    /\ score \in Nat

\* However the keys fall between two moves, the next move never turns the head
\* back onto the neck: "Prevent 180 turn" (loop).
NeckIsSafe == NewHead # snake[2]

IsPath(s) ==
    /\ IsInjective(s)
    /\ \A i \in 1..(Len(s) - 1) : \E d \in Directions : s[i] = Plus(s[i + 1], d)

\* The snake is one path over the board, each piece beside the next, that never
\* crosses itself, and the moves and meals of a game have made it as long as its
\* score says (step).
BodyIsPath ==
    /\ Len(snake) = 3 + score
    /\ IsPath(snake)

\* There is food outside the snake for as long as there is room (spawn_food).
FoodInTheOpen == food \in spawn_food(snake)

=============================================================================
