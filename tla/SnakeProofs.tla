---------------------------- MODULE SnakeProofs -----------------------------
(* What holds of the Snake game on every board it can be played on. *)
EXTENDS Snake, TLAPS

\* In play the head is where the last move took it.  With NeckIsSafe this says
\* what the comparison in Steer must be made with.
HeadFollows == at = "play" => snake[1] = Plus(snake[2], direction)

Inv == TypeOK /\ BodyIsPath /\ FoodInTheOpen /\ NeckIsSafe /\ HeadFollows

-----------------------------------------------------------------------------
(* Facts about moving.                                                     *)

\* A move and the next one in the same direction do not meet.
LEMMA TwoSteps ==
    ASSUME NEW c \in Cells, NEW d \in Directions
    PROVE  /\ Plus(c, d) # c
           /\ Plus(Plus(c, d), d) # c
<1>1. c \in Int \X Int
  BY SnakeAssumption DEF Cells
<1> QED
  BY <1>1 DEF Plus, Directions, Up, Down, Left, Right

\* Only the opposite direction leads back.
LEMMA NoWayBack ==
    ASSUME NEW c \in Cells, NEW d \in Directions, NEW e \in Directions,
           Plus(e, d) # <<0, 0>>
    PROVE  Plus(Plus(c, d), e) # c
<1>1. c \in Int \X Int
  BY SnakeAssumption DEF Cells
<1> QED
  BY <1>1 DEF Plus, Directions, Up, Down, Left, Right

\* The head is put before the body, of which the first n pieces stay.
LEMMA MoveFacts ==
    ASSUME NEW h \in Cells, NEW s \in Seq(Cells), NEW n \in 0..Len(s)
    PROVE  LET t == <<h>> \o SubSeq(s, 1, n)
           IN /\ t \in Seq(Cells)
              /\ Len(t) = n + 1
              /\ t[1] = h
              /\ \A i \in 1..n : t[i + 1] = s[i]
<1>1. SubSeq(s, 1, n) \in Seq(Cells) /\ Len(SubSeq(s, 1, n)) = n
  OBVIOUS
<1>2. \A i \in 1..n : SubSeq(s, 1, n)[i] = s[i]
  OBVIOUS
<1>3. <<h>> \in Seq(Cells) /\ Len(<<h>>) = 1 /\ <<h>>[1] = h
  OBVIOUS
<1> QED
  BY <1>1, <1>2, <1>3

\* A body that keeps the first pieces and gains a head beside the old one, on a
\* free cell, is a path again.
LEMMA PathGrows ==
    ASSUME NEW s \in Seq(Cells), NEW t \in Seq(Cells), NEW n \in 1..Len(s),
           NEW d \in Directions,
           IsPath(s), t[1] \notin Body(s), t[1] = Plus(s[1], d),
           Len(t) = n + 1, \A i \in 1..n : t[i + 1] = s[i]
    PROVE  /\ IsPath(t)
           /\ Body(t) \subseteq Body(s) \cup {t[1]}
<1>1. \A i \in 2..(n + 1) : i - 1 \in 1..n /\ t[i] = s[i - 1]
  <2> SUFFICES ASSUME NEW i \in 2..(n + 1) PROVE i - 1 \in 1..n /\ t[i] = s[i - 1]
    OBVIOUS
  <2>1. i - 1 \in 1..n /\ (i - 1) + 1 = i
    OBVIOUS
  <2> QED
    BY <2>1
<1>2. \A i \in 2..(n + 1) : t[i] \in Body(s)
  <2>1. \A i \in 1..n : s[i] \in Body(s)
    BY DEF Body, ToSet
  <2> QED
    BY <1>1, <2>1
<1>3. \A i, j \in 1..(n + 1) : t[i] = t[j] => i = j
  <2> SUFFICES ASSUME NEW i \in 1..(n + 1), NEW j \in 1..(n + 1), t[i] = t[j], i # j
               PROVE  FALSE
    OBVIOUS
  <2>1. i \in {1} \cup 2..(n + 1) /\ j \in {1} \cup 2..(n + 1)
    OBVIOUS
  <2>2. i \in 2..(n + 1) /\ j \in 2..(n + 1)
    BY <1>2, <2>1
  <2>3. s[i - 1] = s[j - 1] /\ i - 1 \in DOMAIN s /\ j - 1 \in DOMAIN s
    BY <1>1, <2>2
  <2>4. i - 1 = j - 1
    BY <2>3 DEF IsPath, IsInjective
  <2> QED
    BY <2>2, <2>4
<1>4. \A i \in 1..n : \E e \in Directions : t[i] = Plus(t[i + 1], e)
  <2> SUFFICES ASSUME NEW i \in 1..n PROVE \E e \in Directions : t[i] = Plus(t[i + 1], e)
    OBVIOUS
  <2>1. CASE i = 1
    <3>1. t[i + 1] = s[1]
      BY <2>1
    <3> QED
      BY <2>1, <3>1
  <2>2. CASE i # 1
    <3>1. i \in 2..(n + 1) /\ i - 1 \in 1..(Len(s) - 1) /\ (i - 1) + 1 = i
      BY <2>2
    <3>2. t[i] = s[i - 1] /\ t[i + 1] = s[i]
      BY <1>1, <3>1
    <3> QED
      BY <3>1, <3>2 DEF IsPath
  <2> QED
    BY <2>1, <2>2
<1> QED
  <2>1. DOMAIN t = 1..(n + 1)
    OBVIOUS
  <2>2. IsPath(t)
    BY <1>3, <1>4, <2>1 DEF IsPath, IsInjective
  <2>3. \A i \in DOMAIN t : t[i] \in Body(s) \cup {t[1]}
    BY <1>2, <2>1
  <2> QED
    BY <2>2, <2>3 DEF Body, ToSet

\* Food comes to lie on the board, off the snake.
LEMMA FoodType ==
    ASSUME NEW s, NEW f \in spawn_food(s)
    PROVE  f \in Cells \cup {Nowhere}
  BY DEF spawn_food

-----------------------------------------------------------------------------
(* The invariant.                                                          *)

LEMMA StartFacts ==
    /\ Start \in Seq(Cells) /\ Len(Start) = 3
    /\ Start[1] = Plus(Start[2], Up) /\ Plus(Start[1], Up) # Start[2]
    /\ IsPath(Start)
<1> DEFINE x == GRID_W \div 2
           y == GRID_H \div 2
<1>1. x \in 0..(GRID_W - 1) /\ y \in 1..(GRID_H - 2)
  BY SnakeAssumption
<1>2. Start = [i \in 1..3 |-> <<x, y + i - 2>>]
  BY DEF Start
<1> HIDE DEF x, y
<1>3. \A i \in 1..3 : <<x, y + i - 2>> \in Cells
  BY <1>1, SnakeAssumption DEF Cells
<1>4. Start \in Seq(Cells) /\ Len(Start) = 3
  BY <1>2, <1>3
<1>5. Start[1] = <<x, y - 1>> /\ Start[2] = <<x, y>> /\ Start[3] = <<x, y + 1>>
  BY <1>1, <1>2
<1>6. Start[1] = Plus(Start[2], Up) /\ Start[2] = Plus(Start[3], Up)
  BY <1>1, <1>5 DEF Plus, Up
<1>7. IsInjective(Start)
  BY <1>1, <1>2 DEF IsInjective
<1>8. \A i \in 1..2 : Start[i] = Plus(Start[i + 1], Up)
  BY <1>6
<1>9. Plus(Start[1], Up) # Start[2]
  BY <1>1, <1>5 DEF Plus, Up
<1> QED
  BY <1>4, <1>6, <1>7, <1>8, <1>9 DEF IsPath, Directions

LEMMA InitInv == Init => Inv
<1> SUFFICES ASSUME Init PROVE Inv
  OBVIOUS
<1> USE DEF Init
<1>1. TypeOK
  BY StartFacts, FoodType DEF TypeOK, Directions
<1>2. BodyIsPath /\ FoodInTheOpen
  BY StartFacts DEF BodyIsPath, FoodInTheOpen
<1>3. NeckIsSafe /\ HeadFollows
  BY StartFacts DEF NeckIsSafe, NewHead, HeadFollows
<1> QED
  BY <1>1, <1>2, <1>3 DEF Inv

LEMMA ResetInv == reset => Inv'
<1> SUFFICES ASSUME reset PROVE Inv'
  OBVIOUS
<1> USE DEF reset
<1>1. TypeOK'
  BY StartFacts, FoodType DEF TypeOK, Directions
<1>2. BodyIsPath' /\ FoodInTheOpen'
  BY StartFacts DEF BodyIsPath, FoodInTheOpen
<1>3. NeckIsSafe' /\ HeadFollows'
  BY StartFacts DEF NeckIsSafe, NewHead, HeadFollows
<1> QED
  BY <1>1, <1>2, <1>3 DEF Inv

\* Eat and Crawl move the snake the same way: n pieces of it stay.
LEMMA MoveInv ==
    ASSUME Inv, at = "play", ~Deadly(NewHead), NEW n \in 2..Len(snake),
           direction' = next_direction, next_direction' = next_direction,
           snake' = <<NewHead>> \o SubSeq(snake, 1, n)
    PROVE  /\ snake' \in Seq(Cells) /\ Len(snake') = n + 1
           /\ IsPath(snake') /\ NeckIsSafe' /\ HeadFollows'
           /\ Body(snake') \subseteq Body(snake) \cup {NewHead}
<1>1. snake \in Seq(Cells) /\ next_direction \in Directions /\ IsPath(snake)
  BY DEF Inv, TypeOK, BodyIsPath
<1>2. NewHead \in Cells /\ NewHead \notin Body(snake) /\ NewHead = Plus(snake[1], next_direction)
  BY DEF Deadly, NewHead
<1>3. /\ snake' \in Seq(Cells) /\ Len(snake') = n + 1 /\ snake'[1] = NewHead
      /\ \A i \in 1..n : snake'[i + 1] = snake[i]
  BY <1>1, <1>2, MoveFacts
<1>4. IsPath(snake') /\ Body(snake') \subseteq Body(snake) \cup {NewHead}
  <2>1. PICK t \in Seq(Cells) : t = snake'
    BY <1>3
  <2>2. n \in 1..Len(snake) /\ t[1] \notin Body(snake)
    BY <1>1, <1>2, <1>3, <2>1
  <2>3. /\ t[1] = Plus(snake[1], next_direction) /\ Len(t) = n + 1
        /\ \A i \in 1..n : t[i + 1] = snake[i]
    BY <1>2, <1>3, <2>1
  <2>4. IsPath(t) /\ Body(t) \subseteq Body(snake) \cup {t[1]}
    BY <1>1, <2>2, <2>3, PathGrows
  <2> QED
    BY <1>3, <2>1, <2>4
<1>5. snake'[2] = snake[1] /\ snake[1] \in Cells
  BY <1>1, <1>3
<1>6. HeadFollows'
  BY <1>2, <1>3, <1>5 DEF HeadFollows
<1>7. NeckIsSafe'
  BY <1>1, <1>2, <1>3, <1>5, TwoSteps DEF NeckIsSafe, NewHead
<1> QED
  BY <1>3, <1>4, <1>6, <1>7

LEMMA StepInv == Inv /\ [Next]_vars => Inv'
<1> SUFFICES ASSUME Inv, [Next]_vars PROVE Inv'
  OBVIOUS
<1>0. /\ TypeOK /\ BodyIsPath /\ FoodInTheOpen /\ NeckIsSafe /\ HeadFollows
      /\ Len(snake) >= 3
  BY DEF Inv, BodyIsPath, TypeOK
<1>1. ASSUME NEW key \in Keys, KeyInPlay(key) PROVE Inv'
  <2>1. UNCHANGED <<snake, direction, food, score>> /\ at = "play"
    BY <1>1 DEF KeyInPlay
  <2>2. CASE Steer(key)
    <3>1. UNCHANGED at /\ next_direction' \in Directions
      BY <1>0, <2>2 DEF Steer, direction_from_key, Directions, TypeOK
    <3>2. next_direction' = next_direction \/ Plus(next_direction', direction) # <<0, 0>>
      BY <2>2 DEF Steer
    <3>3. NeckIsSafe'
      <4>1. snake[1] = Plus(snake[2], direction) /\ snake[2] \in Cells
        BY <1>0, <2>1 DEF HeadFollows, TypeOK
      <4> QED
        BY <1>0, <2>1, <3>1, <3>2, <4>1, NoWayBack DEF NeckIsSafe, NewHead, TypeOK
    <3> QED
      BY <1>0, <2>1, <3>1, <3>3 DEF Inv, TypeOK, BodyIsPath, FoodInTheOpen, HeadFollows
  <2>3. CASE Leave(key)
    BY <1>0, <2>1, <2>3
    DEF Leave, Inv, TypeOK, BodyIsPath, FoodInTheOpen, HeadFollows, NeckIsSafe, NewHead
  <2> QED
    BY <1>1, <2>2, <2>3 DEF KeyInPlay
<1>2. ASSUME NEW key \in Keys, KeyGameOver(key) PROVE Inv'
  <2>1. CASE reset
    BY <2>1, ResetInv
  <2>2. CASE at' = "left" /\ UNCHANGED <<snake, direction, next_direction, food, score>>
    BY <1>0, <2>2
    DEF Inv, TypeOK, BodyIsPath, FoodInTheOpen, HeadFollows, NeckIsSafe, NewHead
  <2> QED
    BY <1>2, <2>1, <2>2 DEF KeyGameOver
<1>3. CASE Die
  BY <1>0, <1>3
  DEF Die, Inv, TypeOK, BodyIsPath, FoodInTheOpen, HeadFollows, NeckIsSafe, NewHead
<1>4. CASE Eat
  <2>1. snake' = <<NewHead>> \o SubSeq(snake, 1, Len(snake))
    BY <1>0, <1>4 DEF Eat, TypeOK
  <2>2. /\ snake' \in Seq(Cells) /\ Len(snake') = Len(snake) + 1
        /\ IsPath(snake') /\ NeckIsSafe' /\ HeadFollows'
    BY <1>0, <1>4, <2>1, MoveInv DEF Eat
  <2>3. TypeOK' /\ BodyIsPath' /\ FoodInTheOpen'
    BY <1>0, <1>4, <2>2, FoodType DEF Eat, TypeOK, BodyIsPath, FoodInTheOpen
  <2> QED
    BY <2>2, <2>3 DEF Inv
<1>5. CASE Crawl
  <2>1. snake' = <<NewHead>> \o SubSeq(snake, 1, Len(snake) - 1)
    BY <1>5 DEF Crawl, Front
  <2>2. /\ snake' \in Seq(Cells) /\ Len(snake') = Len(snake)
        /\ IsPath(snake') /\ NeckIsSafe' /\ HeadFollows'
        /\ Body(snake') \subseteq Body(snake) \cup {NewHead}
    <3> DEFINE n == Len(snake) - 1
    <3>1. n \in 2..Len(snake) /\ n + 1 = Len(snake)
      BY <1>0
    <3> QED
      BY <1>5, <2>1, <3>1, MoveInv DEF Crawl
  <2>3. FoodInTheOpen'
    <3>1. NewHead \in Cells \ Body(snake) /\ food # NewHead /\ food' = food
      BY <1>5 DEF Crawl, Deadly
    <3>2. food \in Cells \ Body(snake)
      BY <1>0, <3>1 DEF FoodInTheOpen, spawn_food
    <3>3. food \in Cells \ Body(snake')
      BY <2>2, <3>1, <3>2
    <3> QED
      BY <3>1, <3>3 DEF FoodInTheOpen, spawn_food
  <2>4. TypeOK' /\ BodyIsPath'
    BY <1>0, <1>5, <2>2 DEF Crawl, TypeOK, BodyIsPath
  <2> QED
    BY <2>2, <2>3, <2>4 DEF Inv
<1>6. CASE StartAgain
  BY <1>6, ResetInv DEF StartAgain
<1>7. CASE UNCHANGED vars
  BY <1>0, <1>7
  DEF vars, Inv, TypeOK, BodyIsPath, FoodInTheOpen, HeadFollows, NeckIsSafe, NewHead
<1> QED
  BY <1>1, <1>2, <1>3, <1>4, <1>5, <1>6, <1>7 DEF Next

LEMMA InvHolds == Spec => []Inv
  BY InitInv, StepInv, PTL DEF Spec

-----------------------------------------------------------------------------
(* Theorems.                                                               *)

\* The snake stays on the board.
THEOREM SnakeTypeCorrect == Spec => []TypeOK
  BY InvHolds, PTL DEF Inv

\* No timing of key presses turns the snake onto its own neck.
THEOREM NeckAlwaysSafe == Spec => []NeckIsSafe
  BY InvHolds, PTL DEF Inv

\* The snake never crosses itself and is as long as its score says.
THEOREM BodyAlwaysPath == Spec => []BodyIsPath
  BY InvHolds, PTL DEF Inv

\* There is food off the snake as long as there is room for it.
THEOREM FoodAlwaysInTheOpen == Spec => []FoodInTheOpen
  BY InvHolds, PTL DEF Inv
=============================================================================
