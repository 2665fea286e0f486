---------------------------- MODULE ConsoleSnake ----------------------------
(***************************************************************************)
(* The console game of snake/test3.c: one loop that looks at the keys,     *)
(* sleeps and moves.  Cells are two columns wide, so x goes by twos.  The  *)
(* chain is singly linked, taken at its head and cut at its end: it is a   *)
(* sequence.  The score, a sum that is only shown, is left out.            *)
(***************************************************************************)
EXTENDS Integers, Sequences, SequencesExt, FiniteSets, Functions

CONSTANTS
    Right, Bottom,      \* where the walls stand: x = 0 and Right, y = 0 and Bottom
    StartX, StartY,     \* where the tail of the first snake lies
    Joints,             \* how many cells it has
    FoodSpots           \* where createFood can leave the food

(* The first snake lies on the map, in columns the right wall shares.  The x
   of the food is even, but it is what malloc left in the cell if that
   happens to be even: it need not be on the map. *)
ASSUME ConsoleAssumption ==
    /\ Joints \in Nat /\ Joints > 1
    /\ Right \in Nat /\ Right % 2 = 0
    /\ StartX \in Nat /\ StartX % 2 = 0 /\ StartX + 2 * (Joints - 1) <= Right
    /\ Bottom \in Nat /\ StartY \in 0..Bottom
    /\ \A f \in FoodSpots: f[1] % 2 = 0

Directions == {"U", "D", "L", "R"}
Opposite == [U |-> "D", D |-> "U", L |-> "R", R |-> "L"]
Ahead == [U |-> <<0, -1>>, D |-> <<0, 1>>, L |-> <<-2, 0>>, R |-> <<2, 0>>]
Onward(at, d) == <<at[1] + Ahead[d][1], at[2] + Ahead[d][2]>>

VARIABLES
    cells,          \* the snake, from the head on
    food,
    status,         \* the direction
    sleeptime,      \* how long the loop sleeps
    add,            \* the score for the next food
    endGamestatus   \* 0 while the game runs, 1 wall, 2 bitten, 3 left

consoleVars == <<cells, food, status, sleeptime, add, endGamestatus>>

\* The loop that is to keep the food off the snake is never entered: its
\* condition is that the head is the last cell.
createFood == food' \in FoodSpots

ConsoleInit ==
    /\ cells = [i \in 1..Joints |-> <<StartX + 2 * (Joints - i), StartY>>]
    /\ food \in FoodSpots
    /\ status = "R" /\ sleeptime = 200 /\ add = 10 /\ endGamestatus = 0

\* An arrow key against the direction is not taken.
Turned(key) == IF key \in Directions /\ status # Opposite[key] THEN key ELSE status

cantCrossWall == Head(cells)[1] \in {0, Right} \/ Head(cells)[2] \in {0, Bottom}

\* The wall and the bite end the game in endGame, which does not return.
snakeMove(d) ==
    LET nexthead == Onward(Head(cells), d)
    IN  IF cantCrossWall
          THEN endGamestatus' = 1 /\ UNCHANGED <<cells, food>>
          ELSE /\ cells' = <<nexthead>> \o IF nexthead = food THEN cells ELSE Front(cells)
               /\ IF nexthead = food THEN createFood ELSE UNCHANGED food
               /\ endGamestatus' = IF nexthead \in ToSet(Tail(cells')) THEN 2 ELSE 0

Faster ==
    IF sleeptime >= 50
      THEN /\ sleeptime' = sleeptime - 30
           /\ add' = IF sleeptime' = 320 THEN 2 ELSE add + 2
      ELSE UNCHANGED <<sleeptime, add>>

\* MUTANT: without the correction at the slowest step.
Slower_plain ==
    IF sleeptime < 350 THEN sleeptime' = sleeptime + 30 /\ add' = add - 2
                       ELSE UNCHANGED <<sleeptime, add>>

Slower ==
    IF sleeptime < 350
      THEN /\ sleeptime' = sleeptime + 30
           /\ add' = IF sleeptime' = 350 THEN 1 ELSE add - 2
      ELSE UNCHANGED <<sleeptime, add>>

\* One turn of the loop.  No key, a pause and a key that is not taken come to the same.
runGame(key) ==
    /\ endGamestatus = 0
    /\ status' = Turned(key)
    /\ CASE key = "F1" -> Faster
         [] key = "F2" -> Slower
         [] OTHER -> UNCHANGED <<sleeptime, add>>
    /\ snakeMove(status')

Escape ==
    /\ endGamestatus = 0
    /\ endGamestatus' = 3
    /\ UNCHANGED <<cells, food, status, sleeptime, add>>

ConsoleNext == Escape \/ \E key \in Directions \cup {"F1", "F2", "none"}: runGame(key)
-----------------------------------------------------------------------------
(* While the game runs the head is on the map, at most on a wall (one turn
   later the game ends there), and no cell lies on another one. *)
AliveOnMap ==
    endGamestatus = 0 =>
        IsInjective(cells) /\ Head(cells) \in (0..Right) \X (0..Bottom)

(* A move never goes back into the second cell: one key is taken between
   two moves, and it is compared with the direction of the last one. *)
NeverTurnsBack == [][cells' # cells => Head(cells') # cells[2]]_cells

(* The score for the next food falls by two with every 30 ms and never
   below one, whatever the order of F1 and F2: the two corrections at the
   slow end undo each other. *)
AddFollowsSpeed ==
    /\ sleeptime \in 20..350
    /\ add = IF sleeptime = 350 THEN 1 ELSE (350 - sleeptime) \div 15
=============================================================================
