----------------------------- MODULE MCExercises -----------------------------
(***************************************************************************)
(* The programs under 基础知识 other than the lists: the snake games, the    *)
(* ring buffer and the array exercises.  A behaviour is one of them,       *)
(* chosen at the start; the others stay in their initial state.  The       *)
(* arrays take no steps: each is an initial state.                         *)
(***************************************************************************)
EXTENDS Snake, ConsoleSnake, FrameSnake, RingBuffer, Arrays

VARIABLE program

allVars == <<program, snakeVars, consoleVars, frameVars, vars, a>>

\* Two levels, the second one twice as fast; one food, then two.
speeds == <<200, 100>>
scores == <<1, 2>>

\* One place on the map and one beside it.
spots == {<<4, 3>>, <<0, -1>>}

\* The least int16_t, here -4, and others.
numbers == {-4, -1, 0, 3}

AllInit ==
    /\ program \in {"curses", "console", "frame", "ring", "arrays"}
    /\ SnakeInit /\ (program # "curses" => heap[pSnakeFood].pos = <<4, 1>>)
    /\ ConsoleInit /\ (program # "console" => food = <<4, 3>>)
    /\ FrameInit /\ (program # "frame" => trunk = <<<<0, 0>>>> /\ meal = <<1, 1>>)
    /\ Init /\ (program # "ring" => \A i \in DOMAIN buffer: buffer[i] = 0)
    /\ ArrayInit /\ (program # "arrays" => a = <<>>)

AllNext ==
    \/ /\ program = "curses" /\ SnakeNext
       /\ UNCHANGED <<program, consoleVars, frameVars, vars, a>>
    \/ /\ program = "console" /\ ConsoleNext
       /\ UNCHANGED <<program, snakeVars, frameVars, vars, a>>
    \/ /\ program = "frame" /\ FrameNext
       /\ UNCHANGED <<program, snakeVars, consoleVars, vars, a>>
    \/ /\ program = "ring" /\ Next
       /\ UNCHANGED <<program, snakeVars, consoleVars, frameVars, a>>

AllSpec == AllInit /\ [][AllNext]_allVars

(* The curses game, as long as delete_snake lets it go on: through every life,
   level and game the snake is in one piece and as long as its score, which
   ends the level; while it is played the food can be reached and the timer
   runs at the speed of the level.  The console game (AliveOnMap): while it
   runs no two cells of the snake share a place and its head is on the map.
   The frame buffer game (AliveInFrame): the same, and its food lies in the
   frame beside the snake. *)
GamesGoOn ==
    /\ ChainIsWhole /\ LengthFollowsScore /\ FoodCanBeReached /\ TickerOfLevel
    /\ AliveOnMap /\ AliveInFrame

(* In the curses game no square of the snake jumps, although a tick moves its
   last cell to the front.  In the other two games no key that was taken
   turns the head into the second cell; the curses game takes such a key
   (getOrder) and ends the life. *)
SnakesMoveOn == CrawlsByOne /\ NeverTurnsBack /\ NeverFoldsBack
==============================================================================
