----------------------------- MODULE FrameSnake -----------------------------
(***************************************************************************)
(* The frame buffer game of snake/test4.c: one loop that waits for a key   *)
(* with a time-out, adds a head, and takes the last cell away unless the   *)
(* head is on the food.  The directions are the code's numbers: 0 up,      *)
(* 1 down, 2 left, 3 right.  The chain is singly linked: a sequence.       *)
(***************************************************************************)
EXTENDS Integers, Sequences, SequencesExt, FiniteSets, Functions

CONSTANTS
    H, L,           \* the size of the field
    Feasts          \* bound: how often the snake eats

ASSUME FrameAssumption == H \in Nat \ {0} /\ L \in Nat \ {0} /\ Feasts + 1 < H * L

addx == <<-1, 1, 0, 0>>
addy == <<0, 0, -1, 1>>
Against == <<1, 0, 3, 2>>
Field == (0..(L - 1)) \X (0..(H - 1))

VARIABLES
    trunk,      \* the snake, from the head on
    now,        \* the direction of the head
    meal,       \* where the food is
    t,          \* the time-out, in microseconds
    n,          \* the score
    jump        \* FALSE once the game is to end

frameVars == <<trunk, now, meal, t, n, jump>>

FrameInit ==
    /\ \E at \in Field: trunk = <<at>> /\ meal \in Field \ {at}
    /\ now = 3 /\ t = 500000 /\ n = 0 /\ jump = TRUE

\* The key is compared with the direction of the head.  An int of four bytes is
\* read where a key has three: what the fourth one held decides whether it is known.
click(d) == now' \in {now} \cup {e \in {d}: Against[d + 1] # now}

move_add(d) == <<<<Head(trunk)[1] + addx[d + 1], Head(trunk)[2] + addy[d + 1]>>>> \o trunk

creat_food(s) == meal' \in Field \ ToSet(s)

check_over(s) ==
    \/ Head(s) \in ToSet(Tail(s))
    \/ Head(s)[1] \notin 0..L \/ Head(s)[2] \notin 0..H

\* The turn of main's loop behind click.
Advance_(leaving) ==
    LET grown == move_add(now')
    IN  /\ IF Head(grown) = meal
             THEN /\ n < Feasts
                  /\ trunk' = grown /\ creat_food(grown)
                  /\ t' = (t * 4) \div 5 /\ n' = n + 1
             ELSE trunk' = Front(grown) /\ UNCHANGED <<meal, t, n>>
        /\ jump' = (~ leaving /\ ~ check_over(trunk'))

Turn == jump /\ (\E d \in 0..3: click(d)) /\ Advance_(FALSE)

\* After the escape key the loop still goes on to its end.
Leave == jump /\ UNCHANGED now /\ Advance_(TRUE)

FrameNext == Turn \/ Leave
-----------------------------------------------------------------------------
(* While the game runs the snake does not cover itself and its head is in
   the frame; the food is in the field and not under the snake. *)
AliveInFrame ==
    jump => /\ IsInjective(trunk)
            /\ Head(trunk) \in (0..L) \X (0..H)
            /\ meal \in Field \ ToSet(trunk)

(* A move never goes back into the second cell, however short the snake:
   no key is taken between the one that turned the head and the move. *)
NeverFoldsBack == [][Len(trunk) > 1 /\ trunk' # trunk => Head(trunk') # trunk[2]]_trunk
=============================================================================
