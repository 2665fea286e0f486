------------------------------- MODULE Snake -------------------------------
(***************************************************************************)
(* The curses game of snake/test.c.  The snake is a doubly linked chain of *)
(* cells on the heap; on every tick of the timer its last cell becomes its *)
(* first one.  The tick is handled in a signal handler, which itself waits *)
(* for a key (with the timer stopped) when a life or a level ends.         *)
(* Rows are pos_x and columns pos_y, as in the code.                       *)
(*                                                                         *)
(* The heap is that of one life: the cells malloced since the last reset   *)
(* for the snake and its food.  What a reset leaves behind is out of it:   *)
(* pSnakeTrace, which only says what to wipe from the screen and is        *)
(* malloced anew by every init_snake (test.c:88) and never freed, and the  *)
(* cells that delete_snake may miss, since it reads pNext of a cell that   *)
(* it has just freed (test.c:337-338).  Memory is never exhausted.         *)
(***************************************************************************)
EXTENDS Integers, Sequences, SequencesExt, FiniteSets, FiniteSetsExt

CONSTANTS
    LINES, COLS,            \* the size of the screen
    INIT_POS_X, INIT_POS_Y,
    INIT_SNAKE_LENGTH,
    speed,                  \* of each level, in milliseconds
    levelup_score,          \* the score that ends each level
    VOID                    \* the null pointer

Deltas == [left |-> <<0, -1>>, right |-> <<0, 1>>, up |-> <<-1, 0>>, down |-> <<1, 0>>]
Room == (4..(LINES - 1)) \X (1..(COLS - 1))
Edges == ({3, LINES} \X (0..COLS)) \cup ((3..LINES) \X {0, COLS})
\* The snake, with all it may eat on a level, and the food.
Cells == 1..(INIT_SNAKE_LENGTH + levelup_score[Len(levelup_score)] + 1)

Cell(at, n, q) == [pos |-> at, pNext |-> n, pPre |-> q]

\* The score that ends a level grows from level to level.
ASSUME SnakeAssumption ==
    /\ LINES \in Nat /\ COLS \in Nat /\ INIT_POS_X \in Int /\ INIT_POS_Y \in Int
    /\ INIT_SNAKE_LENGTH \in Nat /\ INIT_SNAKE_LENGTH > 1
    /\ speed \in Seq(Nat \ {0}) /\ levelup_score \in Seq(Nat \ {0})
    /\ Len(speed) = Len(levelup_score) /\ Len(speed) > 0
    /\ \A l, k \in DOMAIN speed: l <= k => levelup_score[l] <= levelup_score[k]
    /\ VOID \notin Cells
    /\ VOID \notin [pos: Int \X Int, pNext: Cells \cup {VOID}, pPre: Cells \cup {VOID}]

VARIABLES
    heap,           \* what each cell of this life holds; VOID if it is not allocated
    pSnakeHead, pSnakeTail, pSnakeFood,
    move_dir,
    current_score, level, life,
    ticker,         \* the period of the timer, 0 when it is stopped
    mode            \* "play", what the handler waits for a key after, or "killed"

snakeVars == <<heap, pSnakeHead, pSnakeTail, pSnakeFood, move_dir, current_score, level, life,
               ticker, mode>>

\* The cells from the first on, following pNext until it is null (or the heap is through).
ChainFrom(h, first) ==
    LET follow == [c \in Cells \cup {VOID} |->
                      IF c = VOID THEN VOID ELSE IF h[c] = VOID THEN VOID ELSE h[c].pNext]
        link[k \in Cells] == IF k = 1 THEN first ELSE follow[link[k - 1]]
        linked == {k \in Cells: link[k] # VOID}
    IN  [k \in 1..Cardinality(linked) |-> link[k]]
Chain == ChainFrom(heap, pSnakeHead)

Unused(h) == {c \in Cells: h[c] = VOID}
Squares(h) == {h[c].pos: c \in {d \in Cells: h[d] # VOID}}

\* malloc: which unused cell it returns makes no difference.
malloc(h) == Min(Unused(h))

\* The new snake lies to the left of its head.
Fresh ==
    [c \in Cells |->
        IF c > INIT_SNAKE_LENGTH THEN VOID
        ELSE Cell(<<INIT_POS_X, INIT_POS_Y + INIT_SNAKE_LENGTH - (c - 1)>>,
                  IF c = INIT_SNAKE_LENGTH THEN VOID ELSE c + 1,
                  IF c = 1 THEN VOID ELSE c - 1)]

put_food(h) ==
    \E at \in Room \ Squares(h): heap' = [h EXCEPT ![malloc(h)] = Cell(at, VOID, VOID)]
                                 /\ pSnakeFood' = malloc(h)

\* init_snake, put_food: the cells are new, whatever became of those of the last life.
NewSnake ==
    /\ put_food(Fresh)
    /\ pSnakeHead' = 1 /\ pSnakeTail' = INIT_SNAKE_LENGTH
    /\ move_dir' = "right"

\* MUTANT: the timer is left as it was stopped for the key.
reset_game_stopped(l) ==
    /\ NewSnake
    /\ current_score' = 0
    /\ ticker' = ticker

\* l is the level the game goes on with.
reset_game(l) ==
    /\ NewSnake
    /\ current_score' = 0
    /\ ticker' = speed[l]

SnakeInit ==
    /\ \E at \in Room \ Squares(Fresh):
         LET c == malloc(Fresh)
         IN  pSnakeFood = c /\ heap = [Fresh EXCEPT ![c] = Cell(at, VOID, VOID)]
    /\ pSnakeHead = 1 /\ pSnakeTail = INIT_SNAKE_LENGTH
    /\ move_dir = "right"
    /\ current_score = 0 /\ level = 1 /\ life = 3
    /\ ticker = speed[1]
    /\ mode = "play"

\* getOrder: the direction is taken as it comes, also back into the neck.
getOrder(d) ==
    /\ mode = "play"
    /\ move_dir' = d
    /\ UNCHANGED <<heap, pSnakeHead, pSnakeTail, pSnakeFood, current_score, level, life, ticker,
                   mode>>

\* The last cell is unlinked and becomes the first, one square ahead.
Crawled ==
    LET last == heap[pSnakeTail].pPre
        moved == [heap EXCEPT ![last].pNext = VOID, ![pSnakeHead].pPre = pSnakeTail]
        from == heap[pSnakeHead].pos
        by == Deltas[move_dir]
    IN  [moved EXCEPT ![pSnakeTail] = Cell(<<from[1] + by[1], from[2] + by[2]>>, pSnakeHead, VOID)]

is_snake_dead(at) == at \in Edges \/ \E c \in ToSet(Chain) \ {pSnakeTail}: heap[c].pos = at

\* MUTANT: the food is put before the old head, which stays where it is.
eat_food_before(h, first, last) ==
    [h EXCEPT ![pSnakeFood].pNext = first, ![first].pPre = pSnakeFood]

\* The food becomes the head; the old head goes to the end, where it stays
\* on its square: the next tick takes it from there.
eat_food(h, first, last) ==
    [h EXCEPT ![pSnakeFood].pNext = h[first].pNext,
              ![h[first].pNext].pPre = pSnakeFood,
              ![last].pNext = first,
              ![first].pNext = VOID, ![first].pPre = last]

\* The timer's signal.
Creep ==
    LET at == Crawled[pSnakeTail].pos
        last == heap[pSnakeTail].pPre
    IN  /\ ~ is_snake_dead(at) /\ at # heap[pSnakeFood].pos
        /\ heap' = Crawled
        /\ pSnakeHead' = pSnakeTail /\ pSnakeTail' = last
        /\ UNCHANGED <<pSnakeFood, current_score, level, ticker, mode, life, move_dir>>

Eat ==
    LET last == heap[pSnakeTail].pPre
    IN  /\ Crawled[pSnakeTail].pos = heap[pSnakeFood].pos
        /\ put_food(eat_food(Crawled, pSnakeTail, last))
        /\ pSnakeHead' = pSnakeFood /\ pSnakeTail' = pSnakeTail
        /\ current_score' = current_score + 1
        /\ IF current_score + 1 = levelup_score[level]
             THEN mode' = "levelup" /\ ticker' = 0 ELSE UNCHANGED <<mode, ticker>>
        /\ UNCHANGED <<level, life, move_dir>>

\* over stops the timer and waits for a key; the last life starts three new ones.
Crash ==
    /\ is_snake_dead(Crawled[pSnakeTail].pos)
    /\ heap' = Crawled
    /\ pSnakeHead' = pSnakeTail /\ pSnakeTail' = heap[pSnakeTail].pPre
    /\ IF life = 1 THEN life' = 3 /\ mode' = "gameover" ELSE life' = life - 1 /\ mode' = "crashed"
    /\ ticker' = 0
    /\ UNCHANGED <<pSnakeFood, current_score, level, move_dir>>

snake_move == mode = "play" /\ ticker # 0 /\ (Creep \/ Eat \/ Crash)

\* The key over or levelup waits for, and a delete_snake that gets through: what
\* it reads from the freed cells leads to the next cell or, null, ends its loop.
\* The rest of snake_move does nothing: the new food is not on the new snake and
\* the score is 0.
KeyGoesOn ==
    LET l == CASE mode = "crashed" -> level
               [] mode = "gameover" -> 1
               [] mode = "levelup" -> IF level = Len(speed) THEN 1 ELSE level + 1
    IN  /\ mode \notin {"play", "killed"}
        /\ level' = l
        /\ life' = IF mode = "levelup" /\ level = Len(speed) THEN 3 ELSE life
        /\ mode' = "play"
        /\ reset_game(l)

\* pNext of a freed cell is what free() left there, and freeing that ends the program.
delete_snake_dies ==
    /\ mode \notin {"play", "killed"}
    /\ mode' = "killed"
    /\ UNCHANGED <<heap, pSnakeHead, pSnakeTail, pSnakeFood, move_dir, current_score, level, life,
                   ticker>>

SnakeNext ==
    \/ snake_move \/ KeyGoesOn \/ delete_snake_dies
    \/ \E d \in DOMAIN Deltas: getOrder(d)
-----------------------------------------------------------------------------
(* The chain is a doubly linked list from head to tail, and as long as a
   life lasts no cell of it is lost: what was malloced for it is the chain
   and the one cell that is food.  That is what delete_snake finds when it
   starts; how far it gets in what it has freed is another matter. *)
ChainIsWhole ==
    /\ IsInjective(Chain)
    /\ ToSet(Chain) = Cells \ (Unused(heap) \cup {pSnakeFood})
    /\ heap[pSnakeHead].pPre = VOID
    /\ Last(Chain) = pSnakeTail /\ heap[pSnakeTail].pNext = VOID
    /\ \A i \in 2..Len(Chain): heap[Chain[i]].pPre = Chain[i - 1]

(* The snake is as long as it has eaten, and a level never goes on past the
   score that ends it: snake_move tests for equality only. *)
LengthFollowsScore ==
    /\ Len(Chain) = INIT_SNAKE_LENGTH + current_score
    /\ mode = "play" => current_score < levelup_score[level]

\* While the game is played the food lies inside the walls and not under the snake.
FoodCanBeReached ==
    mode = "play" => heap[pSnakeFood].pos \in Room \ {heap[c].pos: c \in ToSet(Chain)}

(* The game is timed exactly while it is played, at the speed of its level:
   after every crash, level and game that delete_snake survives the timer
   runs again. *)
TickerOfLevel == ticker = IF mode = "play" THEN speed[level] ELSE 0

\* The squares the snake covers, from its head on; the cell that was just
\* fed lies under the living head until the next tick.
Trail ==
    LET s == [i \in DOMAIN Chain |-> heap[Chain[i]].pos]
    IN  IF mode \in {"play", "levelup"} /\ Last(s) = Head(s) THEN Front(s) ELSE s

\* A new snake starts, or the head goes on by one square and the end with it unless it has fed.
Glides ==
    \E seen \in {Trail}: \E then \in {Trail'}:
       \/ mode # "play" /\ mode' = "play"
       \/ LET rest == IF Len(seen) < Len(Chain) THEN seen ELSE Front(seen)
          IN  \E d \in DOMAIN Deltas:
                LET by == Deltas[d]
                IN  then = <<<<seen[1][1] + by[1], seen[1][2] + by[2]>>>> \o rest

(* Seen on the screen, a tick moves the snake by one square, its end with it
   unless it has fed, or a new snake starts: whatever is done to the
   chain, no square of the snake jumps.  The square may be that of the
   neck: getOrder takes the key back, and the snake dies of it. *)
CrawlsByOne == [][Glides]_heap
=============================================================================
