-------------------------------- MODULE Snake --------------------------------
(***************************************************************************)
(* language/c/snake.c: the game. Its arrays Board and Snake are functions  *)
(* of cells that count from 0, row by row, and of positions; the snake is  *)
(* in Snake from t to h, round the end of the array. What the game knows   *)
(* of a cell is whether mvprintw could draw there: on a terminal that does *)
(* not show the whole board, neither the walls nor the snake stop it where *)
(* they do not show.                                                       *)
(***************************************************************************)
EXTENDS Integers, FiniteSets, FiniteSetsExt

CONSTANTS W, H,     \* even: the snake of an odd H starts in a wall
          Screens   \* the terminals: of each, the cells where mvprintw draws

VARIABLES screen,   \* the terminal of this game
          Board, Snake, h, t, food, moveDirection, state

snakeVars == <<screen, Board, Snake, h, t, food, moveDirection, state>>

MSIZE == W * H
Cells == 0..MSIZE - 1
MoveHints == [d \in 0..3 |-> IF d = 0 THEN W ELSE IF d = 1 THEN 2 * W + 1 ELSE IF d = 2 THEN W + 2 ELSE 1]

(* The cells that the loop of line 15 visits: i += j, and j skips to the   *)
(* other side of a row in the middle. *)
Jump(i, j) == IF i < W \/ i >= MSIZE - W THEN 1 ELSE W - j
Visited == LET at[n \in 0..MSIZE] ==
                 IF n = 0 THEN <<0, 1>>
                 ELSE LET before == at[n - 1]
                          i == before[1] + before[2]
                      IN IF before[1] = MSIZE THEN before ELSE <<i, Jump(i, before[2])>>
           IN {at[n][1] : n \in 0..MSIZE} \ {MSIZE}

Start == (W \div 2) + ((H * W) \div 2)

(* mvprintw has drawn and not returned ERR. *)
DRAW(pos) == pos \in screen

(* The cell of the snake's first head is not set in Board.                 *)
Init == /\ screen \in Screens
        /\ LET visited == Visited IN Board = [c \in Cells |-> c \in visited /\ DRAW(c)]
        /\ Snake = [p \in {0} |-> Start]
        /\ food = Start - 1
        /\ h = 0 /\ t = 0 /\ moveDirection = 0
        /\ state = "move"

(* A key turns the snake to its left or right; the key of another way, or  *)
(* none within 50 ms, does not. *)
Steer(key) == moveDirection' = IF key # 0 /\ (key - 1) % 2 # moveDirection % 2
                                 THEN key - 1 ELSE moveDirection

Following(p) == IF p = MSIZE - 1 THEN 0 ELSE p + 1
next == Snake[h] + MoveHints[moveDirection'] - W - 1

(* The slots of Snake from a to b. *)
Ring(a, b) == IF a <= b THEN a..b ELSE (a .. MSIZE - 1) \cup (0..b)

(* Mutant: where the tail was stays taken. *)
Leave_Taken(tail) == Board' = [Board EXCEPT ![next] = DRAW(next)]

(* The head is drawn and the tail wiped off, or not. *)
Leave(tail) == Board' = [Board EXCEPT ![next] = DRAW(next), ![tail] = ~DRAW(tail)]

(* The body of the loop up to the food: the new head is drawn, and the     *)
(* tail taken off unless the snake eats. The slots before the tail are not *)
(* read again. Board is read, and written, outside of its bounds once the  *)
(* snake leaves the board, which is undefined.                             *)
Move == /\ state = "move"
        /\ \E key \in 0..4 : Steer(key)
        /\ CASE next \notin Cells -> state' = "undefined" /\ UNCHANGED <<Board, Snake, h, t>>
             [] next \in Cells /\ Board[next] -> state' = "over" /\ UNCHANGED <<Board, Snake, h, t>>
             [] next \in Cells /\ ~Board[next] ->
                  LET p == Following(h)
                      at == [q \in DOMAIN Snake \cup {p} |-> IF q = p THEN next ELSE Snake[q]]
                  IN /\ h' = p /\ state' = "food"
                     /\ IF next = food THEN Board' = [Board EXCEPT ![next] = DRAW(next)] /\ t' = t
                        ELSE Leave(at[t]) /\ t' = Following(t)
                     /\ Snake' = [q \in Ring(t', p) |-> at[q]]
        /\ UNCHANGED <<screen, food>>

(* rand() / (RAND_MAX / n) is n at most. *)
Candidates == W + 1 .. W + 1 + (W - 1) * (H - 1)
Suits(c) == ~Board[c] /\ DRAW(c)
Free == {c \in Candidates \cap Cells : Suits(c)}

(* The search for a cell that shows and is not set, with rand() as often   *)
(* as it takes (it meets every candidate): for ever, if there is no such   *)
(* cell. Then getch() gives 'q' or not. *)
Goes == state' \in {"move", "over"}
Feed == /\ state = "food"
        /\ \/ Suits(food) /\ Goes /\ UNCHANGED food
           \/ ~Suits(food) /\ food' \in Free /\ Goes
           \/ ~Suits(food) /\ Free = {} /\ state' = "hangs" /\ UNCHANGED food
        /\ UNCHANGED <<screen, Board, Snake, h, t, moveDirection>>

Next == Move \/ Feed

-----------------------------------------------------------------------------
Walls == {c \in Cells : c < W \/ c >= MSIZE - W \/ c % W \in {0, W - 1}}
Body == {Snake[p] : p \in DOMAIN Snake}

(* The terminal shows the board. *)
Whole == Cells \subseteq screen

(* Then Board is set where there is a wall or the snake, except for the    *)
(* cell where the game began: there the snake may lie on food, and cross   *)
(* itself unharmed. *)
BoardShowsAll ==
  Whole => /\ {c \in Cells : Board[c]} \subseteq Walls \cup Body
           /\ (Walls \cup Body) \ {Start} \subseteq {c \in Cells : Board[c]}

(* No wall that shows is met. On a terminal that shows the board the snake *)
(* is from t to h a way through its cells, each next to the one before,    *)
(* that visits nothing twice but where it began, and stays on the board.   *)
IsWay ==
  /\ Body \cap Walls \cap screen = {}
  /\ Whole =>
       /\ \A p \in DOMAIN Snake : p # h => Snake[Following(p)] - Snake[p] \in {1, -1, W, -W}
       /\ \A p, q \in DOMAIN Snake : Snake[p] = Snake[q] => p = q \/ Snake[p] = Start
       /\ state # "undefined"

(* The game goes on with its food where the snake can get it, and hangs    *)
(* only when the snake has filled the board that the terminal shows.       *)
FoodWaits ==
  /\ state = "move" => ~Board[food] /\ food \notin Walls
  /\ Whole /\ state = "hangs" => Cells = Walls \cup Body
=============================================================================
