------------------------------- MODULE BallDemo -------------------------------
(***************************************************************************)
(* The ball demo of led.c, which the sleep timer runs (SleepTimer):        *)
(*  - ball_demo_setup clears the 8x8 ball_grid;                            *)
(*  - each frame of ball_demo_run scans the grid row by row, column by     *)
(*    column, moving each ball it meets (move_ball_horizontally,           *)
(*    move_ball_vertically), resolving collisions, and adds a ball         *)
(*    (new_ball) while it counted fewer than BALL_DEMO_MAX_BALLS.          *)
(* The scan updates the grid in place, so a ball moved to a cell the scan  *)
(* has not reached yet is met again in the same frame.  A frame is one     *)
(* step: it runs in the main loop, and no ISR touches the grid.           *)
(* random16 (module Random) runs on g_seed16 with a call wherever the      *)
(* code makes one; nothing reseeds it, so the demo is a function of the    *)
(* frames at which ball_demo_setup runs.  Colours and the geometric        *)
(* animation of an explosion only reach the display and are left out.      *)
(***************************************************************************)
EXTENDS Naturals, Sequences, FiniteSets
LOCAL INSTANCE Random

CONSTANT REPEAT_BALL_COLLISION_LIMIT   \* 0xFF

BALL_DEMO_MAX_BALLS == 2
BALL_DEMO_NEW_BALL_DELAY_LIMIT == 24
OVERRIDE_BALL_SLOWDOWN_FACTOR == 240
NONE == BALL_DEMO_MAX_BALLS             \* an empty cell of ball_grid
Balls == 0 .. BALL_DEMO_MAX_BALLS - 1
Rows == 0 .. 7
Cols == 0 .. 7
U8(n) == n % 256

\* vertical_slowdown_factors, indexed by rows below the ball's max height.
VerticalFactor(k) == <<12, 10, 8, 7, 6, 5, 4, 3>>[k + 1]

\* The bound of the history count pair_collisions: one past the limit, so
\* the state space stays finite once the limit has been passed.
PairsBound == REPEAT_BALL_COLLISION_LIMIT + 1

VARIABLES
  ball_grid,
  ball_horizontal_direction, ball_horizontal_slowdown_factor,
  ball_horizontal_slowdown_counter,
  ball_vertical_direction, ball_vertical_slowdown_counter, ball_vertical_max,
  ball_index, new_ball_delay_counter, direction,   \* statics of new_ball
  repeat_collision_counter,                        \* static of repeat_collision_limit_reached
  g_seed16,                                        \* static of random.c
  pair_collisions,   \* history: collisions in a row of the same two balls
  in_frame, scan_row, \* inside the update of ball_demo_run, at this row
  balls_on_grid, disable_collision,   \* its locals
  frame_start_grid,  \* history: ball_grid when the update began
  demo_frames,       \* frames run in this sleep period
  sleep_periods      \* calls of ball_demo_setup so far

ball_vars == <<ball_grid, ball_horizontal_direction, ball_horizontal_slowdown_factor,
               ball_horizontal_slowdown_counter, ball_vertical_direction,
               ball_vertical_slowdown_counter, ball_vertical_max, ball_index,
               new_ball_delay_counter, direction, repeat_collision_counter,
               g_seed16, pair_collisions, in_frame, scan_row, balls_on_grid,
               disable_collision, frame_start_grid, demo_frames,
               sleep_periods>>

TypeOK ==
  /\ ball_grid \in [Rows -> [Cols -> Balls \cup {NONE}]]
  /\ ball_horizontal_direction \in [Balls -> BOOLEAN]
  /\ ball_vertical_direction \in [Balls -> BOOLEAN]
  /\ ball_horizontal_slowdown_factor \in [Balls -> 0 .. 255]
  /\ ball_horizontal_slowdown_counter \in [Balls -> 0 .. 255]
  /\ ball_vertical_slowdown_counter \in [Balls -> 0 .. 255]
  /\ ball_vertical_max \in [Balls -> Rows]
  /\ ball_index \in Balls
  /\ new_ball_delay_counter \in 0 .. 255
  /\ direction \in BOOLEAN
  /\ repeat_collision_counter \in 0 .. 255
  /\ g_seed16 \in 0 .. 65535
  /\ pair_collisions \in 0 .. PairsBound
  /\ in_frame \in BOOLEAN /\ scan_row \in 0 .. 8
  /\ balls_on_grid \in 0 .. 255
  /\ disable_collision \in [Balls -> BOOLEAN]
  /\ frame_start_grid \in [Rows -> [Cols -> Balls \cup {NONE}]]
  /\ demo_frames \in Nat /\ sleep_periods \in Nat

EmptyGrid == [r \in Rows |-> [c \in Cols |-> NONE]]

\* The statics as the C start-up code leaves them; ball_grid as
\* ball_demo_setup leaves it, which SleepTimer shows is not always so.
Init ==
  /\ ball_grid = EmptyGrid
  /\ ball_horizontal_direction = [b \in Balls |-> FALSE]
  /\ ball_vertical_direction = [b \in Balls |-> FALSE]
  /\ ball_horizontal_slowdown_factor = [b \in Balls |-> 0]
  /\ ball_horizontal_slowdown_counter = [b \in Balls |-> 0]
  /\ ball_vertical_slowdown_counter = [b \in Balls |-> 0]
  /\ ball_vertical_max = [b \in Balls |-> 0]
  /\ ball_index = 0
  /\ new_ball_delay_counter = BALL_DEMO_NEW_BALL_DELAY_LIMIT
  /\ direction = TRUE
  /\ repeat_collision_counter = 0
  /\ g_seed16 = G_SEED16_INIT
  /\ pair_collisions = 0
  /\ in_frame = FALSE /\ scan_row = 0
  /\ balls_on_grid = 0
  /\ disable_collision = [b \in Balls |-> FALSE]
  /\ frame_start_grid = EmptyGrid
  /\ demo_frames = 0 /\ sleep_periods = 0
-----------------------------------------------------------------------------
(* One frame works on a record s of everything the scan reads and writes: *)
(* grid, hdir, hfac, hcnt, vdir, vcnt, vmax, count (balls_on_grid),       *)
(* disable (disable_collision), rep (the repeat counter) and pairs.       *)

\* A call of random16 whose value only chooses a colour or an animation.
Advance(s) == [s EXCEPT !.seed = Random16(@)]

\* Mutant: a move leaves the slowdown counter where it was.
MoveH_no_reset(s, b, col) ==
  LET count == U8(s.hcnt[b] + 1)
      moved == IF s.hdir[b] THEN U8(col + 255) ELSE col + 1
  IN  CASE count < s.hfac[b] -> [col |-> col, s |-> [s EXCEPT !.hcnt[b] = count]]
        [] moved < 8 -> [col |-> moved, s |-> [s EXCEPT !.hcnt[b] = count]]
        [] OTHER -> [col |-> col, s |-> [s EXCEPT !.hcnt[b] = s.hfac[b], !.hdir[b] = ~@]]

\* move_ball_horizontally: the new column and the ball's updated state.
MoveH(s, b, col) ==
  LET count == U8(s.hcnt[b] + 1)
      moved == IF s.hdir[b] THEN U8(col + 255) ELSE col + 1
  IN  CASE count < s.hfac[b] ->
             [col |-> col, s |-> [s EXCEPT !.hcnt[b] = count]]
        [] moved < 8 ->
             [col |-> moved, s |-> [s EXCEPT !.hcnt[b] = 0]]
        [] OTHER ->          \* hit the wall: turn, move on the next call
             [col |-> col, s |-> [s EXCEPT !.hcnt[b] = s.hfac[b], !.hdir[b] = ~@]]

\* move_ball_vertically; going below row 0 wraps to 0xFF (the floor).
MoveV(s, b, row) ==
  LET count == U8(s.vcnt[b] + 1)
      factor == VerticalFactor((s.vmax[b] - row) % 8)
      moved == IF s.vdir[b] THEN U8(row + 255) ELSE row + 1
  IN  CASE count < factor ->
             [row |-> row, s |-> [s EXCEPT !.vcnt[b] = count]]
        [] moved <= s.vmax[b] ->
             [row |-> moved, s |-> [s EXCEPT !.vcnt[b] = 0]]
        [] OTHER ->          \* hit the floor or the ceiling
             [row |-> row, s |-> [s EXCEPT !.vcnt[b] = factor, !.vdir[b] = ~@]]

\* repeat_collision_limit_reached: last_this_ball and last_that_ball keep
\* their initial 0xFF, so every collision is a new one.
LastThisBall == 255
LastThatBall == 255
RepeatLimitReached(rep, this, that) ==
  LET repeat == \/ this = LastThisBall /\ that = LastThatBall
                \/ this = LastThatBall /\ that = LastThisBall
      n == U8(rep + 1)
  IN  CASE ~repeat -> [hit |-> FALSE, rep |-> 0]
        [] n >= REPEAT_BALL_COLLISION_LIMIT -> [hit |-> TRUE, rep |-> 0]
        [] OTHER -> [hit |-> FALSE, rep |-> n]

\* The history count of collisions, saturated one past the limit.
CountPair(n) == IF n < PairsBound THEN n + 1 ELSE n

\* The direction changes of a collision on one axis: this ball takes
\* `mine`, the other ball `theirs`, this ball moves on the next call, and
\* change_ball_colors_after_collision draws a colour.
Bounce(s, dir, cnt, this, that, mine, theirs) ==
  Advance([s EXCEPT ![dir][this] = mine, ![dir][that] = theirs,
                    ![cnt][this] = OVERRIDE_BALL_SLOWDOWN_FACTOR])

\* The collision branch of ball_demo_run.
Collide(s, this, that, r, c, nr, nc) ==
  LET rl == RepeatLimitReached(s.rep, this, that)
      explode == ~s.disable[this] /\ rl.hit
      s1 == IF s.disable[this] THEN [s EXCEPT !.count = U8(@ + 1)]
            ELSE [s EXCEPT !.count = U8(@ + 1), !.rep = rl.rep,
                                            !.pairs = CountPair(@)]
      s2 == CASE s.disable[this] -> s1
              [] explode ->
                   [Advance(s1) EXCEPT !.grid[r][c] = NONE, !.grid[nr][nc] = NONE,
                              !.count = IF nr < r \/ nc < c THEN U8(@ + 254) ELSE @,
                              !.pairs = 0]
              [] nr > r -> Bounce(s1, "vdir", "vcnt", this, that, FALSE, TRUE)
              [] nr < r -> Bounce(s1, "vdir", "vcnt", this, that, TRUE, FALSE)
              [] OTHER -> s1
      s3 == CASE nc > c -> Bounce(s2, "hdir", "hcnt", this, that, FALSE, TRUE)
              [] nc < c -> Bounce(s2, "hdir", "hcnt", this, that, TRUE, FALSE)
              [] OTHER -> s2
  IN  [s3 EXCEPT !.disable[that] = TRUE]

\* The body of the scan for the cell (r, c).
ScanCell(s, cell) ==
  LET r == cell[1]
      c == cell[2]
      this == s.grid[r][c]
      h == MoveH(s, this, c)
      v == MoveV(h.s, this, r)
      that == v.s.grid[v.row][h.col]
  IN  CASE this = NONE -> s
        [] that = NONE ->
             [v.s EXCEPT !.grid[r][c] = NONE, !.grid[v.row][h.col] = this,
                         !.count = U8(@ + 1)]
        [] that = this -> [v.s EXCEPT !.count = U8(@ + 1)]
        [] OTHER -> Collide(v.s, this, that, r, c, v.row, h.col)

\* The inner for loop: the cells of row r from column c on.
RECURSIVE ScanRow(_, _, _)
ScanRow(s, r, c) == IF c > 7 THEN s ELSE ScanRow(ScanCell(s, <<r, c>>), r, c + 1)

\* Mutant: new_ball does not advance ball_index.
NewBall_same_index(s) ==
  LET delay == U8(s.delay + 1)
      dir == ~s.dir
      r1 == Random16(s.seed)          \* colour
      r2 == Random16(r1)              \* row
      r3 == Random16(r2)              \* speed
      row == IF (r2 % 8) + 2 >= 8 THEN 7 ELSE (r2 % 8) + 2
      col == IF dir THEN 7 ELSE 0
      tried == [s EXCEPT !.delay = 0, !.dir = dir, !.hdir[s.idx] = dir,
                         !.seed = r2]
  IN  CASE delay < BALL_DEMO_NEW_BALL_DELAY_LIMIT -> [s EXCEPT !.delay = delay]
        [] s.grid[row][col] # NONE -> tried
        [] OTHER -> [tried EXCEPT !.grid[row][col] = s.idx, !.hfac[s.idx] = 8 + (r3 % 32),
                                  !.vmax[s.idx] = row, !.vdir[s.idx] = FALSE,
                                  !.hcnt[s.idx] = 0, !.vcnt[s.idx] = 0,
                                  !.seed = r3]

\* new_ball: three calls of random16 (colour, row, speed), the last only
\* when the cell is free.
NewBall(s) ==
  LET delay == U8(s.delay + 1)
      dir == ~s.dir
      r1 == Random16(s.seed)          \* colour
      r2 == Random16(r1)              \* row
      r3 == Random16(r2)              \* speed
      row == IF (r2 % 8) + 2 >= 8 THEN 7 ELSE (r2 % 8) + 2
      col == IF dir THEN 7 ELSE 0
      tried == [s EXCEPT !.delay = 0, !.dir = dir, !.hdir[s.idx] = dir,
                         !.seed = r2]
  IN  CASE delay < BALL_DEMO_NEW_BALL_DELAY_LIMIT -> [s EXCEPT !.delay = delay]
        [] s.grid[row][col] # NONE -> tried       \* a ball is already there
        [] OTHER ->
             [tried EXCEPT !.grid[row][col] = s.idx, !.hfac[s.idx] = 8 + (r3 % 32),
                           !.vmax[s.idx] = row, !.vdir[s.idx] = FALSE,
                           !.hcnt[s.idx] = 0, !.vcnt[s.idx] = 0,
                           !.seed = r3,
                           !.idx = (s.idx + 1) % BALL_DEMO_MAX_BALLS]

\* The variables as the record a frame works on.
Current ==
  [grid |-> ball_grid, hdir |-> ball_horizontal_direction,
   hfac |-> ball_horizontal_slowdown_factor, hcnt |-> ball_horizontal_slowdown_counter,
   vdir |-> ball_vertical_direction, vcnt |-> ball_vertical_slowdown_counter,
   vmax |-> ball_vertical_max, idx |-> ball_index, delay |-> new_ball_delay_counter,
   dir |-> direction, rep |-> repeat_collision_counter, pairs |-> pair_collisions,
   seed |-> g_seed16,
   count |-> balls_on_grid, disable |-> disable_collision]

\* The record written back to the variables.
Store(s) ==
  /\ ball_grid' = s.grid
  /\ ball_horizontal_direction' = s.hdir
  /\ ball_horizontal_slowdown_factor' = s.hfac
  /\ ball_horizontal_slowdown_counter' = s.hcnt
  /\ ball_vertical_direction' = s.vdir
  /\ ball_vertical_slowdown_counter' = s.vcnt
  /\ ball_vertical_max' = s.vmax
  /\ ball_index' = s.idx
  /\ new_ball_delay_counter' = s.delay
  /\ direction' = s.dir
  /\ repeat_collision_counter' = s.rep
  /\ g_seed16' = s.seed
  /\ pair_collisions' = s.pairs
  /\ balls_on_grid' = s.count
  /\ disable_collision' = s.disable

\* ball_demo_setup, called between frames.
Setup ==
  /\ ~in_frame
  /\ ball_grid' = EmptyGrid
  /\ demo_frames' = 0
  /\ sleep_periods' = sleep_periods + 1
  /\ pair_collisions' = 0     \* the balls of the last period are gone
  /\ UNCHANGED <<ball_horizontal_direction, ball_horizontal_slowdown_factor,
                 ball_horizontal_slowdown_counter, ball_vertical_direction,
                 ball_vertical_slowdown_counter, ball_vertical_max, ball_index,
                 new_ball_delay_counter, direction, repeat_collision_counter,
                 g_seed16, in_frame, scan_row, balls_on_grid, disable_collision,
                 frame_start_grid>>

\* ball_demo_run finds g_led_counter[2] run out: restart it and clear the
\* locals of the update.
FrameBegin ==
  /\ ~in_frame
  /\ demo_frames' = demo_frames + 1
  /\ in_frame' = TRUE
  /\ scan_row' = 0
  /\ balls_on_grid' = 0
  /\ disable_collision' = [b \in Balls |-> FALSE]
  /\ frame_start_grid' = ball_grid
  /\ UNCHANGED <<sleep_periods, ball_grid, ball_horizontal_direction, ball_horizontal_slowdown_factor,
                 ball_horizontal_slowdown_counter, ball_vertical_direction,
                 ball_vertical_slowdown_counter, ball_vertical_max, ball_index,
                 new_ball_delay_counter, direction, repeat_collision_counter,
                 g_seed16, pair_collisions>>

\* One pass of the outer for loop: the row scan_row.
ScanStep ==
  /\ in_frame /\ scan_row < 8
  /\ Store(ScanRow(Current, scan_row, 0))
  /\ scan_row' = scan_row + 1
  /\ UNCHANGED <<in_frame, frame_start_grid, demo_frames,
                 sleep_periods>>

\* After the scan: add a ball if fewer than BALL_DEMO_MAX_BALLS were counted.
FrameEnd ==
  /\ in_frame /\ scan_row = 8
  /\ Store(IF balls_on_grid < BALL_DEMO_MAX_BALLS THEN NewBall(Current) ELSE Current)
  /\ in_frame' = FALSE
  /\ UNCHANGED <<scan_row, frame_start_grid, demo_frames,
                 sleep_periods>>

Next == Setup \/ FrameBegin \/ ScanStep \/ FrameEnd

Spec == Init /\ [][Next]_ball_vars
-----------------------------------------------------------------------------
\* The cells that hold ball b.
Cells(g, b) == {rc \in Rows \X Cols : g[rc[1]][rc[2]] = b}

Dist(a, b) == IF a > b THEN a - b ELSE b - a

\* No ball is shown in two cells: new_ball reuses ball_index without
\* checking that it is off the grid, so this rests on the scan counting
\* every ball at least once (balls_on_grid), however balls move into
\* cells the scan has yet to reach, collide or are met twice.
NoGhostBall == \A b \in Balls : Cardinality(Cells(ball_grid, b)) <= 1

\* A frame moves each ball by at most one cell in each direction, although
\* a ball that moves to a cell later in the row-major scan is moved again
\* in the same frame.
OneCellPerFrame ==
  \A b \in Balls :
    \A p \in Cells(frame_start_grid, b) : \A q \in Cells(ball_grid, b) :
      in_frame => Dist(p[1], q[1]) <= 1 /\ Dist(p[2], q[2]) <= 1

\* The repeat-collision check does what its comments say: two balls that
\* keep colliding explode once REPEAT_BALL_COLLISION_LIMIT collisions
\* follow the first, so no pair collides more often in a row.
RepeatCollisionsExplode == pair_collisions <= REPEAT_BALL_COLLISION_LIMIT
===============================================================================
