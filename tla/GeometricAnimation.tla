-------------------------- MODULE GeometricAnimation --------------------------
(***************************************************************************)
(* The geometry of the four geometric animations of                       *)
(* src/midi_fighter_64/display.c: the row/column numbering of the 64      *)
(* buttons (wired as two 4x8 halves) and its inverse, and the LEDs each   *)
(* run_geometric_*_animation lights at step pos around a button.  The    *)
(* code computes the shape's bounds in uint8_t, relying on min_row =      *)
(* btn_row - pos wrapping below 0 to a large value, and clips them to the *)
(* grid; an LED is addressed by the byte offset btn_id * 3 of its triplet *)
(* in the 192-byte frame buffer.  Colours are not modelled.               *)
(***************************************************************************)
EXTENDS Integers

NUM_BUTTONS == 64
GEOMETRIC_ANIMATION_ROWS == 8
GEOMETRIC_ANIMATION_COLS == 8
SQUARE == 0
CIRCLE == 1
STAR == 2
TRIANGLE == 3
GEOMETRIC_STAR_MAX_TAIL_LENGTH == 3

\* GEOMETRIC_ANIMATION_STEPS_SQUARE, _CIRCLE, _STAR, _TRIANGLE
STEPS == [t \in 0 .. 3 |-> <<8, 14, 11, 15>>[t + 1]]

Buttons == 0 .. NUM_BUTTONS - 1

U8(x) == x % 256

Dist(a, b) == IF a > b THEN a - b ELSE b - a

\* Mutants.
ClipEnd_off(v, limit) == IF v < limit THEN v ELSE limit

\* start = min < LIMIT ? min : 0  (a wrapped min is a large uint8_t)
ClipStart(v, limit) == IF v < limit THEN v ELSE 0

\* end = max < LIMIT ? max : LIMIT - 1
ClipEnd(v, limit) == IF v < limit THEN v ELSE limit - 1

\* the star's "if (btn_id < 64)" before each write
OnGrid(id) == id < NUM_BUTTONS

\* get_geometric_button_row / _column (row 0 at the bottom, column 0 left)
get_geometric_button_row(id) == (id \div 4) % 8
get_geometric_button_column(id) == (id % 4) + (IF id >= 32 THEN 4 ELSE 0)

\* get_button_id_from_row_column: 0xFF outside the grid
get_button_id_from_row_column(r, c) ==
  IF r >= GEOMETRIC_ANIMATION_ROWS \/ c >= GEOMETRIC_ANIMATION_COLS THEN 255
  ELSE r * 4 + (IF c < 4 THEN c ELSE (c % 4) + 32)

get_distance_from_center_in_steps(br, bc, r, c) == Dist(br, r) + Dist(bc, c)

\* led_index = btn_id * 3 (uint8_t) for the cells <<row, col>> in cells
Leds(cells) == {U8(get_button_id_from_row_column(rc[1], rc[2]) * 3) : rc \in cells}

\* The clipped window min..max of rows and of columns shared by the square,
\* circle and triangle, as a set of <<row, col>> cells.
Window(min_row, max_row, min_col, max_col) ==
  (ClipStart(min_row, GEOMETRIC_ANIMATION_ROWS) .. ClipEnd(max_row, GEOMETRIC_ANIMATION_ROWS))
  \X (ClipStart(min_col, GEOMETRIC_ANIMATION_COLS) .. ClipEnd(max_col, GEOMETRIC_ANIMATION_COLS))

\* run_geometric_square_animation: the top and bottom rows of the square
\* and its outer columns.
SquareLit(btn, pos) ==
  LET row == get_geometric_button_row(btn)
      col == get_geometric_button_column(btn)
      min_row == U8(row - pos)
      max_row == U8(row + pos)
      min_col == U8(col - pos)
      max_col == U8(col + pos)
  IN  Leds({rc \in Window(min_row, max_row, min_col, max_col) :
              rc[1] \in {min_row, max_row} \/ rc[2] \in {min_col, max_col}})

\* run_geometric_circle_animation: in the square's window, the cells at
\* pos steps on the window's edge and those up to circle_incrementer
\* steps further (none further at pos 1).
CircleLit(btn, pos) ==
  LET row == get_geometric_button_row(btn)
      col == get_geometric_button_column(btn)
      min_row == U8(row - pos)
      max_row == U8(row + pos)
      min_col == U8(col - pos)
      max_col == U8(col + pos)
      inc == IF pos \div 2 <= 3 THEN pos \div 2 ELSE 3
      max_d == IF pos = 1 THEN pos ELSE pos + inc
      lit(rc) ==
        LET d == get_distance_from_center_in_steps(row, col, rc[1], rc[2])
        IN  \/ d = pos /\ (rc[1] \in {min_row, max_row} \/ rc[2] \in {min_col, max_col})
            \/ pos < d /\ d <= max_d
  IN  Leds({rc \in Window(min_row, max_row, min_col, max_col) : lit(rc)})

\* run_geometric_star_animation: eight rays drawn inwards from distance
\* pos, tail_position 0 .. while counter > 0 and tail < MAX_TAIL_LENGTH;
\* cells off the grid give btn_id 0xFF and are skipped.
StarLit(btn, pos) ==
  LET row == get_geometric_button_row(btn)
      col == get_geometric_button_column(btn)
      min_row == U8(row - pos)
      max_row == U8(row + pos)
      min_col == U8(col - pos)
      max_col == U8(col + pos)
      tails == {t \in 0 .. GEOMETRIC_STAR_MAX_TAIL_LENGTH - 1 : t < pos}
      rays(t) == {<<U8(max_row - t), col>>, <<U8(min_row + t), col>>,
                  <<U8(max_row - t), U8(min_col + t)>>, <<U8(max_row - t), U8(max_col - t)>>,
                  <<U8(min_row + t), U8(min_col + t)>>, <<U8(min_row + t), U8(max_col - t)>>,
                  <<row, U8(min_col + t)>>, <<row, U8(max_col - t)>>}
      ids == {get_button_id_from_row_column(rc[1], rc[2]) : rc \in UNION {rays(t) : t \in tails}}
  IN  {U8(id * 3) : id \in {id \in ids : OnGrid(id)}}

\* run_geometric_triangle_animation: apex pos rows above the button, base
\* pos - 1 rows below it, 2 * pos - 1 columns to each side; the base row
\* if it is on the grid, the apex if it is, and the two sides row by row
\* with distance_from_bottom = this_row - min_row in uint8_t.
TriangleLit(btn, pos) ==
  LET row == get_geometric_button_row(btn)
      col == get_geometric_button_column(btn)
      min_row == U8(row - (pos - 1))
      max_row == U8(row + pos)
      min_col == U8(col - (1 + (pos - 1) * 2))
      max_col == U8(col + (1 + (pos - 1) * 2))
      win == Window(min_row, max_row, min_col, max_col)
      start_row == ClipStart(min_row, GEOMETRIC_ANIMATION_ROWS)
      end_row == ClipEnd(max_row, GEOMETRIC_ANIMATION_ROWS)
      bottom == IF start_row = min_row THEN {rc \in win : rc[1] = start_row} ELSE {}
      top == IF end_row = max_row THEN {<<end_row, col>>} ELSE {}
      left(r) == U8(min_col + U8(r - min_row))
      right(r) == U8(max_col - U8(r - min_row))
      sides == {<<r, left(r)>> : r \in {r \in start_row .. end_row : left(r) < GEOMETRIC_ANIMATION_COLS}}
               \cup {<<r, right(r)>> : r \in {r \in start_row .. end_row : right(r) < GEOMETRIC_ANIMATION_COLS}}
  IN  Leds(bottom \cup top \cup sides)

\* The LEDs an animation of type t lights at step pos (none at step 0:
\* "at first, only the button itself is lit").
Lit(t, btn, pos) ==
  IF pos = 0 THEN {}
  ELSE CASE t = SQUARE -> SquareLit(btn, pos)
         [] t = CIRCLE -> CircleLit(btn, pos)
         [] t = STAR -> StarLit(btn, pos)
         [] t = TRIANGLE -> TriangleLit(btn, pos)

\* geometric_animation_state runs an animation while pos < its STEPS; with
\* update_animation the run first advances pos and returns at STEPS.
AnimationRuns(t, pos) == pos < STEPS[t]
AnimationAdvance(pos) == pos + 1
=============================================================================
