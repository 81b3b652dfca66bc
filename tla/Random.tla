-------------------------------- MODULE Random --------------------------------
(***************************************************************************)
(* random16 of random.c: Marsaglia's 16-bit xorshift on the static         *)
(* g_seed16.  Nothing in the firmware calls set_seed16, so the sequence    *)
(* starts from the initial value of g_seed16 at every power-up.  On the    *)
(* AVR an int is 16 bits wide, so each shift left drops the bits past bit  *)
(* 15 before the exclusive or.                                             *)
(***************************************************************************)
EXTENDS Naturals
LOCAL INSTANCE Bitwise

\* static uint16_t g_seed16 = 36243;
G_SEED16_INIT == 36243

U16(n) == n % 65536

\* The new g_seed16, which random16 also returns.
Random16(seed) ==
  LET a == seed ^^ U16(seed * 2^13)
      b == a ^^ shiftR(a, 9)
  IN  b ^^ U16(b * 2^7)
===============================================================================
