-------------------------------- MODULE Bits --------------------------------
(***************************************************************************)
(* The bit utilities of variables/bits.rs.  A word is the set of positions *)
(* of its ones, so that `&`, `|` and `&!` are \cap, \cup and \, and >> is  *)
(* a shift of the positions.  The 32- and 64-bit functions differ in W,    *)
(* the width, only.  A shift by W is a shift by 0 in a build without       *)
(* overflow checks.  A bitmap is a function from word numbers to words.    *)
(***************************************************************************)
EXTENDS Integers

Ones(W) == 0 .. W - 1

\* (1 << n) - 1 and x >> n
Below(W, n) == 0 .. (n % W) - 1
ShiftedDown(x, n) == {b - n : b \in {c \in x : c >= n}}

bit(x, n) == x \cap {n}
bit_shift(x, n) == ShiftedDown(x, n) \cap {0}
bit_set(x, n) == IF x \cap {n} # {} THEN {0} ELSE {}

bits(W, x, high, low) == x \cap (Below(W, high + 1) \ Below(W, low))
bits_shift(W, x, high, low) == ShiftedDown(x, low) \cap Below(W, high - low + 1)

bit_mask(W, n) == IF n >= W THEN Ones(W) ELSE Below(W, n)

-----------------------------------------------------------------------------
(* Bitmaps *)

bitmap_word(W, n) == n \div W
bitmap_bit_in_word(W, n) == n % W
bitmap_num_words(W, n) == (n + W - 1) \div W

bitmap_first_word_mask(W, start) == (start % W) .. W - 1
bitmap_last_word_mask(W, n) == IF n % W # 0 THEN Below(W, n) ELSE Ones(W)

bitmap_test(W, bitmap, n) == bitmap_bit_in_word(W, n) \in bitmap[bitmap_word(W, n)]

\* The mask that the loops of bitmap_set() and bitmap_clear() apply to word p:
\* the first word's up to its end, all of the next ones, and what is left of
\* the last one, if anything.
MaskOf(W, start, nr, p) ==
  LET from == IF p = bitmap_word(W, start)
              THEN bitmap_first_word_mask(W, start) ELSE Ones(W)
  IN  IF p < bitmap_word(W, start) \/ start + nr <= p * W THEN {}
      ELSE IF start + nr >= (p + 1) * W THEN from
      ELSE from \cap bitmap_last_word_mask(W, start + nr)

bitmap_set(W, bitmap, start, nr) ==
  [p \in DOMAIN bitmap |-> bitmap[p] \cup MaskOf(W, start, nr, p)]

bitmap_clear(W, bitmap, start, nr) ==
  [p \in DOMAIN bitmap |-> bitmap[p] \ MaskOf(W, start, nr, p)]

\* The least element, as an upward loop finds it.
IsFirst(n, S) == n \in S /\ \A m \in S : n <= m
First(S) == CHOOSE n \in S : IsFirst(n, S)

ffz(W, x) == First(Ones(W) \ x)

None == -1

\* The first word that is not full decides.
bitmap_ffz(W, bitmap, numbits) ==
  LET open == {p \in 0 .. bitmap_num_words(W, numbits) - 1 : bitmap[p] # Ones(W)}
      n == First(open) * W + ffz(W, bitmap[First(open)])
  IN  IF open # {} /\ n < numbits THEN n ELSE None
=============================================================================
