----------------------------- MODULE ValueProofs ----------------------------
(* What the pure functions of variables/ and of ipc/message.rs compute, for *)
(* every argument, and the priorities of a task, for any threads and       *)
(* priorities.                                                             *)
EXTENDS TaskPriority, IdleStates, Message, TaskId, TLAPS, NaturalsInduction, WellFoundedInduction

-----------------------------------------------------------------------------
(* time.rs *)

\* zx_time_add_duration() and the two subtractions of times: an overflow upwards
\* gives the infinite past, one downwards the infinite future.  (Their comments,
\* time.rs:45, say that they saturate.)
THEOREM TimesOverflowBackwards ==
  ASSUME ZX_TIME_INFINITE \in Nat, NEW t \in Word, NEW d \in Word
  PROVE  /\ t + d > ZX_TIME_INFINITE =>
              zx_time_add_duration(t, d) = ZX_TIME_INFINITE_PAST
         /\ t + d < ZX_TIME_INFINITE_PAST =>
              zx_time_add_duration(t, d) = ZX_TIME_INFINITE
         /\ t + d \in Word => zx_time_add_duration(t, d) = t + d
         /\ t - d > ZX_TIME_INFINITE =>
              /\ zx_time_sub_duration(t, d) = ZX_TIME_INFINITE_PAST
              /\ zx_time_sub_time(t, d) = ZX_TIME_INFINITE_PAST
         /\ t - d < ZX_TIME_INFINITE_PAST =>
              /\ zx_time_sub_duration(t, d) = ZX_TIME_INFINITE
              /\ zx_time_sub_time(t, d) = ZX_TIME_INFINITE
         /\ t - d \in Word => /\ zx_time_sub_duration(t, d) = t - d
                              /\ zx_time_sub_time(t, d) = t - d
<1> t \in Int /\ d \in Int
  BY DEF Word, ZX_TIME_INFINITE_PAST
<1> QED
  BY DEF zx_time_add_duration, zx_time_sub_duration, zx_time_sub_time, Checked,
         Saturated, Word, ZX_TIME_INFINITE_PAST

\* A product of integers is positive exactly if the factors are both positive
\* or both negative.
LEMMA SignOfProduct ==
  ASSUME NEW m \in Int, NEW n \in Int
  PROVE  m * n > 0 <=> (m > 0 /\ n > 0) \/ (m < 0 /\ n < 0)
  OBVIOUS

\* zx_duration_mul_int64() and, through it, every conversion of a unit into
\* nanoseconds saturates towards the side of the exact product.
THEOREM ProductsSaturate ==
  ASSUME ZX_TIME_INFINITE \in Nat, NEW d \in Word, NEW m \in Word
  PROVE  zx_duration_mul_int64(d, m) = Saturated(d * m)
<1> d \in Int /\ m \in Int
  BY DEF Word, ZX_TIME_INFINITE_PAST
<1> DEFINE p == d * m
<1>1. p \in Int /\ (p > 0 <=> (d > 0 /\ m > 0) \/ (d < 0 /\ m < 0))
  BY SignOfProduct
<1> HIDE DEF p
<1>2. (IF p \in Word THEN p
       ELSE IF (d > 0 /\ m > 0) \/ (d < 0 /\ m < 0)
            THEN ZX_TIME_INFINITE ELSE ZX_TIME_INFINITE_PAST) = Saturated(p)
  BY <1>1 DEF Saturated, Word, ZX_TIME_INFINITE_PAST
<1> QED
  BY <1>2 DEF zx_duration_mul_int64, p

-----------------------------------------------------------------------------
(* bits.rs *)

\* bits() extracts bits high to low, inclusive, as its comment says (bits.rs:23),
\* as long as high is not the top bit of the word; then it extracts nothing.
THEOREM BitsExtracts ==
  ASSUME NEW W \in {32, 64}, NEW x \in SUBSET Ones(W),
         NEW high \in Ones(W), NEW low \in 0 .. high
  PROVE  bits(W, x, high, low) = IF high = W - 1 THEN {}
                                 ELSE {b \in x : low <= b /\ b <= high}
<1>1. Below(W, low) = 0 .. low - 1
  BY DEF Below, Ones
<1>2. Below(W, high + 1) = IF high = W - 1 THEN {} ELSE 0 .. high
  BY DEF Below, Ones
<1>3. x \subseteq 0 .. W - 1 /\ W \in Nat /\ low \in Nat /\ high \in 0 .. W - 1
  BY DEF Ones
<1>4. CASE high = W - 1
  BY <1>2, <1>4 DEF bits
<1>5. CASE high # W - 1
  <2>1. \A b \in x : b \in Below(W, high + 1) \ Below(W, low) <=> low <= b /\ b <= high
    BY <1>1, <1>2, <1>3, <1>5
  <2> QED
    BY <2>1, <1>5 DEF bits
<1> QED
  BY <1>4, <1>5

\* bits_shift() extracts the same bits down to bit 0, unless it is asked for the
\* whole word.
THEOREM BitsShiftExtracts ==
  ASSUME NEW W \in {32, 64}, NEW x \in SUBSET Ones(W),
         NEW high \in Ones(W), NEW low \in 0 .. high
  PROVE  bits_shift(W, x, high, low) =
           IF high - low = W - 1 THEN {}
           ELSE {b \in 0 .. high - low : b + low \in x}
<1>1. Below(W, high - low + 1) = IF high - low = W - 1 THEN {} ELSE 0 .. high - low
  BY DEF Below, Ones
<1>2. \A b \in 0 .. high - low : b \in ShiftedDown(x, low) <=> b + low \in x
  BY DEF ShiftedDown, Ones
<1> QED
  BY <1>1, <1>2 DEF bits_shift, Ones

\* Bit n of the mask for its own word is set exactly if n is in the range.
LEMMA MaskOfRange ==
  ASSUME NEW start \in Nat, NEW nr \in Nat, NEW n \in Nat
  PROVE  n % 64 \in MaskOf(64, start, nr, n \div 64) <=> start <= n /\ n < start + nr
<1> DEFINE p == n \div 64
           i == n % 64
           q == start \div 64
           j == start % 64
           k == (start + nr) % 64
<1>1. /\ p \in Nat /\ i \in 0 .. 63 /\ n = 64 * p + i
      /\ q \in Nat /\ j \in 0 .. 63 /\ start = 64 * q + j
      /\ k \in 0 .. 63 /\ \E l \in Nat : start + nr = 64 * l + k
  <2>1. (start + nr) \div 64 \in Nat /\ start + nr = 64 * ((start + nr) \div 64) + k
    OBVIOUS
  <2> QED
    BY <2>1
<1>2. /\ bitmap_first_word_mask(64, start) = j .. 63
      /\ Ones(64) = 0 .. 63
      /\ bitmap_last_word_mask(64, start + nr) = IF k # 0 THEN 0 .. k - 1 ELSE 0 .. 63
  BY DEF bitmap_first_word_mask, Ones, bitmap_last_word_mask, Below
<1> HIDE DEF p, i, q, j, k
<1>3. MaskOf(64, start, nr, p) =
        LET from == IF p = q THEN j .. 63 ELSE 0 .. 63
        IN  IF p < q \/ start + nr <= p * 64 THEN {}
            ELSE IF start + nr >= (p + 1) * 64 THEN from
            ELSE from \cap (IF k # 0 THEN 0 .. k - 1 ELSE 0 .. 63)
  BY <1>2 DEF MaskOf, bitmap_word, q
<1>4. i \in MaskOf(64, start, nr, p) <=> start <= n /\ n < start + nr
  <2>1. CASE p < q \/ start + nr <= p * 64
    BY <1>1, <1>3, <2>1
  <2>2. CASE ~(p < q \/ start + nr <= p * 64) /\ start + nr >= (p + 1) * 64
    <3>1. CASE p = q
      BY <1>1, <1>3, <2>2, <3>1
    <3>2. CASE p > q
      <4>1. start <= n /\ n < start + nr
        BY <1>1, <2>2, <3>2
      <4>2. MaskOf(64, start, nr, p) = 0 .. 63
        BY <1>1, <1>3, <2>2, <3>2
      <4> QED
        BY <1>1, <4>1, <4>2
    <3> QED
      BY <1>1, <2>2, <3>1, <3>2
  <2>3. CASE ~(p < q \/ start + nr <= p * 64) /\ ~(start + nr >= (p + 1) * 64)
    BY <1>1, <1>3, <2>3
  <2> QED
    BY <2>1, <2>2, <2>3
<1> QED
  BY <1>4 DEF i, p

\* bits.rs:121, "Set `nr` bits starting from `start`", and the same for clearing:
\* these bits and no others, across any number of words.
THEOREM BitmapRangesExact ==
  ASSUME NEW D, NEW bm \in [D -> SUBSET Ones(64)],
         NEW start \in Nat, NEW nr \in Nat,
         NEW n \in Nat, bitmap_word(64, n) \in D
  PROVE  /\ bitmap_test(64, bitmap_set(64, bm, start, nr), n) <=>
              bitmap_test(64, bm, n) \/ (start <= n /\ n < start + nr)
         /\ bitmap_test(64, bitmap_clear(64, bm, start, nr), n) <=>
              bitmap_test(64, bm, n) /\ ~(start <= n /\ n < start + nr)
  BY MaskOfRange DEF bitmap_test, bitmap_set, bitmap_clear, bitmap_word,
                     bitmap_bit_in_word

-----------------------------------------------------------------------------
(* Searches *)

\* A loop that counts upwards finds the least element.
LEMMA FirstIsLeast ==
  ASSUME NEW S \in SUBSET Nat, S # {}
  PROVE  First(S) \in S /\ \A m \in S : First(S) <= m
<1> DEFINE R == OpToRel(<, Nat)
<1>1. IsWellFoundedOn(R, Nat)
  BY NatLessThanWellFounded
<1>2. \A m \in Nat, l \in Nat : m < l => <<m, l>> \in R
  BY DEF OpToRel
<1> HIDE DEF R
<1>3. PICK n \in S : \A m \in S : ~(<<m, n>> \in R)
  BY <1>1, WFMin
<1>4. \A m \in S : n <= m
  <2> SUFFICES ASSUME NEW m \in S, m < n PROVE FALSE
    OBVIOUS
  <2> QED
    BY <1>2, <1>3
<1> QED
  BY <1>3, <1>4 DEF First, IsFirst

\* bits.rs:171, "Find first zero bit in `bitmap` with `numbits` total bits".
THEOREM BitmapFfzFindsFirst ==
  ASSUME NEW D, NEW bm \in [D -> SUBSET Ones(64)], NEW numbits \in Nat,
         0 .. bitmap_num_words(64, numbits) - 1 \subseteq D
  PROVE  LET clear == {n \in 0 .. numbits - 1 : ~bitmap_test(64, bm, n)}
             found == bitmap_ffz(64, bm, numbits)
         IN  IF clear = {} THEN found = None
             ELSE found \in clear /\ \A m \in clear : found <= m
<1> DEFINE words == 0 .. bitmap_num_words(64, numbits) - 1
           open == {p \in words : bm[p] # Ones(64)}
           p0 == First(open)
           n0 == p0 * 64 + ffz(64, bm[p0])
           clear == {n \in 0 .. numbits - 1 : ~bitmap_test(64, bm, n)}
<1>1. \A n \in 0 .. numbits - 1 :
        /\ n \in Nat /\ n \div 64 \in words /\ n % 64 \in Ones(64)
        /\ n = 64 * (n \div 64) + (n % 64)
  BY DEF bitmap_num_words, Ones
<1>2. \A n \in clear : n \div 64 \in open /\ n % 64 \in Ones(64) \ bm[n \div 64]
  BY <1>1 DEF bitmap_test, bitmap_word, bitmap_bit_in_word
<1>3. CASE open = {}
  <2>1. clear = {}
    BY <1>2, <1>3
  <2> QED
    BY <2>1, <1>3 DEF bitmap_ffz
<1>4. CASE open # {}
  <2>1. p0 \in open /\ \A p \in open : p0 <= p
    <3>1. open \in SUBSET Nat
      BY DEF bitmap_num_words
    <3> HIDE DEF open
    <3> QED
      BY <3>1, <1>4, FirstIsLeast
  <2>2. /\ ffz(64, bm[p0]) \in Ones(64) \ bm[p0]
        /\ \A i \in Ones(64) \ bm[p0] : ffz(64, bm[p0]) <= i
    <3>1. Ones(64) \ bm[p0] \in SUBSET Nat /\ Ones(64) \ bm[p0] # {}
      <4>1. bm[p0] \in SUBSET Ones(64) /\ bm[p0] # Ones(64)
        BY <2>1
      <4>2. Ones(64) \ bm[p0] # {}
        BY <4>1, Zenon
      <4>3. Ones(64) \subseteq Nat
        BY DEF Ones
      <4> HIDE DEF p0
      <4> QED
        BY <4>2, <4>3, Zenon
    <3> QED
      BY <3>1, FirstIsLeast DEF ffz
  <2>3. bitmap_ffz(64, bm, numbits) = IF n0 < numbits THEN n0 ELSE None
    BY <1>4 DEF bitmap_ffz
  <2> DEFINE f == ffz(64, bm[p0])
  <2>4. p0 \in Nat /\ f \in 0 .. 63 /\ n0 = p0 * 64 + f /\ n0 \in Nat
    <3>1. p0 \in Nat
      BY <2>1 DEF bitmap_num_words
    <3>2. f \in 0 .. 63
      <4>1. f \in Ones(64)
        BY <2>2, Zenon
      <4>2. Ones(64) = 0 .. 63
        BY DEF Ones
      <4> QED
        BY <4>1, <4>2, Zenon
    <3> HIDE DEF p0, f
    <3> QED
      BY <3>1, <3>2 DEF f
  <2>5. \A m \in clear : n0 <= m
    <3> SUFFICES ASSUME NEW m \in clear PROVE n0 <= m
      OBVIOUS
    <3>1. m \div 64 \in open /\ m % 64 \in Ones(64) \ bm[m \div 64]
      BY <1>2
    <3>2. p0 <= m \div 64 /\ (p0 = m \div 64 => f <= m % 64)
      BY <3>1, <2>1, <2>2
    <3>3. m \in Nat /\ m = 64 * (m \div 64) + (m % 64) /\ m % 64 \in 0 .. 63
      BY <1>1 DEF Ones
    <3> HIDE DEF f, p0, n0
    <3> QED
      BY <3>2, <3>3, <2>4
  <2>6. n0 < numbits => n0 \in clear
    <3>1. n0 \div 64 = p0 /\ n0 % 64 = f
      <4> HIDE DEF f, p0, n0
      <4> QED
        BY <2>4
    <3>2. ~bitmap_test(64, bm, n0)
      BY <3>1, <2>2 DEF bitmap_test, bitmap_word, bitmap_bit_in_word
    <3> QED
      BY <3>2, <2>4
  <2>7. CASE n0 < numbits
    BY <2>3, <2>5, <2>6, <2>7
  <2>8. CASE ~(n0 < numbits)
    <3>1. clear = {}
      BY <2>4, <2>5, <2>8
    <3> QED
      BY <3>1, <2>3, <2>8
  <2> QED
    BY <2>7, <2>8
<1> QED
  BY <1>3, <1>4

-----------------------------------------------------------------------------
(* idle_states.rs *)

\* idle_states.rs:194, "Returns the deepest valid state whose exit latency is
\* less than IDLE_DURATION_FACTOR * last_idle_duration": the state that is
\* picked exists, is allowed by the mask or is C1, and no deeper state that the
\* mask allows could be left in time.
THEOREM DeepestAffordableState ==
  ASSUME X86_MAX_CSTATES \in Nat, ZX_TIME_INFINITE \in Nat, NEW states \in Config, Valid(states),
         NEW mask \in SUBSET Ones(32), NEW last \in 0 .. ZX_TIME_INFINITE \div 3
  PROVE  LET n == pick_idle_state(states, mask, last)
             C1 == x86_num_idle_states(states) - 1
         IN  /\ n \in 0 .. C1 /\ C1 \in Entries /\ x86_is_base_idle_state(states[C1])
             /\ n \in Acceptable(states, mask, last) \/ n = C1
             /\ last # 0 => \A m \in Acceptable(states, mask, last) : n <= m
<1> DEFINE C1 == x86_num_idle_states(states) - 1
           ok == Acceptable(states, mask, last)
           n == pick_idle_state(states, mask, last)
<1>1. Bases(states) \in SUBSET Nat /\ Bases(states) # {}
  BY DEF Valid, Bases, Entries
<1>2. First(Bases(states)) \in Bases(states)
  BY <1>1, FirstIsLeast
<1>3. /\ C1 = First(Bases(states)) /\ C1 \in Nat /\ C1 \in Entries
      /\ x86_is_base_idle_state(states[C1])
  <2>1. First(Bases(states)) \in Nat
    BY <1>1, <1>2
  <2>2. C1 = First(Bases(states))
    BY <2>1 DEF x86_num_idle_states
  <2> QED
    BY <1>2, <2>1, <2>2 DEF Bases
<1>4. ok \in SUBSET (0 .. C1)
  BY DEF Acceptable
<1>5. CASE last = 0 \/ ok = {}
  <2>1. n = C1
    BY <1>5 DEF pick_idle_state
  <2> QED
    BY <1>3, <1>5, <2>1
<1>6. CASE last # 0 /\ ok # {}
  <2>1. n = First(ok)
    BY <1>6 DEF pick_idle_state
  <2>2. ok \in SUBSET Nat
    BY <1>4
  <2> HIDE DEF ok, C1
  <2>3. First(ok) \in ok /\ \A m \in ok : First(ok) <= m
    BY <1>6, <2>2, FirstIsLeast
  <2>4. n \in ok /\ n \in 0 .. C1 /\ \A m \in ok : n <= m
    BY <2>1, <2>3, <1>4
  <2> QED
    BY <1>3, <2>4 DEF ok, C1
<1> QED
  BY <1>5, <1>6

-----------------------------------------------------------------------------
(* message.rs *)

LEMMA SliceOfArray ==
  ASSUME NEW n \in Nat, NEW T, NEW s \in Seq(T), Len(s) <= n, NEW fill
  PROVE  Slice(Array(n, s, fill), Len(s)) = s
  BY DEF Slice, Array

\* message.rs:73, "Create a message with inline payload": what the receiver reads
\* and takes is what the sender put in, and after that nothing is left to take.
THEOREM InlineRoundTrip ==
  ASSUME MAX_INLINE_PAYLOAD \in Nat, MAX_HANDLES \in Nat,
         NEW Byte, NEW Handle, NEW data \in Seq(Byte), NEW handles \in Seq(Handle)
  PROVE  LET m == new_inline(data, handles)
         IN  IF Len(data) > MAX_INLINE_PAYLOAD \/ Len(handles) > MAX_HANDLES
             THEN IsError(m)
             ELSE /\ ~IsError(m) /\ payload(m) = data /\ handles_of(m) = handles
                  /\ handles_of(take_handles(m)) = << >>
                  /\ ~has_vmo_reference(m)
<1> DEFINE m == new_inline(data, handles)
<1>1. CASE Len(data) > MAX_INLINE_PAYLOAD \/ Len(handles) > MAX_HANDLES
  BY <1>1 DEF new_inline, IsError, Error
<1>2. CASE Len(data) <= MAX_INLINE_PAYLOAD /\ Len(handles) <= MAX_HANDLES
  <2>1. m = New("INLINE_PAYLOAD", Len(data), Array(MAX_INLINE_PAYLOAD, data, 0), handles)
    BY <1>2 DEF new_inline
  <2>2. payload(m) = data
    BY <2>1, <1>2, SliceOfArray DEF payload, New
  <2>3. handles_of(m) = handles
    BY <2>1, <1>2, SliceOfArray DEF handles_of, New
  <2>4. handles_of(take_handles(m)) = << >>
    BY <2>1 DEF take_handles, handles_of, Slice, New
  <2>5. ~IsError(m) /\ ~has_vmo_reference(m)
    BY <2>1 DEF IsError, New, has_vmo_reference, is_zero_copy
  <2> QED
    BY <1>2, <2>2, <2>3, <2>4, <2>5
<1> QED
  BY <1>1, <1>2

\* message.rs:106, "Create a zero-copy message referencing a VMO region": the
\* VMO's handle travels as the first handle, and vmo_reference() names it, before
\* the handles are taken and after, when the message no longer holds it.
THEOREM ZeroCopyRoundTrip ==
  ASSUME MAX_HANDLES \in Nat, VMO_REFERENCE_SIZE \in Nat, NEW Handle,
         NEW vmo \in Handle, NEW offset, NEW size, NEW handles \in Seq(Handle)
  PROVE  LET m == new_zero_copy(vmo, offset, size, handles)
         IN  IF Len(handles) + 1 > MAX_HANDLES THEN IsError(m)
             ELSE /\ ~IsError(m) /\ handles_of(m) = <<vmo>> \o handles
                  /\ handles_of(take_handles(m)) = << >>
                  /\ \A l \in {m, take_handles(m)} :
                       has_vmo_reference(l) /\ vmo_reference(l).handle = vmo
<1> DEFINE m == new_zero_copy(vmo, offset, size, handles)
<1>1. CASE Len(handles) + 1 > MAX_HANDLES
  BY <1>1 DEF new_zero_copy, IsError, Error
<1>2. CASE Len(handles) + 1 <= MAX_HANDLES
  <2>1. m = New("ZERO_COPY_VMO", VMO_REFERENCE_SIZE,
                [handle |-> vmo, offset |-> offset, size |-> size], <<vmo>> \o handles)
    BY <1>2 DEF new_zero_copy
  <2>2. <<vmo>> \o handles \in Seq(Handle) /\ Len(<<vmo>> \o handles) <= MAX_HANDLES
    BY <1>2
  <2>3. handles_of(m) = <<vmo>> \o handles
    <3> DEFINE all == <<vmo>> \o handles
    <3>1. handles_of(m) = Slice(Array(MAX_HANDLES, all, INVALID), Len(all))
      BY <2>1 DEF handles_of, New
    <3> HIDE DEF all, m
    <3> QED
      BY <3>1, <2>2, SliceOfArray DEF all
  <2>4. handles_of(take_handles(m)) = << >>
    BY <2>1 DEF take_handles, handles_of, Slice, New
  <2>5. ~IsError(m)
    BY <2>1 DEF IsError, New
  <2>6. \A l \in {m, take_handles(m)} :
          has_vmo_reference(l) /\ vmo_reference(l).handle = vmo
    <3> DEFINE Names(l) == /\ l.flag = "ZERO_COPY_VMO"
                          /\ l.payload_size = VMO_REFERENCE_SIZE
                          /\ l.payload = [handle |-> vmo, offset |-> offset, size |-> size]
    <3>1. Names(m)
      BY <2>1 DEF New
    <3>2. /\ take_handles(m).flag = m.flag
          /\ take_handles(m).payload_size = m.payload_size
          /\ take_handles(m).payload = m.payload
      BY <2>1 DEF take_handles, New
    <3> HIDE DEF m
    <3>3. Names(take_handles(m))
      BY <3>1, <3>2
    <3>4. ASSUME NEW l, Names(l)
          PROVE  has_vmo_reference(l) /\ vmo_reference(l).handle = vmo
      BY <3>4 DEF has_vmo_reference, is_zero_copy, vmo_reference
    <3> QED
      BY <3>1, <3>3, <3>4
  <2> QED
    BY <1>2, <2>3, <2>4, <2>5, <2>6
<1> QED
  BY <1>1, <1>2

-----------------------------------------------------------------------------
(* task_id.rs *)

LEMMA Halves ==
  ASSUME Half \in Nat \ {0}, NEW i \in HalfWord, NEW g \in Nat
  PROVE  (g * Half + i) % Half = i /\ (g * Half + i) \div Half = g
  BY DEF HalfWord

\* task_id.rs:3, "upper 32 bits = generation, lower 32 bits = slot index": both
\* come back out of the word, and no two pairs share one.
THEOREM IdRoundTrip ==
  ASSUME Half \in Nat \ {0}, NEW i \in HalfWord, NEW g \in HalfWord
  PROVE  /\ new(i, g) \in Raw
         /\ index_of(new(i, g)) = i /\ generation_of(new(i, g)) = g
<1>1. g \in Nat /\ i \in Nat /\ g * Half + i \in Nat
  BY DEF HalfWord
<1>2. g * Half + i < Half * Half
  BY DEF HalfWord
<1> QED
  BY <1>1, <1>2, Halves DEF new, Raw, index_of, generation_of

\* task_id.rs:41, "a new TaskId with the generation incremented by 1": of the
\* same slot; the last generation is followed by generation 0, and so slot 0
\* becomes the idle task's id again.
THEOREM NextGenerationSameSlot ==
  ASSUME Half \in Nat \ {0}, NEW i \in HalfWord, NEW g \in HalfWord
  PROVE  LET n == next_generation(new(i, g))
         IN  /\ index_of(n) = i
             /\ generation_of(n) = IF g = Half - 1 THEN 0 ELSE g + 1
             /\ n = IDLE <=> i = 0 /\ g = Half - 1
<1> DEFINE n == next_generation(new(i, g))
<1>1. g \in Nat /\ i \in Nat /\ i < Half /\ g < Half
  BY DEF HalfWord
<1>2. CASE g = Half - 1
  <2>1. new(i, g) + Half = Half * Half + i /\ i < Half * Half
    BY <1>1, <1>2 DEF new
  <2>2. n = i
    BY <1>1, <2>1 DEF next_generation
  <2>3. i % Half = i /\ i \div Half = 0
    BY <1>1
  <2> QED
    BY <1>2, <2>2, <2>3 DEF index_of, generation_of, IDLE
<1>3. CASE g # Half - 1
  <2>1. new(i, g) + Half = (g + 1) * Half + i /\ g + 1 \in HalfWord
    BY <1>1, <1>3 DEF new, HalfWord
  <2>2. (g + 1) * Half + i \in Raw
    BY <2>1, IdRoundTrip DEF new
  <2>3. n = (g + 1) * Half + i
    BY <1>1, <2>1, <2>2 DEF next_generation, Raw
  <2>4. n # 0
    BY <1>1, <2>3
  <2> QED
    BY <1>1, <1>3, <2>3, <2>4, Halves DEF index_of, generation_of, IDLE
<1> QED
  BY <1>2, <1>3

-----------------------------------------------------------------------------
(* The priorities of a task.  Inv says what a thread in the middle of a    *)
(* call may still rely on: its own store to base_priority and what it      *)
(* loaded, until it is overtaken.                                          *)

\* set_priority(): the base priority is its own, and a comparison of the
\* effective priority with it came out as it still would.
SetRelies(t) ==
  /\ pc[t] \in {"set_load", "set_compare"} => base_priority = arg[t]
  /\ pc[t] = "set_compare" => read[t] > arg[t] /\ effective_priority > arg[t]
  /\ pc[t] = "set_store" => effective_priority <= arg[t]

\* boost_priority(): the exchange raises what it read.
BoostRaises(t) == pc[t] = "boost_cas" => read[t] < arg[t]

Arithmetic == Priorities \subseteq Int /\ MaxDecay \in Nat

Inv ==
  /\ TypeOK /\ Arithmetic
  /\ \A t \in Threads : BoostRaises(t) /\ (t \notin overtaken => SetRelies(t))

-----------------------------------------------------------------------------
LEMMA InitInv == Init /\ Arithmetic => Inv
  BY DEF Init, Inv, TypeOK, BoostRaises, SetRelies

\* The steps keep the types.
LEMMA StepType == ASSUME TypeOK, Arithmetic, NEW t \in Threads, Step(t) PROVE TypeOK'
<1>1. CASE \E p \in Priorities : SetBase(t, p) \/ Boost(t, p)
  BY <1>1 DEF Arithmetic, TypeOK, SetBase, Boost, Call, Goto
<1>2. CASE SetLoad(t) \/ SetCompare(t) \/ SetEffective(t)
  BY <1>2 DEF TypeOK, SetLoad, SetCompare, SetEffective, Load, StoreEffective, Return, Goto, At
<1>3. CASE BoostLoad(t) \/ BoostCas(t) \/ BoostRetry(t)
  BY <1>3 DEF TypeOK, BoostLoad, BoostCas, BoostRetry, Load, StoreEffective, Return, Goto, At
<1>4. CASE UnboostLoad(t) \/ UnboostStore(t)
  BY <1>4 DEF TypeOK, UnboostLoad, UnboostStore, Call, Load, StoreEffective, Return, Goto, At
<1>5. CASE DecayLoad(t) \/ DecayCompare(t) \/ DecayLower(t)
  BY <1>5 DEF TypeOK, DecayLoad, DecayCompare, DecayLower, Call, Load, StoreEffective, Return, Goto, At
<1> QED
  BY <1>1, <1>2, <1>3, <1>4, <1>5 DEF Step

\* What a thread relies on is kept by its own steps ...
LEMMA OwnStep ==
  ASSUME Inv, NEW t \in Threads, Step(t)
  PROVE  BoostRaises(t)' /\ (t \notin overtaken' => SetRelies(t)')
<1> USE DEF Inv, TypeOK, BoostRaises, SetRelies, At, Goto, Return
<1>1. CASE \E p \in Priorities : SetBase(t, p) \/ Boost(t, p)
  BY <1>1 DEF SetBase, Boost, Call
<1>2. CASE SetLoad(t)
  BY <1>2 DEF SetLoad, Load
<1>3. CASE SetCompare(t)
  BY <1>3 DEF SetCompare
<1>4. CASE BoostLoad(t)
  BY <1>4 DEF BoostLoad, Load
<1>5. CASE BoostRetry(t) \/ DecayCompare(t)
  BY <1>5 DEF BoostRetry, DecayCompare
<1>6. CASE UnboostLoad(t) \/ DecayLoad(t)
  BY <1>6 DEF UnboostLoad, DecayLoad, Call
<1>7. CASE SetEffective(t) \/ BoostCas(t) \/ UnboostStore(t) \/ DecayLower(t)
  BY <1>7 DEF SetEffective, BoostCas, UnboostStore, DecayLower, StoreEffective
<1> QED
  BY <1>1, <1>2, <1>3, <1>4, <1>5, <1>6, <1>7 DEF Step

\* ... and by those of the others, which overtake it when they store.
LEMMA OthersStep ==
  ASSUME Inv, NEW t \in Threads, Step(t), NEW u \in Threads, u # t
  PROVE  BoostRaises(u)' /\ (u \notin overtaken' => SetRelies(u)')
<1>1. pc'[u] = pc[u] /\ arg'[u] = arg[u] /\ read'[u] = read[u]
  BY DEF Inv, TypeOK, Step, SetBase, SetLoad, SetCompare, SetEffective, Boost,
         BoostLoad, BoostCas, BoostRetry, UnboostLoad, UnboostStore, DecayLoad,
         DecayCompare, DecayLower, Call, Load, StoreEffective, Return, Goto
<1>2. \/ u \in overtaken'
      \/ UNCHANGED <<base_priority, effective_priority>> /\ (u \in overtaken' <=> u \in overtaken)
  BY DEF Step, SetBase, SetLoad, SetCompare, SetEffective, Boost,
         BoostLoad, BoostCas, BoostRetry, UnboostLoad, UnboostStore, DecayLoad,
         DecayCompare, DecayLower, Load, StoreEffective
<1> QED
  BY <1>1, <1>2 DEF Inv, BoostRaises, SetRelies

LEMMA NextInv == Inv /\ [Next]_vars => Inv'
<1> SUFFICES ASSUME Inv, [Next]_vars PROVE Inv'
  OBVIOUS
<1>1. ASSUME NEW t \in Threads, Step(t) PROVE Inv'
  <2>1. TypeOK'
    BY <1>1, StepType DEF Inv
  <2>2. \A u \in Threads : BoostRaises(u)' /\ (u \notin overtaken' => SetRelies(u)')
    BY <1>1, OwnStep, OthersStep
  <2> QED
    BY <2>1, <2>2 DEF Inv
<1>2. CASE UNCHANGED vars
  BY <1>2 DEF vars, Inv, TypeOK, Arithmetic, BoostRaises, SetRelies
<1> QED
  BY <1>1, <1>2 DEF Next

LEMMA Invariance == Spec /\ Arithmetic => []Inv
  BY InitInv, NextInv, PTL DEF Spec

\* task_control_block.rs: the priorities stay integers, calls at known places.
THEOREM TypeCorrect == Spec /\ Arithmetic => []TypeOK
<1>1. Inv => TypeOK
  BY DEF Inv
<1> QED
  BY <1>1, Invariance, PTL

\* task_control_block.rs:137: for any number of threads and any priorities, a
\* set_priority() that no other call overtakes does not lower the effective
\* priority, so that lowering a task's priority waits for unboost_priority().
THEOREM SetNeverLowers == Spec /\ Arithmetic => LoweredOnlyBy
<1>1. ASSUME Inv, NEW t \in Threads, Step(t), effective_priority' < effective_priority
      PROVE  UnboostStore(t) \/ DecayLower(t) \/ (SetEffective(t) /\ t \in overtaken)
  <2>1. CASE SetEffective(t)
    BY <1>1, <2>1 DEF Inv, TypeOK, SetRelies, SetEffective, StoreEffective, At
  <2>2. CASE BoostCas(t)
    BY <1>1, <2>2 DEF Inv, TypeOK, BoostRaises, BoostCas, StoreEffective, At
  <2>3. CASE UNCHANGED effective_priority
    BY <1>1, <2>3 DEF Inv, TypeOK
  <2>4. CASE UnboostStore(t) \/ DecayLower(t)
    BY <2>4
  <2> QED
    BY <1>1, <2>1, <2>2, <2>3, <2>4 DEF Step, SetBase, SetLoad, SetCompare, Boost,
       BoostLoad, BoostRetry, UnboostLoad, DecayLoad, DecayCompare, Load
<1>2. Inv /\ [Next]_vars =>
        [effective_priority' < effective_priority =>
           \E t \in Threads : \/ UnboostStore(t) \/ DecayLower(t)
                              \/ SetEffective(t) /\ t \in overtaken]_vars
  BY <1>1 DEF Next
<1> QED
  BY <1>2, Invariance, PTL DEF Spec, LoweredOnlyBy
=============================================================================
