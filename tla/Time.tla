-------------------------------- MODULE Time --------------------------------
(***************************************************************************)
(* The saturating arithmetic of variables/time.rs on signed words.  Times, *)
(* durations and ticks are the same type, as in the source.                *)
(***************************************************************************)
EXTENDS Integers

CONSTANT ZX_TIME_INFINITE   \* i64::MAX

ZX_TIME_INFINITE_PAST == -ZX_TIME_INFINITE - 1

Word == ZX_TIME_INFINITE_PAST .. ZX_TIME_INFINITE

\* saturating_add() and its like: the nearest word to the exact result.
Saturated(n) ==
  IF n > ZX_TIME_INFINITE THEN ZX_TIME_INFINITE
  ELSE IF n < ZX_TIME_INFINITE_PAST THEN ZX_TIME_INFINITE_PAST ELSE n

\* checked_add() and the match on its outcome: the branches are taken on the
\* sign of the saturated result.
Checked(n) ==
  IF n \in Word THEN n
  ELSE IF Saturated(n) >= 0 THEN ZX_TIME_INFINITE_PAST ELSE ZX_TIME_INFINITE

zx_time_add_duration(time, duration) == Checked(time + duration)
zx_time_sub_duration(time, duration) == Checked(time - duration)
zx_time_sub_time(time1, time2) == Checked(time1 - time2)

zx_duration_add_duration(dur1, dur2) == Saturated(dur1 + dur2)
zx_duration_sub_duration(dur1, dur2) == Saturated(dur1 - dur2)
zx_ticks_add_ticks(ticks1, ticks2) == Saturated(ticks1 + ticks2)
zx_ticks_sub_ticks(ticks1, ticks2) == Saturated(ticks1 - ticks2)

\* checked_mul(); an overflow is classed by the signs of the factors.
zx_duration_mul_int64(duration, multiplier) ==
  IF duration * multiplier \in Word THEN duration * multiplier
  ELSE IF \/ duration > 0 /\ multiplier > 0
          \/ duration < 0 /\ multiplier < 0
       THEN ZX_TIME_INFINITE ELSE ZX_TIME_INFINITE_PAST

zx_ticks_mul_int64(ticks, multiplier) == zx_duration_mul_int64(ticks, multiplier)

\* zx_duration_from_nsec() to zx_duration_from_hour(), and zx_nsec() to
\* zx_hour(), by the unit's nanoseconds.
zx_duration_from(unit, n) == zx_duration_mul_int64(unit, n)

=============================================================================
