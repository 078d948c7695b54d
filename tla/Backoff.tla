------------------------------- MODULE Backoff -------------------------------
(***************************************************************************)
(* The delays of src/backoff.rs and the dates of src/timeutil.rs and       *)
(* src/retry_after.rs, as operators.  A delay is in whole units of time    *)
(* (seconds where a date is involved) and saturates at U64Max as           *)
(* nanoseconds do at u64::MAX; the random generator is the set of what it  *)
(* may return, whatever its seed.  A header is what its tokens parse to.   *)
(***************************************************************************)
EXTENDS Integers

CONSTANTS U64Max, MaxExponent   \* u64::MAX, and the 64 the exponent stops at

LesserOf(a, b) == IF a < b THEN a ELSE b
GreaterOf(a, b) == IF a > b THEN a ELSE b
SatAdd(a, b) == LesserOf(U64Max, a + b)
SatMul(a, b) == LesserOf(U64Max, a * b)

(* A policy: the factor is num/den, and den is 0 for one that is not       *)
(* finite.                                                                 *)
Policy(kind, base, increment, num, den, max, jitter) ==
  [kind |-> kind, base |-> base, increment |-> increment, num |-> num, den |-> den,
   max |-> max, jitter |-> jitter]

Constant(delay) == Policy("constant", delay, 0, 2, 1, delay, "none")
Linear(initial, increment, max, jitter) ==
  Policy("linear", initial, increment, 2, 1, max, jitter)
Exponential(initial, num, den, max, jitter) ==
  Policy("exponential", initial, 0, num, den, max, jitter)

(* raw_nanos: the curve, before jitter and cap.  What is not finite,       *)
(* negative or too large is the largest delay there is.                    *)
RawNanos(policy, attempt) ==
  LET k == LesserOf(attempt, MaxExponent)
      scaled == (policy.base * policy.num ^ k) \div (policy.den ^ k)
  IN  CASE policy.kind = "constant" -> policy.base
        [] policy.kind = "linear" -> SatAdd(policy.base, SatMul(policy.increment, attempt))
        [] OTHER -> IF k = 0 THEN policy.base
                    ELSE IF policy.den # 0 /\ scaled \in 0..U64Max THEN scaled ELSE U64Max

(* Rng::range. *)
RngRange(lo, hi) == IF hi <= lo THEN {lo} ELSE lo..hi

(* decorrelated: between the base and three times the last delay, within   *)
(* the ceiling, and what is remembered of it.                              *)
Decorrelated(policy, previous) ==
  LET hi == LesserOf(GreaterOf(SatMul(previous, 3), policy.base), policy.max)
  IN  {[delay |-> d, previous |-> GreaterOf(d, policy.base)] :
         d \in RngRange(LesserOf(policy.base, hi), hi)}

(* next_delay: the delays that may come next. *)
NextDelay(policy, attempt, previous) ==
  LET capped == LesserOf(RawNanos(policy, attempt), policy.max)
      half == capped \div 2
      delays == CASE policy.jitter = "full"  -> RngRange(0, capped)
                  [] policy.jitter = "equal" -> {half + r : r \in RngRange(0, capped - half)}
                  [] OTHER                   -> {capped}
  IN  IF policy.jitter = "decorrelated" THEN Decorrelated(policy, previous)
      ELSE {[delay |-> d, previous |-> previous] : d \in delays}

-----------------------------------------------------------------------------
None == -1
SecsPerDay == 86400

(* Mutant: the century rule is forgotten. *)
DaysFromCivilJulian(year, month, day) ==
  LET y == IF month <= 2 THEN year - 1 ELSE year
      doy == (153 * (IF month > 2 THEN month - 3 ELSE month + 9) + 2) \div 5 + day - 1
  IN  y * 365 + y \div 4 + doy - 719483

(* days_from_civil.  The code divides towards zero, and the 399 makes that *)
(* round down as \div does.                                                *)
DaysFromCivil(year, month, day) ==
  LET y == IF month <= 2 THEN year - 1 ELSE year
      era == y \div 400
      yoe == y - era * 400
      doy == (153 * (IF month > 2 THEN month - 3 ELSE month + 9) + 2) \div 5 + day - 1
      doe == yoe * 365 + yoe \div 4 - yoe \div 100 + doy
  IN  era * 146097 + doe - 719468

(* The calendar as people keep it: the day after a day. *)
Leap(y) == y % 4 = 0 /\ (y % 100 # 0 \/ y % 400 = 0)
LastDay(d) ==
  CASE d.month \in {4, 6, 9, 11} -> 30
    [] d.month = 2 -> IF Leap(d.year) THEN 29 ELSE 28
    [] OTHER -> 31
Tomorrow(d) ==
  IF d.day < LastDay(d) THEN [d EXCEPT !.day = @ + 1]
  ELSE IF d.month < 12 THEN [d EXCEPT !.day = 1, !.month = @ + 1]
  ELSE [d EXCEPT !.day = 1, !.month = 1, !.year = @ + 1]

(* civil_to_unix, in days and seconds to stay within TLC's integers; None  *)
(* in days when a part is out of range.  A day the month does not have     *)
(* counts on into the next month.                                          *)
CivilToUnix(t) ==
  IF /\ 0 <= t.year /\ t.year <= 9999 /\ t.month \in 1..12 /\ t.day \in 1..31
     /\ t.h <= 23 /\ t.m <= 59 /\ t.s <= 60
  THEN [ok |-> TRUE, days |-> DaysFromCivil(t.year, t.month, t.day),
        secs |-> t.h * 3600 + t.m * 60 + t.s]
  ELSE [ok |-> FALSE, days |-> 0, secs |-> 0]

(* The year of an RFC 850 date, two digits wide. *)
Windowed(yy) == IF yy >= 70 THEN 1900 + yy ELSE 2000 + yy

(* parse_http_date: the fields are those of the tokens.  IMF-fixdate and   *)
(* asctime differ in the order of their tokens, so "imf" stands for both.  *)
ParseHttpDate(header) ==
  CivilToUnix(IF header.form = "rfc850"
              THEN [header.date EXCEPT !.year = Windowed(header.date.year)]
              ELSE header.date)

(* parse_retry_after_at: None for what does not parse. *)
ParseRetryAfterAt(header, now) ==
  LET target == ParseHttpDate(header)
      delta == (target.days - now.days) * SecsPerDay + target.secs - now.secs
  IN  CASE header.form = "seconds"   -> header.secs
        [] header.form = "malformed" -> None
        [] OTHER -> IF target.ok THEN GreaterOf(delta, 0) ELSE None
=============================================================================
