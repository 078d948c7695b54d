------------------------------ MODULE MCStack ------------------------------
(* Instances of Stack for model checking. *)
EXTENDS Stack, TLC

CONSTANTS p1, s1, p2, s2, t1, t2

First == (t1 :> p1) @@ (t2 :> p2)
Second == (t1 :> s1) @@ (t2 :> s2)

Date(y, m, d) == [year |-> y, month |-> m, day |-> d, h |-> 7, m |-> 28, s |-> 0]
NoDate == Date(2026, 10, 21)

(* A Retry-After header, and the seconds it asks for. *)
Seconds(n) == [form |-> "seconds", secs |-> n, date |-> NoDate, asked |-> n]
NoHint == [form |-> "malformed", secs |-> 0, date |-> NoDate, asked |-> None]
Fixdate(d, asked) == [form |-> "imf", secs |-> 0, date |-> d, asked |-> asked]
Rfc850(d, asked) ==
  [form |-> "rfc850", secs |-> 0, date |-> [d EXCEPT !.year = @ % 100], asked |-> asked]

(* One call at a time, unhedged, nothing refused; each configuration says  *)
(* what is different.                                                      *)
Plain ==
  [tasks |-> {t1}, users |-> {}, hedge |-> FALSE, timeout |-> FALSE, refusals |-> FALSE,
   broken |-> FALSE, policy |-> Constant(1), maxAttempts |-> 2, respect |-> TRUE,
   maxRetryAfter |-> 3, maxElapsed |-> None, hints |-> {NoHint}, now |-> NoDate,
   runTimes |-> {0},
   budgeted |-> FALSE, deposit |-> 0, floor |-> 0, maxRetries |-> 1]

(* Hedged attempts that may be refused; and a service that breaks, under a *)
(* timeout.                                                                *)
Hedged == {[Plain EXCEPT !.hedge = TRUE, !.refusals = TRUE],
           [Plain EXCEPT !.hedge = TRUE, !.refusals = TRUE, !.timeout = TRUE, !.broken = TRUE]}

(* Two calls on one budget: half a retry per call, with and without a      *)
(* floor, and under a ceiling of nothing, which is raised to one retry.    *)
Shared == {[Plain EXCEPT !.tasks = {t1, t2}, !.maxAttempts = 3, !.budgeted = TRUE,
                         !.deposit = 1, !.floor = b.floor, !.maxRetries = b.max,
                         !.timeout = TRUE] :
             b \in {[floor |-> 0, max |-> 2], [floor |-> 1, max |-> 2], [floor |-> 1, max |-> 0]}}

(* Every curve and jitter, with factors that shrink, grow, are negative    *)
(* and are not finite, against a time budget and server-requested waits.   *)
Policies ==
  {Constant(2)}
  \cup {Linear(1, 2, 4, j) : j \in {"none", "full", "equal", "decorrelated"}}
  \cup {Exponential(2, 3, 2, max, j) : max \in {1, 5, U64Max}, j \in {"none", "full", "decorrelated"}}
  \cup {Exponential(2, f[1], f[2], 5, "none") : f \in {<<1, 2>>, <<-2, 1>>, <<1, 0>>}}
Waiting ==
  {[Plain EXCEPT !.policy = p, !.maxAttempts = 4, !.hints = {NoHint, Seconds(2), Seconds(4)}] :
     p \in Policies}
  \cup {[Plain EXCEPT !.policy = p, !.maxAttempts = 4, !.maxElapsed = 5, !.respect = r,
                      !.runTimes = {0, 1}, !.hints = {NoHint, Seconds(2), Seconds(4)}] :
          p \in {Constant(2), Exponential(2, 3, 2, 5, "decorrelated")}, r \in BOOLEAN}

(* A server that asks to come back now, tomorrow or the day after, at the  *)
(* ends of months and years of every kind.                                 *)
Days ==
  {d \in {Date(y, m, n) : y \in {1999, 2000, 2023, 2024, 2099, 2100}, m \in {1, 2, 3, 12},
                         n \in {1, 28, 31}} : d.day <= LastDay(d)}
Calendar ==
  {[Plain EXCEPT !.now = d, !.maxRetryAfter = 2 * SecsPerDay,
                 !.hints = {Fixdate(Tomorrow(d), SecsPerDay),
                            Fixdate(Tomorrow(Tomorrow(d)), 2 * SecsPerDay),
                            Fixdate(d, 0)}
                           \cup (IF d.year < 2069 THEN {Rfc850(Tomorrow(d), SecsPerDay)} ELSE {})] :
     d \in Days}

(* Services in the hands of their users. *)
Hands == {[Plain EXCEPT !.tasks = {}, !.users = {p1, s1}]}

Setups == Hedged \cup Shared \cup Waiting \cup Calendar \cup Hands
=============================================================================
