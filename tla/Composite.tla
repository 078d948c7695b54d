------------------------------ MODULE Composite ------------------------------
(***************************************************************************)
(* The limiters made of limiters: the all-or-nothing algorithms of         *)
(* src/limiter.rs under Hybrid, MultiLimiter and Layered, and what         *)
(* src/provider.rs does to a limiter after a response.                     *)
(*                                                                         *)
(* The constituents are shared: every access to one of them is atomic and  *)
(* nothing else is, so a caller is split at each access.  A constituent is *)
(* a token bucket (its balance goes below zero when units are promised),   *)
(* either a Throttle, which reserves and pauses, or a limiter that has     *)
(* only the default methods of the trait.  The waits run on the engine of  *)
(* src/wait.rs, which WaitEngine models on its own; here it is the steps   *)
(* it polls, and how it goes on after each (see Again).                    *)
(***************************************************************************)
EXTENDS Integers, FiniteSetsExt, Lists

CONSTANTS Callers,      \* the tasks that make calls
          Composites,   \* the composites (see Valid)
          HoldSlack,    \* HOLD_SLACK
          MaxSwitches,  \* MAX_SWITCHES
          RaceYields,   \* RACE_YIELDS
          RaceBackoff,  \* RACE_BACKOFF
          Attempts,     \* ATTEMPTS of drain_to
          U32Max, Forever

Nothing == -1

(* A composite: its kind and its parts, the capacity and refill of each    *)
(* constituent, whether it is a Throttle, the requests that are made, by   *)
(* whom and with which timeouts, the administrative calls, the             *)
(* constituents other callers use and how deep they reserve, the horizon.  *)
Costings == [name : STRING, n : Nat]
Windows == [remaining : Nat \cup {Nothing}, reset : Nat]
ValidParts(f) ==
  LET C == DOMAIN f.cap
  IN  CASE f.kind = "hybrid"  -> f.members \in Seq(C) /\ f.reqs \subseteq Nat
        [] f.kind = "multi"   -> /\ f.table.dims \in Seq([name : STRING, limiter : C])
                                 /\ f.table.aliases \in Seq([name : STRING, target : STRING])
                                 /\ f.reqs \subseteq Seq(Costings) /\ f.actuals \subseteq Seq(Costings)
        [] f.kind = "layered" -> /\ f.global \in C \cup {0}
                                 /\ \A r \in f.reqs : /\ r.cost \in Nat
                                                      /\ f.per_key[r.key] \in C \cup {0}
                                                      /\ f.per_endpoint[r.endpoint] \in C \cup {0}
ValidCall(f, call) ==
  CASE call.op = "pause"  -> call.d \in Nat
    [] call.op = "resume" -> TRUE
    [] call.op = "sync"   -> /\ f.kind = "multi" /\ call.max_pause \in Nat
                             /\ call.info.requests \in Windows /\ call.info.tokens \in Windows
                             /\ call.info.retry_after \in Nat
Valid(f) ==
  /\ f.cap \in Seq(Nat)
  /\ f.rate \in [DOMAIN f.cap -> Nat \ {0}] /\ f.native \in [DOMAIN f.cap -> BOOLEAN]
  /\ f.until \in 0..(Forever - 1) /\ f.timeouts \subseteq Nat /\ f.depth \in Nat
  /\ f.ops \subseteq {"try", "wait", "reserve"} /\ f.who \subseteq Callers
  /\ f.rivals \subseteq DOMAIN f.cap
  /\ f.kind \in {"hybrid", "multi", "layered"} /\ ValidParts(f)
  /\ \A call \in f.calls : call.op \in {"pause", "resume", "sync"} /\ ValidCall(f, call)

ASSUME CompositeAssumption ==
  /\ IsFiniteSet(Callers)
  /\ {HoldSlack, MaxSwitches, RaceYields, RaceBackoff, Attempts, U32Max, Forever} \subseteq Nat
  /\ \A f \in Composites : Valid(f)

VARIABLES comp,   \* the composite
          now,    \* the clock
          bal,    \* the balance of each constituent
          hold,   \* the end of each constituent's pause, 0 for none
          cl,     \* the callers
          ad,     \* what an administrative call has still to do
          gone    \* history: units used, charged, drained or lost, by constituent

compositeVars == <<comp, now, bal, hold, cl, ad, gone>>

Idle == [pc |-> "idle", op |-> "none", ret |-> "none", items |-> <<>>, ix |-> <<>>, i |-> 0,
         stop |-> 0, never |-> FALSE, long |-> 0, short |-> 0, best |-> 0, held |-> {},
         due |-> 0, sw |-> 0, zw |-> 0, bud |-> 0, dl |-> 0, until |-> 0, naps |-> FALSE,
         got |-> <<>>]

(* A call that has ended, one way or the other. *)
Done == [Idle EXCEPT !.pc = "done"]

(* The sum of f over S. *)
SumOver(f, S) == Cardinality(UNION {{i} \X (1..f[i]) : i \in S})
MinOf(a, b) == IF a < b THEN a ELSE b
MaxOf(a, b) == IF a > b THEN a ELSE b

CompositeInit ==
  /\ comp \in Composites
  /\ now = 0
  /\ bal = comp.cap
  /\ hold = [c \in DOMAIN comp.cap |-> 0]
  /\ cl = [x \in Callers |-> Idle]
  /\ ad = <<>>
  /\ gone = [c \in DOMAIN comp.cap |-> 0]

Constituents == DOMAIN comp.cap

-----------------------------------------------------------------------------
(* A constituent. *)

Paused(c) == IF hold[c] > now THEN hold[c] - now ELSE 0
Available(c) == IF Paused(c) > 0 THEN 0 ELSE MaxOf(0, bal[c])
Impossible(c, n) == n > comp.cap[c]
TimeUntil(c, n) ==
  IF n = 0 \/ bal[c] >= n THEN 0 ELSE (n - bal[c] + comp.rate[c] - 1) \div comp.rate[c]

(* peek and acquire_cost: the wait, 0 for granted. *)
Wait(c, n) == MaxOf(Paused(c), TimeUntil(c, n))

(* Forever is Duration::MAX, which no wait exceeds. *)
Within(wait, max_wait) == max_wait >= Forever \/ wait <= max_wait

(* reserve: a Throttle that is not paused promises what accrues within     *)
(* max_wait, the default takes what is there.                              *)
Reserves(c, n, max_wait) ==
  /\ ~Impossible(c, n)
  /\ Paused(c) = 0
  /\ Within(TimeUntil(c, n), IF comp.native[c] THEN max_wait ELSE 0)

Take(c, n) == bal' = [bal EXCEPT ![c] = @ - n]

(* refund stops at the capacity, and by default does nothing. *)
Back(c, n) == IF comp.native[c] THEN MinOf(comp.cap[c], bal[c] + n) - bal[c] ELSE 0
Refund(c, n) ==
  /\ bal' = [bal EXCEPT ![c] = @ + Back(c, n)]
  /\ gone' = [gone EXCEPT ![c] = @ + n - Back(c, n)]

-----------------------------------------------------------------------------
(* What a request takes: a constituent and a cost each. *)

(* Table::target, "" for none: a dimension's own name goes before an alias. *)
Target(t, name) ==
  LET own == \E k \in DOMAIN t.dims : t.dims[k].name = name
      aka == {k \in DOMAIN t.aliases : t.aliases[k].name = name}
  IN  IF own THEN name ELSE IF aka = {} THEN "" ELSE t.aliases[Min(aka)].target

(* Mutant: only the first entry that names the dimension counts. *)
CostForFirst(t, dim, costs) ==
  LET hits == {k \in DOMAIN costs : Target(t, costs[k].name) = dim}
  IN  IF hits = {} THEN 0 ELSE costs[Min(hits)].n

(* What the first entries of a request come to for a dimension. *)
Charged(t, dim, costs) ==
  LET upTo[k \in 0..Len(costs)] ==
        IF k = 0 THEN 0
        ELSE IF Target(t, costs[k].name) = dim THEN MinOf(U32Max, upTo[k - 1] + costs[k].n)
        ELSE upTo[k - 1]
  IN  upTo

(* Table::cost_for. *)
CostFor(t, dim, costs) == Charged(t, dim, costs)[Len(costs)]

(* first_unknown, in a strict limiter. *)
Unknown(t, costs) == t.strict /\ \E k \in DOMAIN costs : Target(t, costs[k].name) = ""

(* try_build. *)
Builds(t) ==
  /\ \A j, k \in DOMAIN t.dims : t.dims[j].name = t.dims[k].name => j = k
  /\ \A k \in DOMAIN t.aliases :
       /\ \A j \in DOMAIN t.dims : t.dims[j].name # t.aliases[k].name
       /\ \A j \in 1..(k - 1) : t.aliases[j].name # t.aliases[k].name
       /\ \E j \in DOMAIN t.dims : t.dims[j].name = t.aliases[k].target

HybridItems(cost) == [k \in DOMAIN comp.members |-> [c |-> comp.members[k], n |-> cost]]
MultiItems(costs) ==
  LET t == comp.table
  IN  [k \in DOMAIN t.dims |-> [c |-> t.dims[k].limiter, n |-> CostFor(t, t.dims[k].name, costs)]]

(* Layered: the global scope, the key's and the endpoint's, those there are. *)
LayeredItems(r) ==
  LET scopes == Keep(<<comp.global, comp.per_key[r.key], comp.per_endpoint[r.endpoint]>>,
                     Constituents)
  IN  [k \in DOMAIN scopes |-> [c |-> scopes[k], n |-> r.cost]]

(* A request with an unknown name is refused before anything is looked at. *)
MultiRefused(costs) == Unknown(comp.table, costs)

Items(r) == CASE comp.kind = "hybrid"  -> HybridItems(r)
              [] comp.kind = "multi"   -> MultiItems(r)
              [] comp.kind = "layered" -> LayeredItems(r)

-----------------------------------------------------------------------------
(* A caller. *)

All(me) == [k \in DOMAIN me.items |-> k]
Rest(me) == Keep(All(me), DOMAIN me.items \ me.held)
Taken(me) == {k \in DOMAIN me.got : me.got[k] # Nothing}
Left(me) == IF me.dl >= Forever THEN Forever ELSE MaxOf(0, me.dl - now)
Until(d) == MinOf(now + d, Forever)

CostsOf(me) == [k \in DOMAIN me.items |-> me.items[k].n]

Become(x, me) == cl' = [cl EXCEPT ![x] = me]

(* Between two steps nothing is remembered of the loops of the last one. *)
Clear(me) == [me EXCEPT !.ret = "none", !.ix = <<>>, !.i = 0, !.stop = 0, !.never = FALSE,
                        !.long = 0, !.short = 0, !.best = 0, !.bud = 0, !.naps = FALSE, !.zw = 0]

Loop(me, pc, ret, ix) == [me EXCEPT !.pc = pc, !.ret = ret, !.ix = ix, !.i = 1, !.stop = 0,
                          !.never = FALSE, !.long = 0, !.short = Forever, !.best = 0]

(* Sleep until t and step again, z zero waits in a row so far; or,         *)
(* granted, sleep until t and return.                                      *)
StepAt(me, t, z) == [Clear(me) EXCEPT !.pc = "ask", !.until = t, !.zw = z]
Grant(me, t) == [Clear(me) EXCEPT !.pc = "grant", !.until = t, !.held = DOMAIN me.items]

(* Give back what is held (release_all), then go on as ret says. *)
Release(me, ret) ==
  IF me.held = {} THEN Done ELSE [Loop(me, "free", ret, <<>>) EXCEPT !.naps = FALSE]

(* wait_with after a step that holds or retries with this wait: a zero     *)
(* wait yields RaceYields times in a row, then naps, for no longer than    *)
(* the deadline leaves; with nothing left it gives up.                     *)
Again(me, wait) ==
  IF wait > 0 THEN StepAt(me, Until(wait), 0)
  ELSE IF me.zw < RaceYields THEN StepAt(me, now, me.zw + 1)
  ELSE IF Left(me) = 0 THEN Release(me, "end")
  ELSE StepAt(me, Until(MinOf(RaceBackoff, Left(me))), me.zw)

(* The ends of acquire_all, reserve_each and reserve_all, by where they    *)
(* were called from: try_acquire, reserve, and the branches of step_all.   *)
Committed(me) == IF me.ret = "try" THEN [Clear(me) EXCEPT !.pc = "ok", !.held = DOMAIN me.items]
                 ELSE Grant(me, now)

(* A race lost in the middle of a step_all keeps the bottleneck, if one is *)
(* held, and steps again after a zero wait.                                *)
NotTaken(me) == CASE me.ret \in {"try", "reserve"} -> Done
                  [] me.ret \in {"all", "rest"} -> Again(me, 0)
                  [] me.ret = "slack" -> Release(me, "move")

(* The ends of a peek over me.ix, by where it was called from: acquire_all, *)
(* step_all with and without a bottleneck held, and reserve_all.            *)
Ready(me) == ~me.never /\ me.best = 0

PeekedAll(me) ==
  IF Ready(me) THEN [me EXCEPT !.pc = "commit", !.i = 1]
  ELSE IF me.never /\ me.ret = "all" THEN Done
  ELSE NotTaken(me)

(* Mutant: the matured units are kept while the wait goes on elsewhere. *)
PeekedRestKeeping(me) ==
  IF Ready(me) THEN Loop(me, "peek", "rest", me.ix)
  ELSE IF me.never THEN Release(me, "end")
  ELSE IF me.long <= HoldSlack \/ me.sw >= MaxSwitches THEN Loop(me, "reserve", "slack", me.ix)
  ELSE Again(me, me.long)

PeekedRest(me) ==
  IF Ready(me) THEN Loop(me, "peek", "rest", me.ix)
  ELSE IF me.never THEN Release(me, "end")
  ELSE IF me.long <= HoldSlack \/ me.sw >= MaxSwitches THEN Loop(me, "reserve", "slack", me.ix)
  ELSE Release(me, "move")

Looked(me) ==
  IF me.never THEN Done
  ELSE IF Ready(me) THEN Loop(me, "peek", "all", me.ix)
  ELSE IF ~Within(me.long, me.bud) THEN Done
  ELSE [me EXCEPT !.pc = "one"]

Fitted(me) ==
  IF me.never \/ ~Within(me.long, me.bud) \/ me.long - me.short > HoldSlack THEN Done
  ELSE Loop(me, "reserve", "reserve", me.ix)

Peeked(me) == CASE me.pc = "peek" -> PeekedAll(me)
                [] me.pc = "rest" -> PeekedRest(me)
                [] me.pc = "look" -> Looked(me)
                [] me.pc = "fits" -> Fitted(me)

(* fold_peek: one more constituent's answer; the first of the longest      *)
(* waits is the bottleneck.                                                *)
Folded(me, k) ==
  LET c == me.items[k].c  n == me.items[k].n  w == Wait(c, n)
  IN  IF Impossible(c, n) THEN [me EXCEPT !.never = TRUE]
      ELSE [me EXCEPT !.best = IF w > me.long THEN k ELSE @, !.long = MaxOf(@, w),
                      !.short = MinOf(@, w)]

PeekOne(x) ==
  LET me == cl[x]  now1 == Folded(me, me.ix[me.i])
  IN  /\ me.pc \in {"peek", "rest", "look", "fits"}
      /\ Become(x, IF now1.never \/ me.i = Len(me.ix) THEN Peeked(now1)
                   ELSE [now1 EXCEPT !.i = @ + 1])
      /\ UNCHANGED <<comp, now, bal, hold, ad, gone>>

(* Mutant: the one that refused is refunded too. *)
UndoAll(me) == [me EXCEPT !.pc = "undo", !.stop = me.i, !.i = 1]

(* Refused halfway: what the loop took before goes back (refund_first). *)
Undo(me) == IF me.i = 1 THEN NotTaken(me)
            ELSE [me EXCEPT !.pc = "undo", !.stop = me.i - 1, !.i = 1]

CommitOne(x) ==
  LET me == cl[x]  k == me.ix[me.i]  c == me.items[k].c  n == me.items[k].n
      granted == [me EXCEPT !.got[k] = now]
  IN  /\ me.pc = "commit"
      /\ IF Wait(c, n) = 0
           THEN /\ Take(c, n)
                /\ Become(x, IF me.i = Len(me.ix) THEN Committed(granted)
                             ELSE [granted EXCEPT !.i = @ + 1])
           ELSE Become(x, Undo(me)) /\ UNCHANGED bal
      /\ UNCHANGED <<comp, now, hold, ad, gone>>

ReserveOne(x) ==
  LET me == cl[x]  k == me.ix[me.i]  c == me.items[k].c  n == me.items[k].n
      w == TimeUntil(c, n)
      reserved == [me EXCEPT !.got[k] = now + w, !.long = MaxOf(@, w)]
  IN  /\ me.pc = "reserve"
      /\ IF Reserves(c, n, me.bud)
           THEN /\ Take(c, n)
                /\ Become(x, IF me.i = Len(me.ix) THEN Grant(reserved, Until(reserved.long))
                             ELSE [reserved EXCEPT !.i = @ + 1])
           ELSE Become(x, Undo(me)) /\ UNCHANGED bal
      /\ UNCHANGED <<comp, now, hold, ad, gone>>

GiveBack(me, k) == Refund(me.items[k].c, me.items[k].n)

UndoOne(x) ==
  LET me == cl[x]  k == me.ix[me.i]  undone == [me EXCEPT !.got[k] = Nothing]
  IN  /\ me.pc = "undo"
      /\ GiveBack(me, k)
      /\ Become(x, IF me.i = me.stop THEN NotTaken(undone) ELSE [undone EXCEPT !.i = @ + 1])
      /\ UNCHANGED <<comp, now, hold, ad>>

(* release_all, from step_all, from the wait's guard or by the owner; the  *)
(* wait then moves to another bottleneck, or ends.                         *)
FreeOne(x) ==
  LET me == cl[x]  k == Min(me.held)
      freed == [me EXCEPT !.got[k] = Nothing, !.held = @ \ {k}]
  IN  /\ me.pc = "free"
      /\ GiveBack(me, k)
      /\ Become(x, IF freed.held # {} THEN freed
                   ELSE IF me.ret = "move"
                     THEN Loop([freed EXCEPT !.due = 0, !.sw = freed.sw + 1], "look", "none", All(me))
                   ELSE Done)
      /\ UNCHANGED <<comp, now, hold, ad>>

(* step_all reserves on the bottleneck; one that cannot queue is slept for. *)
ReserveBottleneck(x) ==
  LET me == cl[x]  k == me.best  c == me.items[k].c  n == me.items[k].n  w == TimeUntil(c, n)
      holding == [me EXCEPT !.held = {k}, !.due = now + w, !.got[k] = now + w]
  IN  /\ me.pc = "one"
      /\ IF Reserves(c, n, me.bud)
           THEN /\ Take(c, n)
                /\ Become(x, Again(holding, w))
           ELSE /\ Become(x, Again(me, me.long))
                /\ UNCHANGED bal
      /\ UNCHANGED <<comp, now, hold, ad, gone>>

(* The start of a call: of a step_all, or of acquire_all or reserve_all    *)
(* outside a wait.  A request that reaches no constituent is left out.     *)
NewCall(op, r, t) == [Idle EXCEPT !.op = op, !.items = Items(r), !.bud = t, !.dl = Until(t),
                                !.got = [k \in DOMAIN Items(r) |-> Nothing]]
Start(x, op, r, t) ==
  LET me == NewCall(op, r, t)
  IN  /\ cl[x].pc = "idle" /\ me.items # <<>>
      /\ Become(x, CASE op = "try"     -> Loop(me, "peek", "try", All(me))
                     [] op = "reserve" -> Loop(me, "fits", "reserve", All(me))
                     [] op = "wait"    -> StepAt(me, now, 0))
      /\ UNCHANGED <<comp, now, bal, hold, ad, gone>>

(* try_acquire, acquire and reserve of each composite. *)
HybridStart(x) ==
  /\ comp.kind = "hybrid"
  /\ \E op \in comp.ops, cost \in comp.reqs, t \in comp.timeouts : Start(x, op, cost, t)

MultiStart(x) ==
  /\ comp.kind = "multi"
  /\ \E op \in comp.ops, costs \in comp.reqs, t \in comp.timeouts :
       ~MultiRefused(costs) /\ Start(x, op, costs, t)

LayeredStart(x) ==
  /\ comp.kind = "layered"
  /\ \E op \in comp.ops, r \in comp.reqs, t \in comp.timeouts : Start(x, op, r, t)

(* Mutant: whoever is woken takes the rest, due or not. *)
AskEarly(x) ==
  LET me == [cl[x] EXCEPT !.bud = Left(cl[x])]
  IN  /\ me.pc = "ask" /\ me.until <= now
      /\ Become(x, IF me.held = {} THEN Loop(me, "look", "none", All(me))
                   ELSE IF Rest(me) = <<>> THEN Grant(me, now)
                   ELSE Loop(me, "rest", "none", Rest(me)))
      /\ UNCHANGED <<comp, now, bal, hold, ad, gone>>

(* A waiter whose timer has fired takes a step: with its bottleneck held,  *)
(* it waits until that is due and then looks at the rest.                  *)
Ask(x) ==
  LET me == [cl[x] EXCEPT !.bud = Left(cl[x])]
  IN  /\ me.pc = "ask" /\ me.until <= now
      /\ Become(x, IF me.held = {} THEN Loop(me, "look", "none", All(me))
                   ELSE IF me.due <= now /\ Rest(me) = <<>> THEN Grant(me, now)
                   ELSE IF me.due <= now THEN Loop(me, "rest", "none", Rest(me))
                   ELSE IF ~Within(me.due - now, me.bud) THEN Release(me, "end")
                   ELSE Again(me, me.due - now))
      /\ UNCHANGED <<comp, now, bal, hold, ad, gone>>

(* A granted waiter sleeps out the longest pause among the constituents    *)
(* (paused_all); a caller of reserve sleeps what it was told.              *)
Return(x) ==
  LET me == cl[x]
      pause == IF me.op = "wait" THEN Max({Paused(me.items[k].c) : k \in DOMAIN me.items}) ELSE 0
  IN  /\ me.pc = "grant" /\ me.until <= now
      /\ Become(x, IF pause = 0 THEN [Clear(me) EXCEPT !.pc = "ok", !.until = 0, !.due = 0,
                                                       !.sw = 0, !.dl = 0]
                   ELSE IF ~Within(pause, Left(me)) THEN Release(me, "end")
                   ELSE [me EXCEPT !.until = now + pause, !.naps = TRUE])
      /\ UNCHANGED <<comp, now, bal, hold, ad, gone>>

(* The caller uses what it was granted, or gives it back unused. *)
UseUp(x) ==
  /\ cl[x].pc = "ok"
  /\ gone' = [c \in Constituents |->
       gone[c] + SumOver(CostsOf(cl[x]), {k \in DOMAIN cl[x].items : cl[x].items[k].c = c})]
  /\ Become(x, Done)
  /\ UNCHANGED <<comp, now, bal, hold, ad>>

Unused(x) ==
  /\ cl[x].pc = "ok"
  /\ Become(x, Release(cl[x], "end"))
  /\ UNCHANGED <<comp, now, bal, hold, ad, gone>>

(* A waiting future is dropped, which it can be only where it waits. *)
Cancel(x) ==
  /\ cl[x].op = "wait" /\ cl[x].pc \in {"ask", "grant"}
  /\ Become(x, Release(cl[x], "end"))
  /\ UNCHANGED <<comp, now, bal, hold, ad, gone>>

-----------------------------------------------------------------------------
(* The calls that go over the constituents once: what is left of one is a  *)
(* sequence of operations.                                                 *)

Do(op, c, n) == [op |-> op, c |-> c, n |-> n, left |-> Attempts, saw |-> 0]

(* pause_for and resume reach every constituent, or the global scope only. *)
HybridReached == comp.members
MultiReached == [k \in DOMAIN comp.table.dims |-> comp.table.dims[k].limiter]
LayeredReached == IF comp.global = 0 THEN <<>> ELSE <<comp.global>>
Reached == CASE comp.kind = "hybrid"  -> HybridReached
             [] comp.kind = "multi"   -> MultiReached
             [] comp.kind = "layered" -> LayeredReached
ForEach(op, d) == [k \in DOMAIN Reached |-> Do(op, Reached[k], d)]

PauseFor(d) == ForEach("pause", d)
Resume == ForEach("resume", 0)

(* MultiLimiter::dimension. *)
Dimension(name) ==
  LET t == comp.table
      hits == {k \in DOMAIN t.dims : t.dims[k].name = Target(t, name)}
  IN  IF hits = {} THEN 0 ELSE t.dims[Min(hits)].limiter

(* Window::apply_capped: drain to what the provider has left, and if that  *)
(* is nothing, pause until its reset.                                      *)
Apply(w, c, max_pause) ==
  IF c = 0 \/ w.remaining = Nothing THEN <<>>
  ELSE <<Do("drain", c, w.remaining)>> \o
       (IF w.remaining = 0 /\ MinOf(w.reset, max_pause) > 0
          THEN <<Do("pause", c, MinOf(w.reset, max_pause))>> ELSE <<>>)

(* sync_multi_capped. *)
SyncMulti(info, max_pause) ==
  LET after == MinOf(info.retry_after, max_pause)
  IN  Apply(info.requests, Dimension("requests"), max_pause) \o
      (IF Dimension("tokens") # 0 THEN Apply(info.tokens, Dimension("tokens"), max_pause)
       ELSE Apply(info.tokens, Dimension("input_tokens"), max_pause) \o
            Apply(info.tokens, Dimension("output_tokens"), max_pause)) \o
      (IF after > 0 THEN PauseFor(after) ELSE <<>>)

(* The administrative calls a configuration makes. *)
Script(call) == CASE call.op = "pause"  -> PauseFor(call.d)
                  [] call.op = "resume" -> Resume
                  [] call.op = "sync"   -> SyncMulti(call.info, call.max_pause)

Administer(call) ==
  /\ ad = <<>>
  /\ Script(call) # <<>>
  /\ ad' = Script(call)
  /\ UNCHANGED <<comp, now, bal, hold, cl, gone>>

(* settle_costs, after a call that was admitted on an estimate: what it    *)
(* did not use goes back, what it used beyond is charged.                  *)
Settle(x, actual) ==
  LET me == cl[x]
      used == [k \in DOMAIN me.items |-> CostFor(comp.table, comp.table.dims[k].name, actual)]
      todo == [k \in DOMAIN me.items |->
                 IF used[k] < me.items[k].n THEN Do("refund", me.items[k].c, me.items[k].n - used[k])
                                            ELSE Do("charge", me.items[k].c, used[k] - me.items[k].n)]
      paid == [k \in DOMAIN me.items |-> MinOf(used[k], me.items[k].n)]
  IN  /\ me.pc = "ok" /\ ad = <<>> /\ comp.kind = "multi"
      /\ ad' = Keep(todo, {e \in ToSet(todo) : e.n > 0})
      /\ gone' = [c \in Constituents |->
           gone[c] + SumOver(paid, {k \in DOMAIN me.items : me.items[k].c = c})]
      /\ Become(x, Done)
      /\ UNCHANGED <<comp, now, bal, hold>>

Spend(c, n) == Take(c, n) /\ gone' = [gone EXCEPT ![c] = @ + n]
Rather(e) == ad' = <<e>> \o Tail(ad)

(* A pause: extended, never shortened; by default what is available is     *)
(* read and then taken.                                                    *)
DoPause ==
  LET e == Head(ad)
  IN  /\ e.op = "pause"
      /\ IF comp.native[e.c]
           THEN hold' = [hold EXCEPT ![e.c] = MaxOf(@, now + e.n)] /\ ad' = Tail(ad)
           ELSE /\ IF Available(e.c) > 0 THEN Rather([Do("take", e.c, 0) EXCEPT !.saw = Available(e.c)])
                                         ELSE ad' = Tail(ad)
                /\ UNCHANGED hold
      /\ UNCHANGED <<comp, now, bal, cl, gone>>

(* A resume wakes those who sleep a pause out, of any limiter.  One that   *)
(* was overtaken on its way into the sleep may stay asleep.                *)
Sleepers == {x \in Callers : cl[x].pc \in {"ask", "grant"} /\ cl[x].op = "wait" /\ cl[x].until > now
                             /\ (cl[x].pc = "grant" => cl[x].naps)}
DoResume ==
  LET e == Head(ad)
  IN  /\ e.op = "resume"
      /\ hold' = [hold EXCEPT ![e.c] = 0]
      /\ \E S \in SUBSET (IF Paused(e.c) > 0 THEN Sleepers ELSE {}) :
           cl' = [x \in Callers |-> IF x \in S THEN [cl[x] EXCEPT !.until = now] ELSE cl[x]]
      /\ ad' = Tail(ad)
      /\ UNCHANGED <<comp, now, bal, gone>>

(* drain_to: what is available is read, then the excess is taken; another  *)
(* caller may come in between, and the reading is repeated Attempts times. *)
DoDrain ==
  LET e == Head(ad)
  IN  /\ e.op = "drain"
      /\ IF e.left = 0 \/ Available(e.c) <= e.n THEN ad' = Tail(ad)
         ELSE Rather([e EXCEPT !.op = "excess", !.saw = Available(e.c) - e.n])
      /\ UNCHANGED <<comp, now, bal, hold, cl, gone>>

DoExcess ==
  LET e == Head(ad)
  IN  /\ e.op = "excess"
      /\ IF Wait(e.c, e.saw) = 0
           THEN Spend(e.c, e.saw) /\ ad' = Tail(ad)
           ELSE /\ Rather([e EXCEPT !.op = "drain", !.left = @ - 1, !.saw = 0])
                /\ UNCHANGED <<bal, gone>>
      /\ UNCHANGED <<comp, now, hold, cl>>

(* The last attempt of the default pause_for and of the default charge. *)
DoTake ==
  LET e == Head(ad)
  IN  /\ e.op = "take"
      /\ IF Wait(e.c, e.saw) = 0 THEN Spend(e.c, e.saw) ELSE UNCHANGED <<bal, gone>>
      /\ ad' = Tail(ad)
      /\ UNCHANGED <<comp, now, hold, cl>>

(* charge: a Throttle takes the units on as debt, paused or not; the       *)
(* default reserves a capacity's worth at a time and, if that is refused,  *)
(* takes what is available.                                                *)
DoCharge ==
  LET e == Head(ad)  chunk == MinOf(e.n, comp.cap[e.c])
      more == IF e.n > chunk THEN <<[e EXCEPT !.n = @ - chunk]>> ELSE <<>>
      some == MinOf(Available(e.c), e.n)
  IN  /\ e.op = "charge"
      /\ IF comp.native[e.c] THEN Spend(e.c, e.n) /\ ad' = Tail(ad)
         ELSE IF Reserves(e.c, chunk, Forever) THEN Spend(e.c, chunk) /\ ad' = more \o Tail(ad)
         ELSE /\ IF some > 0 THEN Rather([Do("take", e.c, 0) EXCEPT !.saw = some]) ELSE ad' = Tail(ad)
              /\ UNCHANGED <<bal, gone>>
      /\ UNCHANGED <<comp, now, hold, cl>>

DoRefund ==
  LET e == Head(ad)
  IN  /\ e.op = "refund"
      /\ Refund(e.c, e.n)
      /\ ad' = Tail(ad)
      /\ UNCHANGED <<comp, now, hold, cl>>

DoNext == ad # <<>> /\ (DoPause \/ DoResume \/ DoDrain \/ DoExcess \/ DoTake \/ DoCharge \/ DoRefund)

-----------------------------------------------------------------------------
(* Somebody else takes a unit of a constituent, or reserves it. *)
Rival(c) ==
  /\ Paused(c) = 0
  /\ bal[c] > (IF comp.native[c] THEN -comp.depth ELSE 0)
  /\ Spend(c, 1)
  /\ UNCHANGED <<comp, now, hold, cl, ad>>

(* Units accrue, up to the capacity. *)
Tick ==
  /\ now < comp.until
  /\ now' = now + 1
  /\ bal' = [c \in Constituents |-> MinOf(comp.cap[c], bal[c] + comp.rate[c])]
  /\ gone' = [c \in Constituents |-> gone[c] + bal[c] + comp.rate[c] - bal'[c]]
  /\ UNCHANGED <<comp, hold, cl, ad>>

CallerNext(x) ==
  \/ HybridStart(x) \/ MultiStart(x) \/ LayeredStart(x)
  \/ PeekOne(x) \/ CommitOne(x) \/ ReserveOne(x) \/ UndoOne(x) \/ FreeOne(x)
  \/ ReserveBottleneck(x) \/ Ask(x) \/ Return(x)
  \/ UseUp(x) \/ Unused(x) \/ Cancel(x)
  \/ \E actual \in comp.actuals : Settle(x, actual)

CompositeNext ==
  \/ \E x \in comp.who : CallerNext(x)
  \/ \E call \in comp.calls : Administer(call)
  \/ DoNext
  \/ \E c \in comp.rivals : Rival(c)
  \/ Tick

CompositeSpec == CompositeInit /\ [][CompositeNext]_compositeVars

-----------------------------------------------------------------------------
Loops == {"peek", "rest", "look", "fits", "commit", "reserve", "undo"}
Pcs == {"idle", "done", "ask", "grant", "ok", "free", "one"} \cup Loops

(* No balance exceeds its capacity, a debt is what was promised or charged, *)
(* and a caller's loop is where a loop can be.                              *)
CompositeTypeOK ==
  /\ now \in 0..comp.until
  /\ \A c \in Constituents : bal[c] <= comp.cap[c] /\ hold[c] \in Nat /\ gone[c] \in Nat
  /\ \A x \in Callers :
       /\ cl[x].pc \in Pcs
       /\ cl[x].held \subseteq DOMAIN cl[x].items
       /\ \A k \in DOMAIN cl[x].got : cl[x].got[k] \in {Nothing} \cup Nat
       /\ cl[x].pc \in Loops => /\ cl[x].i \in DOMAIN cl[x].ix
                               /\ \A j \in DOMAIN cl[x].ix : cl[x].ix[j] \in DOMAIN cl[x].items
       /\ cl[x].pc = "undo" => cl[x].stop \in cl[x].i..Len(cl[x].ix)
       /\ cl[x].until \in Nat /\ cl[x].zw \in 0..RaceYields
  /\ \A k \in DOMAIN ad : ad[k].c \in Constituents /\ ad[k].n \in Nat /\ ad[k].left \in 0..Attempts

(* Every unit is in the balance, with a caller that will use it or give it *)
(* back, about to be refunded, or gone: whatever is refused halfway,       *)
(* raced, moved to another bottleneck, dropped or settled, no unit is      *)
(* refunded that was not taken, and none is left behind.                   *)
With(me, c) == SumOver(CostsOf(me), {k \in Taken(me) : me.items[k].c = c})
Returning(todo, c) ==
  SumOver([k \in DOMAIN todo |-> todo[k].n], {k \in DOMAIN todo : todo[k].op = "refund" /\ todo[k].c = c})
UnitsConserved ==
  CompositeTypeOK /\ \A c \in Constituents :
    bal[c] + gone[c] + Returning(ad, c) + SumOver([x \in Callers |-> With(cl[x], c)], Callers)
      = comp.cap[c] + comp.rate[c] * now

(* A caller that was admitted was charged by every constituent, and only   *)
(* returns once every one of them has what it was promised: resumes that   *)
(* wake it early, and moves between bottlenecks, included.                 *)
PassedAll ==
  \A x \in Callers : cl[x].pc = "ok" =>
    \A k \in DOMAIN cl[x].items : cl[x].got[k] # Nothing /\ cl[x].got[k] <= now

(* A waiter asleep on its bottleneck has nothing else, and that matures    *)
(* when it wakes, but for the naps after lost races: a scope shared with   *)
(* other callers is not drained by one that waits for its own (TN2-002).   *)
Asleep(x) == cl[x].pc \in {"ask", "grant"} /\ cl[x].until > now
HoldsNoMatured ==
  \A x \in Callers : Asleep(x) /\ cl[x].pc = "ask" =>
    \A k \in Taken(cl[x]) : cl[x].until <= cl[x].got[k] \/ cl[x].until - now <= RaceBackoff

(* HOLD_SLACK: "a composite never holds one for longer than this before    *)
(* the request can actually go", but for the fallback after MAX_SWITCHES.  *)
HoldsBriefly ==
  \A x \in Callers : Asleep(x) =>
    \A k \in Taken(cl[x]) :
      \/ cl[x].until - MaxOf(now, cl[x].got[k]) <= HoldSlack
      \/ cl[x].sw >= MaxSwitches

(* Constituents that keep overtaking each other cannot postpone a waiter   *)
(* with no deadline for ever: after MaxSwitches it reserves on them all.   *)
Unpaused == \A call \in comp.calls : call.op # "pause" /\ call.op # "sync"
SwitchesBounded ==
  Unpaused /\ (\A c \in Constituents : comp.native[c]) =>
    \A x \in Callers : cl[x].dl >= Forever => cl[x].sw <= MaxSwitches

(* What a composite waiter never does to the others, nor they to it. *)
HoldsBounded == HoldsNoMatured /\ SwitchesBounded

(* A dimension table that try_build accepts charges every entry of a       *)
(* request it accepts to exactly one dimension (up to u32::MAX).           *)
TotalCost(costs) == SumOver([k \in DOMAIN costs |-> costs[k].n], DOMAIN costs)
Built(t) == Builds(t) /\ t.strict
EveryCostCharged ==
  comp.kind = "multi" /\ now = 0 /\ Built(comp.table) =>
    \A r \in comp.reqs :
      ~Unknown(comp.table, r) /\ TotalCost(r) <= U32Max =>
        SumOver([k \in DOMAIN comp.table.dims |-> CostFor(comp.table, comp.table.dims[k].name, r)],
                DOMAIN comp.table.dims) = TotalCost(r)
=============================================================================
