----------------------------- MODULE MCComposite -----------------------------
(* Instances of Composite for model checking. *)
EXTENDS Composite

One == {CHOOSE x \in Callers : TRUE}
Entry(name, n) == [name |-> name, n |-> n]
Dim(name, c) == [name |-> name, limiter |-> c]
Alias(name, target) == [name |-> name, target |-> target]
Pausing == [op |-> "pause", d |-> 2]
Resuming == [op |-> "resume"]

Quiet == [ops |-> {"wait"}, timeouts |-> {Forever}, calls |-> {}, actuals |-> {},
          rivals |-> {1, 2}, depth |-> 1, who |-> One]

(* A global scope shared by the scopes of two keys: the bottleneck moves   *)
(* from one to the other and back.                                         *)
Scoped == [kind |-> "layered", global |-> 1, per_key |-> [a |-> 2, b |-> 3, c |-> 0],
           per_endpoint |-> [e |-> 0], cap |-> <<2, 2, 2>>, rate |-> <<1, 1, 1>>,
           native |-> <<TRUE, TRUE, TRUE>>, until |-> 7,
           reqs |-> {[key |-> k, endpoint |-> "e", cost |-> 2] : k \in {"a", "b", "c"}}] @@ Quiet

(* Three scopes, with timeouts, a pause and a resume of the global one. *)
Three == [kind |-> "layered", global |-> 1, per_key |-> [a |-> 2],
          per_endpoint |-> [e |-> 3], cap |-> <<1, 2, 1>>, rate |-> <<1, 1, 1>>,
          native |-> <<TRUE, TRUE, TRUE>>, until |-> 2, calls |-> {Pausing, Resuming},
          timeouts |-> {1, Forever}, ops |-> {"try", "wait"},
          reqs |-> {[key |-> "a", endpoint |-> "e", cost |-> 1]}] @@ Quiet

(* A Throttle beside a limiter with the default methods only, and callers  *)
(* that do not wait, or reserve; a cost beyond the capacity.               *)
Mixed == [kind |-> "hybrid", members |-> <<1, 2>>, cap |-> <<2, 2>>, rate |-> <<1, 2>>,
          native |-> <<TRUE, FALSE>>, until |-> 2, calls |-> {Pausing},
          ops |-> {"try", "wait", "reserve"}, timeouts |-> {2}, reqs |-> {1, 2, 3}] @@ Quiet

(* Two callers of one composite. *)
Pair == [kind |-> "hybrid", members |-> <<1, 2>>, cap |-> <<2, 1>>, rate |-> <<1, 1>>,
         native |-> <<TRUE, TRUE>>, until |-> 2, who |-> Callers, rivals |-> {},
         ops |-> {"try", "wait", "reserve"}, reqs |-> {1}] @@ Quiet

(* Dimensions with an alias, reconciled with what the provider reports and *)
(* settled with what the call used.                                        *)
Window(left, reset) == [remaining |-> left, reset |-> reset]
Info(req, tok, after) == [requests |-> req, tokens |-> tok, retry_after |-> after]
Sync(info) == [op |-> "sync", info |-> info, max_pause |-> 2]
Metered == [kind |-> "multi",
            table |-> [dims |-> <<Dim("requests", 1), Dim("input_tokens", 2), Dim("output_tokens", 3)>>,
                       aliases |-> <<Alias("in", "input_tokens")>>, strict |-> TRUE],
            cap |-> <<1, 2, 2>>, rate |-> <<1, 1, 1>>, native |-> <<TRUE, TRUE, FALSE>>,
            until |-> 1, ops |-> {"try", "wait"}, rivals |-> {2, 3},
            reqs |-> {<<Entry("requests", 1), Entry("in", 1), Entry("output_tokens", 1)>>,
                      <<Entry("request", 1)>>},
            actuals |-> {<<Entry("input_tokens", 4), Entry("output_tokens", 3)>>,
                         <<Entry("requests", 1)>>},
            calls |-> {Sync(Info(Window(0, 3), Window(1, 1), 0)),
                       Sync(Info(Window(Nothing, 1), Window(Nothing, 1), 1))}] @@ Quiet

(* Every table of at most two dimensions and two aliases over three names, *)
(* for what it makes of a request.                                         *)
Names == {"p", "q", "r"}
UpTo2(S) == {<<>>} \cup {<<e>> : e \in S} \cup {<<d, e>> : d, e \in S}
Tables == {[kind |-> "multi", table |-> [dims |-> d, aliases |-> a, strict |-> TRUE],
            cap |-> <<1>>, rate |-> <<1>>, native |-> <<TRUE>>, until |-> 0, who |-> {},
            rivals |-> {}, reqs |-> UpTo2({Entry(n, i) : n \in Names, i \in {1, 2}})] @@ Quiet :
           d \in UpTo2({Dim(n, 1) : n \in Names}), a \in UpTo2({Alias(n, t) : n, t \in Names})}

Setups == {Scoped, Three, Mixed, Pair, Metered} \cup {s \in Tables : Builds(s.table)}
=============================================================================
