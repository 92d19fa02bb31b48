----------------------------- MODULE SlotShares -----------------------------
(***************************************************************************)
(* How OffloadState spreads a number of expert slots over the layers       *)
(* (offload.py): evenly when it is resized, by miss pressure when it is    *)
(* rebalanced.  A number per layer is a function on the layers.            *)
(***************************************************************************)
EXTENDS Integers, Functions, FiniteSets, FiniteSetsExt

\* Python's min().
Least(a, b) == IF a < b THEN a ELSE b

\* MUTANT: fewer slots than layers leave none to anybody.
EvenZero(slots, total) == [i \in DOMAIN slots |-> total \div Cardinality(DOMAIN slots)]

\* resize_total(): the same for every layer, and one at least.
Even(slots, total) ==
    LET each == total \div Cardinality(DOMAIN slots)
    IN  [i \in DOMAIN slots |-> IF each = 0 THEN 1 ELSE each]

\* sorted(layers, key = misses, reverse = True) is stable: the place of layer i in it.
Rank(misses, S, i) ==
    Cardinality({j \in S : misses[j] > misses[i] \/ (misses[j] = misses[i] /\ j < i)})

\* What the parts leave of the amount goes to the most pressed, one each.
HandedOut(parts, misses, S, amount) ==
    LET rest == amount - SumFunctionOnSet(parts, S)
    IN  [i \in DOMAIN parts |->
            IF i \in S /\ Rank(misses, S, i) < rest THEN parts[i] + 1 ELSE parts[i]]

\* A floor for everybody and the spread in proportion.
Proportional(slots, misses, floor) ==
    LET layers == DOMAIN slots
        total  == SumFunction(slots)
        low    == Least(floor, total \div Cardinality(layers))
        spread == total - low * Cardinality(layers)
    IN  HandedOut([i \in layers |-> low + (misses[i] * spread) \div SumFunction(misses)],
                  misses, layers, total)

\* MUTANT: what does not fit a layer is lost.
RoundClamps(s, misses, experts) ==
    [s EXCEPT !.target = [i \in DOMAIN s.target |-> Least(s.target[i], experts)]]

\* One turn of the loop: no layer needs more slots than there are experts, and what does not
\* fit goes to the layers that never had too much, by their pressure.
Round(s, misses, experts) ==
    LET layers == DOMAIN s.target
        over   == {i \in layers : s.target[i] > experts}
        excess == SumFunctionOnSet(s.target, over) - experts * Cardinality(over)
        target == [i \in layers |-> Least(s.target[i], experts)]
        capped == s.capped \cup over
        free   == layers \ capped
        weight == SumFunctionOnSet(misses, free)
        share  == [i \in layers |->
                      IF i \notin free THEN 0
                      ELSE IF weight > 0 THEN (misses[i] * excess) \div weight
                      ELSE excess \div Cardinality(free)]
        extra  == HandedOut(share, misses, free, excess)
    IN  IF excess = 0 \/ free = {} THEN [target |-> target, capped |-> capped]
        ELSE [target |-> [i \in layers |-> target[i] + extra[i]], capped |-> capped]

\* rebalance(): every turn but the last caps one more layer.
Rebalanced(slots, misses, floor, experts) ==
    LET turn[k \in Nat] ==
            IF k = 0 THEN [target |-> Proportional(slots, misses, floor), capped |-> {}]
            ELSE Round(turn[k - 1], misses, experts)
    IN  turn[Cardinality(DOMAIN slots) + 1].target
=============================================================================
