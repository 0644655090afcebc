------------------------ MODULE AdaptiveJailHistory ------------------------
(***************************************************************************)
(* AdaptiveJail with a history variable: what the escalations of each key  *)
(* have been, for the progressive delays of blocklist.js:79-83.            *)
(***************************************************************************)
EXTENDS AdaptiveJail

VARIABLE breach  \* key -> the series of breaches it is in

hvars == <<vars, breach>>

\* last: the block that the latest breach earned; window: ticks left since
\* the first breach of the series; quiet: ticks left since the latest one.
NoBreach == [last |-> 0, window |-> 0, quiet |-> 0]

Escalates(k) ==
    \E r \in Requests :
        pc[r] \in {"incr", "expire"} /\ pc'[r] = "set" /\ Key(r) = k

Earned(k) == memoryStore'[k].left

Breached(k) ==
    [last |-> Earned(k),
     window |-> IF breach[k].window > 0 THEN breach[k].window ELSE ViolationWindow,
     quiet |-> ViolationWindow]

AgeBreach(b) ==
    IF b.quiet = 1 THEN NoBreach
    ELSE [b EXCEPT !.window = Less(@), !.quiet = Less(@)]

HInit == Init /\ breach = [k \in Keys |-> NoBreach]

HNext ==
    \/ Tick /\ breach' = [k \in Keys |-> AgeBreach(breach[k])]
    \/ /\ \/ \E r \in Requests : Arrive(r) \/ Step(r)
          \/ \E a \in Admins : AdminStep(a)
       /\ breach' = [k \in Keys |-> IF Escalates(k) THEN Breached(k) ELSE breach[k]]

HSpec == HInit /\ [][HNext]_hvars /\ Fairness

\* blocklist.js:79-83: each repeat breach within the violation window of the
\* series doubles the block, up to the cap; after a whole window without a
\* breach the next one earns the base block.  With Redis up, or down,
\* throughout.
RepeatBreachDoubles ==
    [][\A k \in Keys : Escalates(k) =>
          /\ breach[k].window > 0 => Earned(k) = Least(MaxBlock, 2 * breach[k].last)
          /\ breach[k].quiet = 0 => Earned(k) = Least(MaxBlock, BaseBlock)]_hvars
=============================================================================
