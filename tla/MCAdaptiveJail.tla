--------------------------- MODULE MCAdaptiveJail ---------------------------
(* Instances of AdaptiveJail for TLC.  The scale of the durations is that of *)
(* the code: base block < jail <= cap < violation window.                    *)
EXTENDS AdaptiveJail, TLC

MCKeys == {IpKey(i) : i \in Ips} \cup {AccountKey(a) : a \in Accounts}
MCWriters == Requests \cup Admins

\* Redis up throughout.
Up == {{"ok"}}

\* Redis up throughout, or down throughout.
Steady == {{"ok"}, {"lost"}}

\* Redis that answers, perhaps after a resend; and Redis that may do anything.
Flapping == {{"ok", "resent"}, AllOutcomes}

Interchangeable == Permutations(Requests)
=============================================================================
