------------------------- MODULE MCTokenRevocation -------------------------
EXTENDS TokenRevocation, TLC
CONSTANTS session, refresh, b1, b2

MCTokens == {session, refresh}
MCAccessTokens == {session}
MCKeys == {TokenKey(t) : t \in MCTokens}
MCBits == {b1, b2}

\* When the refresh token is revoked the filter has every bit of the session.
MCHash == session :> {b1} @@ refresh :> {b1, b2}

\* Redis up throughout, down throughout, and doing anything.
MCRegimes == {{"ok"}, {"lost"}, AllOutcomes}
OnlyUp == {{"ok"}}

Interchangeable == Permutations(Clients)
============================================================================
