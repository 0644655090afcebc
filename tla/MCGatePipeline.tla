--------------------------- MODULE MCGatePipeline ---------------------------
EXTENDS GatePipeline

Plain == [flags |-> {}, like |-> {}]

\* Every route and every kind of body.  The fast filter is the first scanner
\* of all routes and reads the body, so that a size makes the same difference
\* on each.  The headers have no, one or two cookies: with no flag, with some,
\* and with a name that begins like a flag which it has or has not.
MCKinds ==
    {[route |-> "app", size |-> "large", cookies |-> <<>>],
     [route |-> "app", size |-> "none", cookies |->
        <<Plain, [flags |-> {"httponly"}, like |-> {"secure"}]>>],
     [route |-> "graphql", size |-> "fits", cookies |-> <<[flags |-> {"samesite"}, like |-> {}]>>],
     [route |-> "login", size |-> "fits", cookies |->
        <<[flags |-> {"secure"}, like |-> {"httponly", "secure"}], Plain>>],
     [route |-> "api", size |-> "empty", cookies |-> <<>>]}
=============================================================================
