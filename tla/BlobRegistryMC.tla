--------------------------- MODULE BlobRegistryMC ---------------------------
(* An instance of the blob registry for TLC. *)
EXTENDS BlobRegistryProperties, BlobRegistryRefinement, TLC

Of(op, space, blob, cause, sending) ==
    [op |-> op, space |-> space, blob |-> blob, cause |-> cause, sending |-> sending]

Sizes == "b1" :> 2 @@ "b2" :> 3

\* One space has two providers.
TwoProviders == {<<"s1", "p1">>, <<"s1", "p2">>, <<"s2", "p1">>}

\* In one space a blob is added twice and removed, in the other an
\* invocation is sent twice and undone in between.
Churn == {Of("register", "s1", "b1", "u1", 1), Of("register", "s1", "b1", "u2", 1),
          Of("deregister", "s1", "b1", "v1", 1),
          Of("register", "s2", "b2", "u3", 1), Of("register", "s2", "b2", "u3", 2),
          Of("deregister", "s2", "b2", "v3", 1)}
=============================================================================
