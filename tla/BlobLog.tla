------------------------------- MODULE BlobLog -------------------------------
(***************************************************************************)
(* What the blob registry promises billing: a blob is in a space or not,   *)
(* and each time that changes, one entry per provider of the space is      *)
(* logged in the same step, with the cause of the change and the bytes it  *)
(* adds or takes. No cause is logged twice.                                *)
(***************************************************************************)
EXTENDS Integers

CONSTANTS Space, Blob, Provider, Size, Consumers, Cause, Stamp

VARIABLES
    held,  \* the blobs each space holds: pairs of a space and a blob
    log    \* the entries

vars == <<held, log>>

Init == held = {} /\ log = {}

Logged(s, delta, c, at) ==
    /\ \A d \in log : d.cause # c
    /\ log' = log \union
         {[space |-> s, provider |-> p, cause |-> c, at |-> at, delta |-> delta] :
            p \in {q \in Provider : <<s, q>> \in Consumers}}

Add(s, b, c, at) ==
    /\ <<s, b>> \notin held
    /\ held' = held \union {<<s, b>>}
    /\ Logged(s, Size[b], c, at)

Remove(s, b, c, at) ==
    /\ <<s, b>> \in held
    /\ held' = held \ {<<s, b>>}
    /\ Logged(s, -Size[b], c, at)

Next == \E s \in Space, b \in Blob, c \in Cause, at \in Stamp : Add(s, b, c, at) \/ Remove(s, b, c, at)

Spec == Init /\ [][Next]_vars
=============================================================================
