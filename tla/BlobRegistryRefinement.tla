----------------------- MODULE BlobRegistryRefinement -----------------------
(* The blob registry implements the log: what a request does to the        *)
(* registry and the diffs happens at once, and what it does before and     *)
(* after is not seen there.                                                *)
EXTENDS BlobRegistry

Log == INSTANCE BlobLog WITH held <- {e \in registry : e[1] \in SentOnce},
                             log <- {d \in diffs : d.space \in SentOnce},
                             Cause <- {r.cause : r \in Requests}, Stamp <- Requests

(***************************************************************************)
(* Each change of what a space holds is logged in the same step for all    *)
(* the providers of the space, once, however requests interleave and       *)
(* wherever they stop. This is so of the spaces whose invocations are sent *)
(* once, whatever is sent twice in others.                                 *)
(***************************************************************************)
ImplementsLog == Log!Spec
=============================================================================
