--------------------------------- MODULE Access ---------------------------------
(***************************************************************************)
(* Delegations and their revocations. A delegation is put in a bucket      *)
(* under its CID and then in a table that is read by audience; what the    *)
(* index shows is fetched from the bucket, all of it or an error. A        *)
(* revocation is an attribute, named for its scope, of an item for the     *)
(* delegation it revokes. Confirming an e-mail address, or a sign-in with  *)
(* another identity provider, stores delegations.                          *)
(***************************************************************************)
EXTENDS AccountRequests

VARIABLES
    stored,      \* the delegations bucket
    delegations, \* the delegation table: links and their audience
    revocations  \* the revocation table: what is revoked, in which scope, and why

access == <<stored, delegations, revocations>>

\* Requests that store delegations: those confirmed in an e-mail and by sign-in.
Granting == {r \in Batch : r.op \in {"delegate", "github", "sso"}}

\* The puts of a request are all under way at once: one that fails does not
\* hold the others up, and has the request fail.
StoreDelegation(r) ==
    /\ r \in Granting /\ job[r].pc \in {"store", "failed"}
    /\ \E d \in r.delegations \ job[r].seen :
         /\ stored' = stored \union {d}
         /\ job' = [job EXCEPT ![r].seen = @ \union {d}]
    /\ UNCHANGED <<delegations, revocations, faults>>

\* Slip: the table is written without waiting for the bucket.
StoredAtOnce(r) == TRUE

Stored(r) == job[r].seen = r.delegations

\* After a sign-in comes the trial: if there is no record, or if it is switched on.
AfterIndex(r) ==
    IF r.op = "github" THEN "get" ELSE IF r.op = "sso" /\ r.trial THEN "put" ELSE "done"

\* A batch write, part of which may not be processed.
IndexDelegations(r) ==
    /\ r \in Granting /\ job[r].pc = "store" /\ Stored(r)
    /\ \E lost \in SUBSET r.delegations :
         /\ delegations' = delegations \union
                {[link |-> d, audience |-> r.audience] : d \in r.delegations \ lost}
         /\ \/ /\ lost = {}
               /\ Go(r, AfterIndex(r))
               /\ UNCHANGED faults
            \/ Fails /\ Go(r, "failed")
    /\ UNCHANGED <<stored, revocations>>

\* authorize: the delegations of the request in the e-mail.
Confirm(r) ==
    /\ At(r, "delegate", "new")
    /\ Go(r, "store")
    /\ UNCHANGED <<access, faults>>

\* The index on audiences lags: it shows some of them.
FindByAudience(r) ==
    /\ At(r, "find", "new")
    /\ \E links \in SUBSET {x.link : x \in {y \in delegations : y.audience = r.audience}} :
         Read(r, "fetch", links)
    /\ UNCHANGED <<access, faults>>

\* One that cannot be fetched is an error for all.
Fetch(r) ==
    /\ At(r, "find", "fetch")
    /\ Go(r, IF job[r].seen \subseteq stored THEN "done" ELSE "refused")
    /\ UNCHANGED <<access, faults>>

Revocation(r) == [revoke |-> r.revoke, scope |-> r.scope, cause |-> r.cause]

RevocationsOf(d) == {x \in revocations : x.revoke = d}

\* What add overwrites: the attribute of its scope.
Replaced(r) == {x \in RevocationsOf(r.revoke) : x.scope = r.scope}

AddRevocation(r) ==
    /\ At(r, "revoke", "new")
    /\ revocations' = (revocations \ Replaced(r)) \union {Revocation(r)}
    /\ Answered(r, "done")
    /\ UNCHANGED <<stored, delegations>>

ResetRevocations(r) ==
    /\ At(r, "reset", "new")
    /\ revocations' = (revocations \ RevocationsOf(r.revoke)) \union {Revocation(r)}
    /\ Answered(r, "done")
    /\ UNCHANGED <<stored, delegations>>

\* The revocations endpoint: none, or those there are, with what of their proofs
\* the bucket has. A read may show less than the table has.
CheckRevocations(r) ==
    /\ At(r, "check", "new")
    /\ \E seen \in SUBSET RevocationsOf(r.revoke) :
         Read(r, "done", {[cause |-> x.cause, proof |-> x.cause \in stored] : x \in seen})
    /\ UNCHANGED <<access, faults>>

AccessInit == stored = {} /\ delegations = {} /\ revocations = {}

AccessNext ==
    \E r \in Batch :
        \/ Confirm(r) \/ StoreDelegation(r) \/ IndexDelegations(r)
        \/ FindByAudience(r) \/ Fetch(r)
        \/ AddRevocation(r) \/ ResetRevocations(r) \/ CheckRevocations(r)

(***************************************************************************)
(* What the index shows can be fetched, whatever stopped half way: a       *)
(* listing of delegations never fails because one of them was lost on its  *)
(* way (putMany, find). And an answered revocation stands: others of the   *)
(* same delegation, added at the same time in other scopes, do not undo    *)
(* it, and after a reset something still revokes it (add, reset).          *)
(***************************************************************************)
AccessIsKept ==
    \A r \in Batch :
        /\ r.op = "find" => job[r].pc # "refused"
        /\ r.op \in {"revoke", "reset"} /\ job[r].pc = "done" =>
             /\ RevocationsOf(r.revoke) # {}
             /\ \/ \E x \in RevocationsOf(r.revoke) : x.scope = r.scope
                \/ \E q \in Batch : q.op = "reset" /\ q.revoke = r.revoke /\ q.scope # r.scope
                                      /\ job[q].pc # "new"

=============================================================================
