--------------------------- MODULE AgentMessagesMC ---------------------------
(* An instance of the agent messages for TLC. *)
EXTENDS AgentMessagesProperties

\* An offer, an accept and two uploads of the store protocol, of which the receipt
\* of the first is over the size.
Abilities == (1 :> "offer") @@ (2 :> "accept") @@ (3 :> "store") @@ (4 :> "store")
ReceiptOf3 == {<<"receipt", 3>>}

Done(t) == [task |-> t, ok |-> TRUE]

Failed(t) == [task |-> t, ok |-> FALSE]

Msg(id, in, out, nth) == [id |-> id, in |-> in, out |-> out, nth |-> nth]

\* A request and its answer; a request that was answered sent again, before the first
\* in the index; one answered again; an offer and an accept in one message; one
\* written twice; one of which a record is too large; one that failed.
Exchange == {Msg(1, {1}, {}, 1), Msg(2, {}, {Done(1)}, 1)}
Again == {Msg(2, {1}, {Done(1)}, 1), Msg(1, {1}, {}, 1)}
Anew == {Msg(2, {2}, {Done(2)}, 1), Msg(1, {}, {Done(2)}, 1)}
Both == {Msg(1, {1, 2}, {Done(1), Done(2)}, 1)}
Twice == {Msg(1, {4}, {Done(4)}, 1), Msg(1, {4}, {Done(4)}, 2)}
Large == {Msg(1, {3, 4}, {Done(3), Done(4)}, 1)}
Failing == {Msg(1, {1}, {Failed(1)}, 1)}

AllBatches == {Exchange, Again, Anew, Both, Twice, Large, Failing}
=============================================================================
