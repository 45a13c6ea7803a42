---------------------------- MODULE UploadTableMC ----------------------------
(* An instance of the upload table and of the block index for TLC. *)
EXTENDS ContentUpload

Add(root, shards, sending) ==
    [op |-> "add", key |-> <<"s1", root>>, shards |-> shards, sending |-> sending]

Take(root) == [op |-> "remove", key |-> <<"s1", root>>]

\* An upload that grows past the threshold, one by one or at once, and is removed;
\* one that shares its list with another; one that stays small.
Growing == {Add(1, <<2>>, 1), Add(1, <<1, 2, 3>>, 2), Take(1)}
Grown == {Add(1, <<2>>, 1), Add(1, <<1, 2>>, 2), Add(1, <<3>>, 3)}
Alike == {Add(1, <<2, 1, 3>>, 1), Add(2, <<2, 1, 3>>, 1), Take(1)}
Few == {Add(2, <<1>>, 1), Add(2, <<2>>, 2), Take(2)}

AllBatches == {Growing, Grown, Alike, Few}

List(of, pre, size) == [of |-> of, key |-> <<"s1", 1>>, pre |-> pre, size |-> size]

Pages == {List("shards", FALSE, 0), List("uploads", TRUE, 1), List("uploads", FALSE, 0)}

At(location, blocks) == [location |-> location, blocks |-> blocks]

\* None; a legacy space, with shards of two messages or with a block in common;
\* another space, at once with a legacy one or with adverts of two messages.
Alone == [shards |-> <<At("l1", <<1, 2, 3>>)>>, legacy |-> TRUE]
Common == [shards |-> <<At("l1", <<1>>), At("l2", <<1, 2>>)>>, legacy |-> TRUE]
Lately == [shards |-> <<At("l1", <<2>>)>>, legacy |-> FALSE]
Long == [shards |-> <<At("l1", <<1, 2, 3, 4>>)>>, legacy |-> FALSE]

AllPublications == {{}, {Alone}, {Common, Lately}, {Long}}
=============================================================================
