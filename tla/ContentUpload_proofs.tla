------------------------- MODULE ContentUpload_proofs -------------------------
(***************************************************************************)
(* What is proved of a client's uploads, for any content, sizes of batches *)
(* and failures: what was published reaches the index, an upload lists the *)
(* shards that were added to it, the metrics count the uploads, and a      *)
(* listing shows them all.                                                 *)
(***************************************************************************)
EXTENDS ContentUpload, SequenceTheorems, DataLemmas

(***************************************************************************)
(* Sequences.                                                              *)
(***************************************************************************)
LEMMA Appended ==
    ASSUME NEW S, NEW s \in Seq(S), NEW t \in Seq(S)
    PROVE  s \o t \in Seq(S) /\ ToSet(s \o t) = ToSet(s) \union ToSet(t)
  <1>1. s \o t \in Seq(S) /\ Len(s \o t) = Len(s) + Len(t) /\ Len(s) \in Nat /\ Len(t) \in Nat
    OBVIOUS
  <1>2. \A i \in 1..Len(s) : (s \o t)[i] = s[i]
    OBVIOUS
  <1>3. \A i \in 1..Len(t) : (s \o t)[Len(s) + i] = t[i]
    OBVIOUS
  <1>4. ToSet(s \o t) \subseteq ToSet(s) \union ToSet(t)
    <2> SUFFICES ASSUME NEW i \in 1..(Len(s) + Len(t)) PROVE (s \o t)[i] \in ToSet(s) \union ToSet(t)
      BY <1>1 DEF ToSet
    <2>1. CASE i <= Len(s)
      BY <1>1, <1>2, <2>1 DEF ToSet
    <2>2. CASE i > Len(s)
      <3>1. i - Len(s) \in 1..Len(t) /\ i = Len(s) + (i - Len(s))
        BY <1>1, <2>2
      <3>2. (s \o t)[i] = t[i - Len(s)]
        BY <1>3, <3>1
      <3>3. QED
        BY <3>1, <3>2 DEF ToSet
    <2>3. QED
      BY <1>1, <2>1, <2>2
  <1>5. ToSet(s) \subseteq ToSet(s \o t)
    BY <1>1, <1>2 DEF ToSet
  <1>6. ToSet(t) \subseteq ToSet(s \o t)
    <2> SUFFICES ASSUME NEW i \in 1..Len(t) PROVE t[i] \in ToSet(s \o t)
      BY DEF ToSet
    <2>1. Len(s) + i \in DOMAIN (s \o t)
      BY <1>1
    <2>2. QED
      BY <1>3, <2>1 DEF ToSet
  <1>7. QED
    BY <1>1, <1>4, <1>5, <1>6

\* The lists of seqs one after the other have what those have.
Flattens(f, seqs, n) ==
    f = [i \in 1..n |-> IF i = 1 THEN seqs[i] ELSE f[i-1] \o seqs[i]]

LEMMA FlattenExists ==
    ASSUME NEW seqs, NEW n \in Nat
    PROVE  \E f : Flattens(f, seqs, n)
  <1> DEFINE S == {k \in Nat : \E f : Flattens(f, seqs, k)}
  <1>1. 0 \in S
    <2>1. Flattens(<<>>, seqs, 0)
      BY DEF Flattens
    <2>2. QED
      BY <2>1
  <1>2. ASSUME NEW k \in Nat, k \in S PROVE k + 1 \in S
    <2>1. PICK f : Flattens(f, seqs, k)
      BY <1>2
    <2> DEFINE g == [i \in 1..k + 1 |->
                       IF i <= k THEN f[i] ELSE IF i = 1 THEN seqs[i] ELSE f[i-1] \o seqs[i]]
    <2>2. \A i \in 1..k : f[i] = IF i = 1 THEN seqs[i] ELSE f[i-1] \o seqs[i]
      BY <2>1 DEF Flattens
    <2>3. ASSUME NEW i \in 1..k + 1 PROVE g[i] = IF i = 1 THEN seqs[i] ELSE g[i-1] \o seqs[i]
      <3>1. CASE i = 1
        BY <2>2, <3>1
      <3>2. CASE i # 1
        <4>1. i - 1 \in 1..k /\ g[i-1] = f[i-1]
          BY <3>2
        <4>2. g[i] = f[i-1] \o seqs[i]
          <5>1. CASE i <= k
            <6>1. i \in 1..k /\ g[i] = f[i]
              BY <5>1
            <6>2. QED
              BY <2>2, <3>2, <6>1
          <5>2. CASE ~(i <= k)
            BY <3>2, <5>2
          <5>3. QED
            BY <5>1, <5>2
        <4>3. QED
          BY <3>2, <4>1, <4>2
      <3>3. QED
        BY <3>1, <3>2
    <2>4. g = [i \in 1..k + 1 |-> g[i]]
      OBVIOUS
    <2> HIDE DEF g
    <2>5. Flattens(g, seqs, k + 1)
      BY <2>3, <2>4 DEF Flattens
    <2>6. QED
      BY <2>5
  <1>3. S = Nat
    <2>1. S \in SUBSET Nat
      OBVIOUS
    <2> HIDE DEF S
    <2>2. QED
      BY <1>1, <1>2, <2>1, Induction
  <1>4. QED
    BY <1>3

LEMMA Flattened ==
    ASSUME NEW S, NEW seqs \in Seq(Seq(S))
    PROVE  /\ FlattenSeq(seqs) \in Seq(S)
           /\ ToSet(FlattenSeq(seqs)) = UNION {ToSet(seqs[i]) : i \in DOMAIN seqs}
  <1> DEFINE n == Len(seqs)
             f == CHOOSE flatten : Flattens(flatten, seqs, n)
             Upto(k) == UNION {ToSet(seqs[i]) : i \in 1..k}
             P == {k \in Nat : k \in 1..n => f[k] \in Seq(S) /\ ToSet(f[k]) = Upto(k)}
  <1>1. n \in Nat /\ DOMAIN seqs = 1..n /\ \A i \in 1..n : seqs[i] \in Seq(S)
    OBVIOUS
  <1>2. CASE n = 0
    BY <1>1, <1>2 DEF FlattenSeq, ToSet
  <1>3. CASE n # 0
    <2>1. FlattenSeq(seqs) = f[n]
      BY <1>3 DEF FlattenSeq, Flattens
    <2>2. Flattens(f, seqs, n)
      BY <1>1, FlattenExists
    <2>3. \A i \in 1..n : f[i] = IF i = 1 THEN seqs[i] ELSE f[i-1] \o seqs[i]
      <3> HIDE DEF f
      <3>1. QED
        BY <2>2 DEF Flattens
    <2> HIDE DEF f
    <2>4. 0 \in P
      BY <1>1
    <2>5. ASSUME NEW k \in Nat, k \in P PROVE k + 1 \in P
      <3> SUFFICES ASSUME k + 1 \in 1..n PROVE f[k + 1] \in Seq(S) /\ ToSet(f[k + 1]) = Upto(k + 1)
        OBVIOUS
      <3>1. Upto(k + 1) = Upto(k) \union ToSet(seqs[k + 1]) /\ seqs[k + 1] \in Seq(S)
        <4>1. 1..k + 1 = 1..k \union {k + 1}
          OBVIOUS
        <4>2. QED
          BY <1>1, <4>1
      <3>2. CASE k = 0
        <4>1. f[k + 1] = seqs[k + 1] /\ Upto(k) = {}
          BY <2>3, <3>2
        <4>2. QED
          BY <3>1, <4>1
      <3>3. CASE k # 0
        <4>1. k \in 1..n /\ (k + 1) - 1 = k /\ k + 1 # 1
          BY <1>1, <3>3
        <4>2. f[k + 1] = f[k] \o seqs[k + 1]
          BY <2>3, <4>1
        <4>3. f[k] \in Seq(S) /\ ToSet(f[k]) = Upto(k)
          BY <2>5, <4>1
        <4>4. f[k] \o seqs[k + 1] \in Seq(S) /\ ToSet(f[k] \o seqs[k + 1]) = ToSet(f[k]) \union ToSet(seqs[k + 1])
          <5>1. \A s, u : s \in Seq(S) /\ u \in Seq(S) =>
                          s \o u \in Seq(S) /\ ToSet(s \o u) = ToSet(s) \union ToSet(u)
            BY Appended
          <5>2. QED
            BY <3>1, <4>3, <5>1, Zenon
        <4> HIDE DEF Upto
        <4>5. QED
          BY <3>1, <4>2, <4>3, <4>4
      <3>4. QED
        BY <3>2, <3>3
    <2>6. P = Nat
      <3>1. P \in SUBSET Nat
        OBVIOUS
      <3> HIDE DEF P
      <3>2. QED
        BY <2>4, <2>5, <3>1, Induction
    <2>7. n \in 1..n
      BY <1>1, <1>3
    <2>8. QED
      BY <1>1, <2>1, <2>6, <2>7
  <1>4. QED
    BY <1>2, <1>3

(***************************************************************************)
(* A list taken so many at a time: every element is in some chunk, and no  *)
(* chunk has more than it may.                                             *)
(***************************************************************************)
Starts(j, size) == j % size = 1 \/ size = 1

LEMMA StartAfter ==
    ASSUME NEW size \in Nat \ {0}, NEW j \in Nat, Starts(j, size)
    PROVE  Starts(j + size, size)
  <1>1. CASE size = 1
    BY <1>1 DEF Starts
  <1>2. CASE size > 1
    <2>1. j % size = 1
      BY <1>2 DEF Starts
    <2>2. (j + size) % size = 1
      BY <1>2, <2>1
    <2>3. QED
      BY <2>2 DEF Starts
  <1>3. QED
    BY <1>1, <1>2

LEMMA StartBefore ==
    ASSUME NEW size \in Nat \ {0}, NEW k \in Nat \ {0}
    PROVE  \E j \in 1..k : Starts(j, size) /\ k < j + size
  <1> DEFINE S == {i \in Nat : \A m \in 1..i : \E j \in 1..m : Starts(j, size) /\ m < j + size}
  <1>1. 0 \in S
    OBVIOUS
  <1>2. ASSUME NEW i \in Nat, i \in S PROVE i + 1 \in S
    <2> SUFFICES ASSUME NEW m \in 1..i + 1 PROVE \E j \in 1..m : Starts(j, size) /\ m < j + size
      OBVIOUS
    <2>1. CASE m <= i
      BY <1>2, <2>1
    <2>2. CASE m = i + 1 /\ m <= size
      <3>1. Starts(1, size)
        BY DEF Starts
      <3>2. QED
        BY <2>2, <3>1
    <2>3. CASE m = i + 1 /\ m > size
      <3>1. m - size \in 1..i
        BY <2>3
      <3>2. PICK j \in 1..m - size : Starts(j, size) /\ m - size < j + size
        BY <1>2, <3>1
      <3>3. j \in Nat /\ j + size \in 1..m /\ m < (j + size) + size
        BY <2>3, <3>1, <3>2
      <3>4. Starts(j + size, size)
        BY <3>2, <3>3, StartAfter
      <3>5. QED
        BY <3>3, <3>4
    <2>4. QED
      BY <2>1, <2>2, <2>3
  <1>3. S = Nat
    <2>1. S \in SUBSET Nat
      OBVIOUS
    <2> HIDE DEF S
    <2>2. QED
      BY <1>1, <1>2, <2>1, Induction
  <1>4. k \in S
    <2> HIDE DEF S
    <2>1. QED
      BY <1>3
  <1>5. k \in 1..k
    OBVIOUS
  <1>6. QED
    BY <1>4, <1>5

LEMMA SeqFinite ==
    ASSUME NEW S, NEW s \in Seq(S)
    PROVE  IsFiniteSet(ToSet(s)) /\ Cardinality(ToSet(s)) <= Len(s) /\ Cardinality(ToSet(s)) \in Nat
  <1> DEFINE f == [i \in 1..Len(s) |-> s[i]]
  <1>1. 1 \in Int /\ Len(s) \in Int /\ Len(s) \in Nat /\ (1 > Len(s) => Len(s) = 0) /\ Len(s) - 1 + 1 = Len(s)
    OBVIOUS
  <1>2. IsFiniteSet(1..Len(s)) /\ Cardinality(1..Len(s)) = Len(s)
    BY <1>1, FS_Interval
  <1>3. f \in Surjection(1..Len(s), ToSet(s))
    <2>1. DOMAIN s = 1..Len(s)
      OBVIOUS
    <2>2. QED
      BY <2>1 DEF Surjection, ToSet
  <1> HIDE DEF f
  <1>4. IsFiniteSet(ToSet(s)) /\ Cardinality(ToSet(s)) <= Len(s)
    BY <1>2, <1>3, FS_Surjection
  <1>5. QED
    BY <1>4, FS_CardinalityType

\* Of a chunk, what matters here.
ChunkOf(c, S, list, size) ==
    /\ ToSet(c) \subseteq ToSet(list)
    /\ IsFiniteSet(ToSet(c)) /\ Cardinality(ToSet(c)) <= size

LEMMA ChunksCover ==
    ASSUME NEW S, NEW list \in Seq(S), NEW size \in Nat \ {0}
    PROVE  /\ \A c \in Chunks(list, size) : ChunkOf(c, S, list, size)
           /\ \A x \in ToSet(list) : \E c \in Chunks(list, size) : x \in ToSet(c)
  <1> DEFINE last(i) == IF i + size > Len(list) THEN Len(list) ELSE i + size - 1
             chunk(i) == SubSeq(list, i, last(i))
  <1>1. DOMAIN list = 1..Len(list) /\ Len(list) \in Nat
    OBVIOUS
  <1>2. Chunks(list, size) = {chunk(i) : i \in {j \in DOMAIN list : Starts(j, size)}}
    BY DEF Chunks, Starts
  <1>3. ASSUME NEW i \in DOMAIN list
        PROVE  /\ chunk(i) \in Seq(S) /\ Len(chunk(i)) = last(i) - i + 1 /\ Len(chunk(i)) <= size
               /\ \A k \in 1..Len(chunk(i)) : chunk(i)[k] = list[i + k - 1]
               /\ last(i) \in Nat /\ i <= last(i) /\ last(i) <= Len(list)
    <2>1. i \in 1..Len(list) + 1 /\ i \in Nat /\ last(i) \in Nat /\ i <= last(i) /\ last(i) <= Len(list)
          /\ last(i) - i + 1 <= size /\ last(i) \in (i - 1)..Len(list)
      BY <1>1
    <2> HIDE DEF last
    <2>2. /\ SubSeq(list, i, last(i)) \in Seq(S)
          /\ Len(SubSeq(list, i, last(i))) = last(i) - i + 1
          /\ \A k \in 1..last(i) - i + 1 : SubSeq(list, i, last(i))[k] = list[i + k - 1]
      BY <2>1, SubSeqProperties
    <2>3. QED
      BY <2>1, <2>2
  <1>4. ASSUME NEW i \in DOMAIN list PROVE ChunkOf(chunk(i), S, list, size)
    <2>1. ToSet(chunk(i)) \subseteq ToSet(list)
      <3> HIDE DEF chunk, last
      <3>1. /\ DOMAIN chunk(i) = 1..Len(chunk(i)) /\ Len(chunk(i)) = last(i) - i + 1
            /\ last(i) \in Nat /\ last(i) <= Len(list) /\ i \in Nat /\ i >= 1
        BY <1>1, <1>3
      <3>2. \A k \in DOMAIN chunk(i) : i + k - 1 \in DOMAIN list
        BY <1>1, <3>1
      <3>3. \A k \in DOMAIN chunk(i) : chunk(i)[k] = list[i + k - 1]
        BY <1>3, <3>1
      <3>4. QED
        BY <3>2, <3>3 DEF ToSet
    <2> HIDE DEF chunk
    <2>2. IsFiniteSet(ToSet(chunk(i))) /\ Cardinality(ToSet(chunk(i))) <= Len(chunk(i))
          /\ Cardinality(ToSet(chunk(i))) \in Nat /\ Len(chunk(i)) <= size /\ Len(chunk(i)) \in Nat
      BY <1>3, SeqFinite
    <2>3. QED
      BY <2>1, <2>2 DEF ChunkOf
  <1>5. ASSUME NEW x \in ToSet(list) PROVE \E c \in Chunks(list, size) : x \in ToSet(c)
    <2>1. PICK k \in 1..Len(list) : x = list[k]
      BY DEF ToSet
    <2>2. PICK i \in 1..k : Starts(i, size) /\ k < i + size
      <3>1. k \in Nat \ {0}
        BY <2>1
      <3>2. QED
        BY <3>1, StartBefore
    <2>3. i \in DOMAIN list /\ k <= last(i) /\ k - i + 1 \in Nat /\ k - i + 1 >= 1 /\ i + (k - i + 1) - 1 = k
      BY <1>1, <2>1, <2>2
    <2> HIDE DEF chunk, last
    <2>4. k - i + 1 \in DOMAIN chunk(i) /\ chunk(i)[k - i + 1] = list[k]
      <3>1. /\ DOMAIN chunk(i) = 1..Len(chunk(i)) /\ Len(chunk(i)) = last(i) - i + 1
            /\ last(i) \in Nat /\ i \in Nat /\ k \in Nat
        BY <1>1, <1>3, <2>1, <2>3
      <3>2. k - i + 1 \in 1..Len(chunk(i))
        BY <2>3, <3>1
      <3>3. chunk(i)[k - i + 1] = list[i + (k - i + 1) - 1]
        BY <1>3, <2>3, <3>2
      <3>4. QED
        BY <2>3, <3>1, <3>2, <3>3
    <2>5. x \in ToSet(chunk(i))
      BY <2>1, <2>4 DEF ToSet
    <2>6. QED
      BY <1>2, <2>2, <2>3, <2>5
  <1> HIDE DEF chunk
  <1>6. QED
    BY <1>2, <1>4, <1>5

(***************************************************************************)
(* The messages of a publication: together all of its blocks. And the      *)
(* batches of a message: together the message.                             *)
(***************************************************************************)
Publication == UNION Publications

Most == IF QueueBatch > TableBatch THEN QueueBatch ELSE TableBatch

LEMMA AllBlocksAre ==
    ASSUME NEW p \in Publication
    PROVE  /\ AllBlocks(p) \in Seq(Block)
           /\ ToSet(AllBlocks(p)) = UNION {ToSet(p.shards[i].blocks) : i \in DOMAIN p.shards}
           /\ \A i \in DOMAIN p.shards : p.shards[i].blocks \in Seq(Block)
  <1> DEFINE lists == [i \in DOMAIN p.shards |-> p.shards[i].blocks]
  <1>1. p.shards \in Seq([location : Location, blocks : Seq(Block)])
    BY IndexAssumption DEF Publication
  <1>2. \A i \in DOMAIN p.shards : p.shards[i].blocks \in Seq(Block)
    <2> DEFINE lists0 == Seq(Block)
               shard == [location : Location, blocks : lists0]
    <2>1. p.shards \in Seq(shard)
      BY <1>1
    <2> HIDE DEF shard
    <2>2. \A i \in DOMAIN p.shards : p.shards[i] \in shard
      BY <2>1
    <2> HIDE DEF lists0
    <2>3. \A x \in shard : x.blocks \in lists0
      BY DEF shard
    <2>4. QED
      BY <2>2, <2>3 DEF lists0
  <1>3. lists \in Seq(Seq(Block)) /\ DOMAIN lists = DOMAIN p.shards
    <2>1. DOMAIN p.shards = 1..Len(p.shards) /\ Len(p.shards) \in Nat
      BY <1>1
    <2>2. QED
      BY <1>2, <2>1
  <1>4. AllBlocks(p) = FlattenSeq(lists)
    BY DEF AllBlocks
  <1>5. {ToSet(lists[i]) : i \in DOMAIN lists} = {ToSet(p.shards[i].blocks) : i \in DOMAIN p.shards}
    BY <1>3
  <1> HIDE DEF lists
  <1>6. QED
    BY <1>2, <1>3, <1>4, <1>5, Flattened

\* Messages that are together of all those items, and of no others.
MakeUp(messages, items) ==
    /\ \A m \in messages : IsFiniteSet(m) /\ m \subseteq items
    /\ \A i \in items : \E m \in messages : i \in m

LEMMA ItemsFinite ==
    ASSUME NEW to, NEW location, NEW blocks, IsFiniteSet(ToSet(blocks))
    PROVE  IsFiniteSet(ItemsIn(to, location, blocks))
  <1> DEFINE S == ToSet(blocks)
             T == ItemsIn(to, location, blocks)
             f == [b \in S |-> Item(to, location, b)]
  <1>1. f \in Surjection(S, T)
    BY DEF Surjection, ItemsIn
  <1> HIDE DEF f
  <1>2. QED
    BY <1>1, FS_Surjection

LEMMA AdvertsAreAll == ASSUME NEW p \in Publication PROVE MakeUp(Adverts(p), ItemsOfAdverts(p))
  <1> DEFINE chunks == Chunks(AllBlocks(p), MaxDigests)
             blocks == ToSet(AllBlocks(p))
  <1>1. /\ \A c \in chunks : ToSet(c) \subseteq blocks /\ IsFiniteSet(ToSet(c))
        /\ \A x \in blocks : \E c \in chunks : x \in ToSet(c)
    <2>1. AllBlocks(p) \in Seq(Block) /\ MaxDigests \in Nat \ {0}
      BY AllBlocksAre, IndexAssumption
    <2>2. QED
      BY <2>1, ChunksCover DEF ChunkOf
  <1>2. ItemsOfAdverts(p) = {Item("advert", Everywhere, b) : b \in blocks}
    BY AllBlocksAre DEF ItemsOfAdverts, ItemsIn
  <1>3. Adverts(p) = {ItemsIn("advert", Everywhere, c) : c \in chunks}
    BY DEF Adverts
  <1> HIDE DEF chunks, blocks
  <1>4. ASSUME NEW m \in Adverts(p) PROVE IsFiniteSet(m) /\ m \subseteq ItemsOfAdverts(p)
    <2>1. PICK c \in chunks : m = ItemsIn("advert", Everywhere, c)
      BY <1>3
    <2>2. m \subseteq ItemsOfAdverts(p)
      BY <1>1, <1>2, <2>1 DEF ItemsIn
    <2>3. QED
      BY <1>1, <2>1, <2>2, ItemsFinite
  <1>5. ASSUME NEW i \in ItemsOfAdverts(p) PROVE \E m \in Adverts(p) : i \in m
    <2>1. PICK b \in blocks : i = Item("advert", Everywhere, b)
      BY <1>2
    <2>2. PICK c \in chunks : b \in ToSet(c)
      BY <1>1
    <2>3. i \in ItemsIn("advert", Everywhere, c)
      BY <2>1, <2>2 DEF ItemsIn
    <2>4. QED
      BY <1>3, <2>3
  <1>6. QED
    BY <1>4, <1>5 DEF MakeUp

LEMMA IndexMessagesAreAll == ASSUME NEW p \in Publication PROVE MakeUp(IndexMessages(p), ItemsOfIndex(p))
  <1> DEFINE list(i) == p.shards[i].blocks
             chunks(i) == Chunks(p.shards[i].blocks, MaxEntries)
             place(i) == p.shards[i].location
             D == DOMAIN p.shards
  <1>1. ASSUME NEW i \in D
        PROVE  /\ \A c \in chunks(i) : ToSet(c) \subseteq ToSet(list(i)) /\ IsFiniteSet(ToSet(c))
               /\ \A x \in ToSet(list(i)) : \E c \in chunks(i) : x \in ToSet(c)
    <2>1. list(i) \in Seq(Block) /\ MaxEntries \in Nat \ {0}
      BY AllBlocksAre, IndexAssumption
    <2>2. QED
      BY <2>1, ChunksCover DEF ChunkOf
  <1>2. ItemsOfIndex(p) = UNION {ItemsIn("index", place(i), list(i)) : i \in D}
    BY DEF ItemsOfIndex
  <1>3. IndexMessages(p) = UNION {{ItemsIn("index", place(i), c) : c \in chunks(i)} : i \in D}
    BY DEF IndexMessages
  <1> HIDE DEF list, chunks, place, D
  <1>4. ASSUME NEW m \in IndexMessages(p) PROVE IsFiniteSet(m) /\ m \subseteq ItemsOfIndex(p)
    <2>1. PICK i \in D : m \in {ItemsIn("index", place(i), c) : c \in chunks(i)}
      BY <1>3
    <2>2. PICK c \in chunks(i) : m = ItemsIn("index", place(i), c)
      BY <2>1
    <2>3. m \subseteq ItemsIn("index", place(i), list(i))
      BY <1>1, <2>2 DEF ItemsIn
    <2>4. QED
      BY <1>1, <1>2, <2>2, <2>3, ItemsFinite
  <1>5. ASSUME NEW x \in ItemsOfIndex(p) PROVE \E m \in IndexMessages(p) : x \in m
    <2>1. PICK i \in D : x \in ItemsIn("index", place(i), list(i))
      BY <1>2
    <2>2. PICK b \in ToSet(list(i)) : x = Item("index", place(i), b)
      BY <2>1 DEF ItemsIn
    <2>3. PICK c \in chunks(i) : b \in ToSet(c)
      BY <1>1
    <2>4. x \in ItemsIn("index", place(i), c)
      BY <2>2, <2>3 DEF ItemsIn
    <2>5. QED
      BY <1>3, <2>4
  <1>6. QED
    BY <1>4, <1>5 DEF MakeUp

LEMMA SeqOfSet ==
    ASSUME NEW S, IsFiniteSet(S)
    PROVE  SetToSeq(S) \in Seq(S) /\ ToSet(SetToSeq(S)) = S
  <1> DEFINE n == Cardinality(S)
  <1>1. n \in Nat /\ ExistsBijection(1..n, S)
    BY FS_CardinalityType
  <1>2. \E f \in [1..n -> S] : IsInjective(f)
    BY <1>1 DEF ExistsBijection, Bijection, Injection, IsInjective
  <1>3. SetToSeq(S) \in [1..n -> S] /\ IsInjective(SetToSeq(S))
    BY <1>2 DEF SetToSeq
  <1> DEFINE s == SetToSeq(S)
             taken == {s[i] : i \in 1..n}
  <1> HIDE DEF s
  <1>4. s \in Seq(S) /\ DOMAIN s = 1..n
    BY <1>1, <1>3 DEF s
  <1>5. ExistsBijection(1..n, taken)
    <2>1. s \in Bijection(1..n, taken)
      BY <1>3 DEF Bijection, Injection, Surjection, IsInjective, s
    <2>2. QED
      BY <2>1 DEF ExistsBijection
  <1>6. IsFiniteSet(taken) /\ Cardinality(taken) = n
    <2>1. 1 \in Int /\ n \in Int
      BY <1>1
    <2> HIDE DEF taken, n
    <2>2. IsFiniteSet(1..n) /\ Cardinality(taken) = n
      BY <1>1, <1>5, <2>1, FS_CountingElements, FS_Interval
    <2>3. QED
      BY <1>5, <2>2, FS_Bijection
  <1>7. taken \subseteq S
    BY <1>3 DEF s
  <1>8. taken = S
    <2> HIDE DEF taken
    <2>1. QED
      BY <1>6, <1>7, FS_Subset
  <1>9. QED
    BY <1>4, <1>8 DEF ToSet, s

LEMMA BatchesAreAll ==
    ASSUME NEW items, IsFiniteSet(items)
    PROVE  /\ MakeUp(BatchesOf(items), items)
           /\ \A b \in BatchesOf(items) : Cardinality(b) \in Nat /\ Cardinality(b) <= Most
  <1> DEFINE size == IF \E i \in items : i.to = "advert" THEN QueueBatch ELSE TableBatch
             list == SetToSeq(items)
  <1>1. size \in Nat \ {0} /\ size <= Most /\ Most \in Nat
    BY IndexAssumption DEF Most
  <1>2. BatchesOf(items) = {ToSet(c) : c \in Chunks(list, size)}
    BY DEF BatchesOf
  <1>3. list \in Seq(items) /\ ToSet(list) = items
    BY SeqOfSet
  <1> HIDE DEF size, list
  <1>4. /\ \A c \in Chunks(list, size) :
             ToSet(c) \subseteq items /\ IsFiniteSet(ToSet(c)) /\ Cardinality(ToSet(c)) <= size
        /\ \A x \in items : \E c \in Chunks(list, size) : x \in ToSet(c)
    BY <1>1, <1>3, ChunksCover DEF ChunkOf
  <1>5. ASSUME NEW b \in BatchesOf(items)
        PROVE  IsFiniteSet(b) /\ b \subseteq items /\ Cardinality(b) \in Nat /\ Cardinality(b) <= Most
    <2>1. IsFiniteSet(b) /\ b \subseteq items /\ Cardinality(b) <= size
      BY <1>2, <1>4
    <2>2. Cardinality(b) \in Nat
      BY <2>1, FS_CardinalityType
    <2>3. QED
      BY <1>1, <2>1, <2>2
  <1>6. QED
    BY <1>2, <1>4, <1>5 DEF MakeUp

(***************************************************************************)
(* The invariant of a publication. What is still to be sent, and what the  *)
(* messages under way are of, may be sent: it is of the adverts, or the    *)
(* adverts are all taken in. An item of a message under way was written,   *)
(* was given up, or is in a batch that is left. And each failure costs a   *)
(* batch at most.                                                          *)
(***************************************************************************)
Items == UNION {ItemsOfAdverts(p) \union ItemsOfIndex(p) : p \in Publication}

Step == [pc : {"new", "adverts", "index", "error", "ok"}, left : SUBSET (SUBSET Items)]

NoticeType ==
    [of : Publication, items : SUBSET Items, copy : {1, 2},
     left : SUBSET (SUBSET Items), lost : SUBSET Items]

IndexTyped ==
    /\ DOMAIN publishing \in Publications
    /\ publishing \in [DOMAIN publishing -> Step]
    /\ notices \subseteq NoticeType
    /\ indexFaults \in Nat

Wrote(i) == IF i.to = "advert" THEN i.block \in multihashes ELSE i \in positions

AdvertsTaken(p) == \A i \in ItemsOfAdverts(p) : TakenIn(i)

MaySend(p, items) ==
    \/ items \in Adverts(p)
    \/ p.legacy /\ items \in IndexMessages(p) /\ AdvertsTaken(p)

\* Taken in, or still to be sent.
TakenOrLeft(p, items) ==
    \A i \in items : TakenIn(i) \/ \E m \in publishing[p].left : i \in m

PublishInv(p) ==
    /\ \A items \in publishing[p].left : MaySend(p, items)
    /\ publishing[p].pc = "adverts" => TakenOrLeft(p, ItemsOfAdverts(p))
    /\ publishing[p].pc = "index" =>
         p.legacy /\ AdvertsTaken(p) /\ TakenOrLeft(p, ItemsOfIndex(p))
    /\ publishing[p].pc = "ok" =>
         AdvertsTaken(p) /\ (p.legacy => \A i \in ItemsOfIndex(p) : TakenIn(i))

NoticeInv(m) ==
    /\ m.of \in DOMAIN publishing
    /\ MaySend(m.of, m.items)
    /\ \A i \in m.items : Wrote(i) \/ i \in m.lost \/ \E b \in m.left : i \in b
    /\ \A b \in m.left :
         b \subseteq m.items /\ IsFiniteSet(b) /\ Cardinality(b) \in Nat /\ Cardinality(b) <= Most

PositionInv(i) ==
    \E p \in DOMAIN publishing : p.legacy /\ i \in ItemsOfIndex(p) /\ AdvertsTaken(p)

Losses == givenUp \union UNION {m.lost : m \in notices}

LossesInv ==
    IsFiniteSet(Losses) /\ Cardinality(Losses) \in Nat /\ Cardinality(Losses) <= indexFaults * Most

IndexInv ==
    /\ IndexTyped
    /\ \A p \in DOMAIN publishing : PublishInv(p)
    /\ \A m \in notices : NoticeInv(m)
    /\ \A i \in positions : PositionInv(i)
    /\ LossesInv

LEMMA ItemsAre ==
    ASSUME NEW p \in Publication
    PROVE  /\ ItemsOfAdverts(p) \subseteq Items /\ ItemsOfIndex(p) \subseteq Items
           /\ \A i \in ItemsOfAdverts(p) : i.to = "advert"
           /\ \A i \in ItemsOfIndex(p) : i.to = "index"
           /\ \A m \in Adverts(p) : m \subseteq ItemsOfAdverts(p) /\ m \subseteq Items /\ IsFiniteSet(m)
           /\ \A m \in IndexMessages(p) : m \subseteq ItemsOfIndex(p) /\ m \subseteq Items /\ IsFiniteSet(m)
           /\ \A i \in ItemsOfAdverts(p) : \E m \in Adverts(p) : i \in m
           /\ \A i \in ItemsOfIndex(p) : \E m \in IndexMessages(p) : i \in m
  <1>1. ItemsOfAdverts(p) \subseteq Items /\ ItemsOfIndex(p) \subseteq Items
    BY DEF Items
  <1>2. \A i \in ItemsOfAdverts(p) : i.to = "advert"
    BY DEF ItemsOfAdverts, ItemsIn, Item
  <1>3. \A i \in ItemsOfIndex(p) : i.to = "index"
    BY DEF ItemsOfIndex, ItemsIn, Item
  <1>4. MakeUp(Adverts(p), ItemsOfAdverts(p)) /\ MakeUp(IndexMessages(p), ItemsOfIndex(p))
    BY AdvertsAreAll, IndexMessagesAreAll
  <1>5. QED
    BY <1>1, <1>2, <1>3, <1>4 DEF MakeUp

LEMMA MayBeSent ==
    ASSUME NEW p \in Publication, NEW items, MaySend(p, items)
    PROVE  /\ items \subseteq Items /\ IsFiniteSet(items)
           /\ \A i \in items : i.to \in {"advert", "index"}
           /\ \A i \in items : i.to = "index" => p.legacy /\ i \in ItemsOfIndex(p) /\ AdvertsTaken(p)
  BY ItemsAre DEF MaySend

\* A message as it is received.
LEMMA NoticeIs ==
    ASSUME NEW p \in Publication, NEW items \in SUBSET Items, IsFiniteSet(items), NEW copy \in {1, 2}
    PROVE  /\ Notice(p, items, copy) \in NoticeType
           /\ Notice(p, items, copy).of = p /\ Notice(p, items, copy).items = items
           /\ Notice(p, items, copy).lost = {}
           /\ \A i \in items : \E b \in Notice(p, items, copy).left : i \in b
           /\ \A b \in Notice(p, items, copy).left :
                b \subseteq items /\ IsFiniteSet(b) /\ Cardinality(b) \in Nat /\ Cardinality(b) <= Most
  <1>1. /\ MakeUp(BatchesOf(items), items)
        /\ \A b \in BatchesOf(items) : Cardinality(b) \in Nat /\ Cardinality(b) <= Most
    BY BatchesAreAll
  <1>2. BatchesOf(items) \in SUBSET (SUBSET Items)
    BY <1>1 DEF MakeUp
  <1>3. Notice(p, items, copy) \in NoticeType
    BY <1>2 DEF Notice, NoticeType
  <1>4. /\ Notice(p, items, copy).of = p /\ Notice(p, items, copy).items = items
        /\ Notice(p, items, copy).lost = {} /\ Notice(p, items, copy).left = BatchesOf(items)
    BY DEF Notice
  <1>5. QED
    BY <1>1, <1>3, <1>4 DEF MakeUp

(***************************************************************************)
(* What was written is kept, and what was taken in stays so: a message is  *)
(* deleted when all of it was written or given up.                         *)
(***************************************************************************)
LEMMA SendsKeep ==
    ASSUME NEW p, SendFails(p) \/ \E items \in publishing[p].left : SendNotice(p, items)
    PROVE  /\ notices \subseteq notices'
           /\ UNCHANGED <<multihashes, positions, givenUp>>
  BY DEF SendFails, SendNotice

LEMMA WritesKeep ==
    ASSUME NEW m \in notices, WriteBatch(m), IndexTyped
    PROVE  /\ multihashes \subseteq multihashes' /\ positions \subseteq positions'
           /\ UNCHANGED <<publishing, givenUp, indexFaults>>
           /\ \E batch \in m.left : \E done \in SUBSET batch \ {{}} : \E n \in NoticeType :
                /\ \A i \in done : (i.to = "advert" => i.block \in multihashes') /\ (i.to = "index" => i \in positions')
                /\ positions' = positions \union {i \in done : i.to = "index"}
                /\ notices' = (notices \ {m}) \union {n}
                /\ n.of = m.of /\ n.items = m.items /\ n.copy = m.copy /\ n.lost = m.lost
                /\ n.left = (m.left \ {batch}) \union ({batch \ done} \ {{}})
  <1>1. PICK batch \in m.left : \E done \in SUBSET batch \ {{}} :
          /\ Written(done)
          /\ notices' = (notices \ {m}) \union
               {[m EXCEPT !.left = (@ \ {batch}) \union ({Retried(batch, done)} \ {{}})]}
    BY DEF WriteBatch
  <1>2. PICK done \in SUBSET batch \ {{}} :
          /\ Written(done)
          /\ notices' = (notices \ {m}) \union
               {[m EXCEPT !.left = (@ \ {batch}) \union ({Retried(batch, done)} \ {{}})]}
    BY <1>1
  <1> DEFINE left == (m.left \ {batch}) \union ({batch \ done} \ {{}})
             n == [m EXCEPT !.left = left]
  <1>3. m \in NoticeType
    BY DEF IndexTyped
  <1>4. left \in SUBSET (SUBSET Items)
    BY <1>3, <1>1 DEF NoticeType
  <1>5. n \in NoticeType /\ n.of = m.of /\ n.items = m.items /\ n.copy = m.copy /\ n.lost = m.lost /\ n.left = left
    <2> DEFINE L == SUBSET (SUBSET Items)
               I == SUBSET Items
    <2>1. m \in [of : Publication, items : I, copy : {1, 2}, left : L, lost : I] /\ left \in L
      BY <1>3, <1>4 DEF NoticeType
    <2> HIDE DEF L, I, left
    <2>2. n \in [of : Publication, items : I, copy : {1, 2}, left : L, lost : I]
          /\ n.of = m.of /\ n.items = m.items /\ n.copy = m.copy /\ n.lost = m.lost /\ n.left = left
      BY <2>1
    <2>3. QED
      BY <2>2 DEF L, I, NoticeType
  <1>6. notices' = (notices \ {m}) \union {n}
    BY <1>2 DEF Retried
  <1>7. /\ multihashes' = multihashes \union {i.block : i \in {j \in done : j.to = "advert"}}
        /\ positions' = positions \union {i \in done : i.to = "index"}
    BY <1>2 DEF Written
  <1>8. \A i \in done : (i.to = "advert" => i.block \in multihashes') /\ (i.to = "index" => i \in positions')
    BY <1>7
  <1>9. UNCHANGED <<publishing, givenUp, indexFaults>>
    BY DEF WriteBatch
  <1> HIDE DEF n
  <1>10. QED
    BY <1>1, <1>5, <1>6, <1>7, <1>8, <1>9

LEMMA FailsKeep ==
    ASSUME NEW m \in notices, BatchFails(m), IndexTyped
    PROVE  /\ UNCHANGED <<publishing, multihashes, positions, givenUp>> /\ indexFaults' = indexFaults + 1
           /\ \E batch \in m.left : \E n \in NoticeType :
                /\ notices' = (notices \ {m}) \union {n}
                /\ n.of = m.of /\ n.items = m.items /\ n.copy = m.copy
                /\ n.left = m.left \ {batch} /\ n.lost = m.lost \union batch
  <1>1. PICK batch \in m.left :
          notices' = (notices \ {m}) \union {[m EXCEPT !.left = @ \ {batch}, !.lost = @ \union batch]}
    BY DEF BatchFails
  <1> DEFINE n == [m EXCEPT !.left = @ \ {batch}, !.lost = @ \union batch]
  <1>2. m \in NoticeType
    BY DEF IndexTyped
  <1>3. n \in NoticeType /\ n.of = m.of /\ n.items = m.items /\ n.copy = m.copy
        /\ n.left = m.left \ {batch} /\ n.lost = m.lost \union batch
    <2> DEFINE L == SUBSET (SUBSET Items)
               I == SUBSET Items
    <2>1. /\ m \in [of : Publication, items : I, copy : {1, 2}, left : L, lost : I]
          /\ m.left \ {batch} \in L /\ m.lost \union batch \in I
      BY <1>1, <1>2 DEF NoticeType
    <2> HIDE DEF L, I
    <2>2. n \in [of : Publication, items : I, copy : {1, 2}, left : L, lost : I]
          /\ n.of = m.of /\ n.items = m.items /\ n.copy = m.copy
          /\ n.left = m.left \ {batch} /\ n.lost = m.lost \union batch
      BY <2>1
    <2>3. QED
      BY <2>2 DEF L, I, NoticeType
  <1>4. notices' = (notices \ {m}) \union {n}
    BY <1>1
  <1>5. UNCHANGED <<publishing, multihashes, positions, givenUp>> /\ indexFaults' = indexFaults + 1
    BY DEF BatchFails, IndexFault
  <1> HIDE DEF n
  <1>6. QED
    BY <1>1, <1>3, <1>4, <1>5

LEMMA DyingKeeps ==
    ASSUME NEW m \in notices, InvocationDies(m), IndexTyped, NoticeInv(m)
    PROVE  /\ UNCHANGED <<publishing, multihashes, positions, givenUp>> /\ indexFaults' = indexFaults + 1
           /\ notices' = (notices \ {m}) \union {Notice(m.of, m.items, m.copy)}
           /\ Notice(m.of, m.items, m.copy) \in NoticeType
           /\ Notice(m.of, m.items, m.copy).of = m.of
           /\ Notice(m.of, m.items, m.copy).items = m.items
           /\ Notice(m.of, m.items, m.copy).lost = {}
           /\ \A i \in m.items : \E b \in Notice(m.of, m.items, m.copy).left : i \in b
           /\ \A b \in Notice(m.of, m.items, m.copy).left :
                b \subseteq m.items /\ IsFiniteSet(b) /\ Cardinality(b) \in Nat /\ Cardinality(b) <= Most
  <1>1. /\ UNCHANGED <<publishing, multihashes, positions, givenUp>> /\ indexFaults' = indexFaults + 1
        /\ notices' = (notices \ {m}) \union {Notice(m.of, m.items, m.copy)}
    BY DEF InvocationDies, IndexFault
  <1>2. m.of \in Publication /\ m.items \in SUBSET Items /\ m.copy \in {1, 2}
    BY DEF IndexTyped, NoticeType
  <1>3. IsFiniteSet(m.items)
    BY <1>2, MayBeSent DEF NoticeInv
  <1>4. QED
    BY <1>1, <1>2, <1>3, NoticeIs

\* A message that is still there, or another of the same items.
LEMMA Kept ==
    ASSUME IndexTyped, \A m \in notices : NoticeInv(m), IndexNext
    PROVE  /\ \A i : Wrote(i) => Wrote(i)'
           /\ \A i : TakenIn(i) => TakenIn(i)'
  <1> SUFFICES ASSUME NEW i PROVE (Wrote(i) => Wrote(i)') /\ (TakenIn(i) => TakenIn(i)')
    OBVIOUS
  <1>1. ASSUME notices \subseteq notices', UNCHANGED <<multihashes, positions, givenUp>>
        PROVE  (Wrote(i) => Wrote(i)') /\ (TakenIn(i) => TakenIn(i)')
    BY <1>1 DEF Wrote, TakenIn
  <1>2. ASSUME NEW m \in notices, NEW n, n.items = m.items, notices' = (notices \ {m}) \union {n},
               multihashes \subseteq multihashes', positions \subseteq positions', UNCHANGED givenUp
        PROVE  (Wrote(i) => Wrote(i)') /\ (TakenIn(i) => TakenIn(i)')
    <2>1. Wrote(i) => Wrote(i)'
      BY <1>2 DEF Wrote
    <2>2. (\E k \in notices : i \in k.items) => \E k \in notices' : i \in k.items
      BY <1>2
    <2>3. QED
      BY <1>2, <2>1, <2>2 DEF TakenIn, Wrote
  <1>3. ASSUME NEW p, PublishAdverts(p) \/ PublishIndex(p) \/ AnswerPublish(p)
        PROVE  (Wrote(i) => Wrote(i)') /\ (TakenIn(i) => TakenIn(i)')
    BY <1>1, <1>3 DEF PublishAdverts, PublishIndex, AnswerPublish
  <1>4. ASSUME NEW p, SendFails(p) \/ \E items \in publishing[p].left : SendNotice(p, items)
        PROVE  (Wrote(i) => Wrote(i)') /\ (TakenIn(i) => TakenIn(i)')
    BY <1>1, <1>4, SendsKeep
  <1>5. ASSUME NEW m \in notices, WriteBatch(m)
        PROVE  (Wrote(i) => Wrote(i)') /\ (TakenIn(i) => TakenIn(i)')
    BY <1>2, <1>5, WritesKeep
  <1>6. ASSUME NEW m \in notices, BatchFails(m)
        PROVE  (Wrote(i) => Wrote(i)') /\ (TakenIn(i) => TakenIn(i)')
    BY <1>2, <1>6, FailsKeep
  <1>7. ASSUME NEW m \in notices, InvocationDies(m)
        PROVE  (Wrote(i) => Wrote(i)') /\ (TakenIn(i) => TakenIn(i)')
    BY <1>2, <1>7, DyingKeeps
  <1>8. ASSUME NEW m \in notices, HandlerEnds(m)
        PROVE  (Wrote(i) => Wrote(i)') /\ (TakenIn(i) => TakenIn(i)')
    <2>1. /\ notices' = notices \ {m} /\ givenUp' = givenUp \union m.lost /\ m.left = {}
          /\ UNCHANGED <<multihashes, positions>>
      BY <1>8 DEF HandlerEnds
    <2>2. Wrote(i) => Wrote(i)'
      BY <2>1 DEF Wrote
    <2>3. i \in m.items => Wrote(i) \/ i \in m.lost
      BY <2>1 DEF NoticeInv
    <2>4. QED
      BY <2>1, <2>3 DEF TakenIn, Wrote
  <1>9. QED
    BY <1>3, <1>4, <1>5, <1>6, <1>7, <1>8 DEF IndexNext

\* What the invariant says of a part that a step leaves alone.
LEMMA Carried ==
    ASSUME \A i : Wrote(i) => Wrote(i)', \A i : TakenIn(i) => TakenIn(i)',
           DOMAIN publishing' = DOMAIN publishing
    PROVE  /\ \A p : AdvertsTaken(p) => AdvertsTaken(p)'
           /\ \A p, items : MaySend(p, items) => MaySend(p, items)'
           /\ \A p : publishing'[p] = publishing[p] /\ PublishInv(p) => PublishInv(p)'
           /\ \A m : NoticeInv(m) => NoticeInv(m)'
           /\ \A i : PositionInv(i) => PositionInv(i)'
  <1>1. \A p : AdvertsTaken(p) => AdvertsTaken(p)'
    BY DEF AdvertsTaken
  <1>2. \A p, items : MaySend(p, items) => MaySend(p, items)'
    BY <1>1 DEF MaySend
  <1>3. ASSUME NEW p, publishing'[p] = publishing[p], PublishInv(p) PROVE PublishInv(p)'
    <2>1. \A items : TakenOrLeft(p, items) => TakenOrLeft(p, items)'
      BY <1>3 DEF TakenOrLeft
    <2>2. QED
      BY <1>1, <1>2, <1>3, <2>1 DEF PublishInv
  <1>4. \A m : NoticeInv(m) => NoticeInv(m)'
    BY <1>2 DEF NoticeInv
  <1>5. \A i : PositionInv(i) => PositionInv(i)'
    BY <1>1 DEF PositionInv
  <1>6. QED
    BY <1>1, <1>2, <1>3, <1>4, <1>5

(***************************************************************************)
(* The steps, one by one.                                                  *)
(***************************************************************************)
\* A step of a call of publish: p goes on to s, and notices gains new messages.
LEMMA Publishes ==
    ASSUME IndexInv, IndexNext, NEW p \in DOMAIN publishing, NEW s \in Step,
           publishing' = [publishing EXCEPT ![p] = s],
           notices \subseteq notices', indexFaults' \in Nat, indexFaults' >= indexFaults,
           UNCHANGED <<positions, givenUp>>,
           \A n \in notices' \ notices : n \in NoticeType /\ NoticeInv(n)' /\ n.lost = {},
           PublishInv(p)'
    PROVE  IndexInv'
  <1>1. DOMAIN publishing' = DOMAIN publishing /\ publishing' \in [DOMAIN publishing -> Step]
        /\ \A q \in DOMAIN publishing : q # p => publishing'[q] = publishing[q]
    BY DEF IndexInv, IndexTyped
  <1>2. (\A i : Wrote(i) => Wrote(i)') /\ (\A i : TakenIn(i) => TakenIn(i)')
    BY Kept DEF IndexInv
  <1>3. IndexTyped'
    BY <1>1 DEF IndexInv, IndexTyped
  <1>4. \A q \in DOMAIN publishing' : PublishInv(q)'
    BY <1>1, <1>2, Carried DEF IndexInv
  <1>5. \A m \in notices' : NoticeInv(m)'
    BY <1>1, <1>2, Carried DEF IndexInv
  <1>6. \A i \in positions' : PositionInv(i)'
    BY <1>1, <1>2, Carried DEF IndexInv
  <1>7. LossesInv'
    <2>1. Losses' = Losses
      BY DEF Losses
    <2>2. Most \in Nat /\ indexFaults \in Nat
      BY IndexAssumption DEF Most, IndexInv, IndexTyped
    <2>3. indexFaults * Most <= indexFaults' * Most
      <3>1. \A a, b, c \in Nat : b >= a => a * c <= b * c
        OBVIOUS
      <3>2. QED
        BY <2>2, <3>1
    <2>4. indexFaults * Most \in Nat /\ indexFaults' * Most \in Nat
      BY <2>2
    <2>5. LossesInv
      BY DEF IndexInv
    <2>6. IsFiniteSet(Losses') /\ Cardinality(Losses') \in Nat /\ Cardinality(Losses') <= indexFaults' * Most
      BY <2>1, <2>3, <2>4, <2>5 DEF LossesInv
    <2>7. QED
      BY <2>6 DEF LossesInv
  <1>8. QED
    BY <1>3, <1>4, <1>5, <1>6, <1>7 DEF IndexInv

\* A step of a handler: m is gone, and n is there, or nothing.
LEMMA Handles ==
    ASSUME IndexInv, IndexNext, NEW m \in notices, NEW N, N \subseteq NoticeType,
           notices' = (notices \ {m}) \union N, UNCHANGED publishing, indexFaults' \in Nat,
           \A n \in N : NoticeInv(n)',
           \A i \in positions' \ positions : PositionInv(i)',
           LossesInv'
    PROVE  IndexInv'
  <1>1. (\A i : Wrote(i) => Wrote(i)') /\ (\A i : TakenIn(i) => TakenIn(i)')
    BY Kept DEF IndexInv
  <1>2. DOMAIN publishing' = DOMAIN publishing
    OBVIOUS
  <1>3. IndexTyped'
    BY DEF IndexInv, IndexTyped
  <1>4. \A q \in DOMAIN publishing' : PublishInv(q)'
    BY <1>1, <1>2, Carried DEF IndexInv
  <1>5. \A k \in notices' : NoticeInv(k)'
    BY <1>1, <1>2, Carried DEF IndexInv
  <1>6. \A i \in positions' : PositionInv(i)'
    BY <1>1, <1>2, Carried DEF IndexInv
  <1>7. QED
    BY <1>3, <1>4, <1>5, <1>6 DEF IndexInv

LEMMA StepOf ==
    ASSUME IndexInv, NEW p \in DOMAIN publishing, NEW s, publishing' = [publishing EXCEPT ![p] = s]
    PROVE  publishing'[p] = s /\ DOMAIN publishing' = DOMAIN publishing /\ p \in Publication
  BY DEF IndexInv, IndexTyped, Publication

LEMMA PublishAdvertsKeeps ==
    ASSUME IndexInv, IndexNext, NEW p \in DOMAIN publishing, PublishAdverts(p)
    PROVE  IndexInv'
  <1> DEFINE s == [pc |-> "adverts", left |-> Adverts(p)]
  <1>1. publishing' = [publishing EXCEPT ![p] = s]
        /\ UNCHANGED <<notices, multihashes, positions, givenUp, indexFaults>>
    BY DEF PublishAdverts, PublishStep
  <1>2. p \in Publication /\ publishing'[p] = s
    BY <1>1, StepOf
  <1>3. s \in Step
    BY <1>2, ItemsAre DEF Step
  <1>4. PublishInv(p)'
    <2>1. \A items \in publishing'[p].left : MaySend(p, items)'
      BY <1>2 DEF MaySend
    <2>2. TakenOrLeft(p, ItemsOfAdverts(p))'
      BY <1>2, ItemsAre DEF TakenOrLeft
    <2>3. publishing'[p].pc = "adverts"
      BY <1>2
    <2>4. QED
      BY <2>1, <2>2, <2>3 DEF PublishInv
  <1>5. indexFaults' \in Nat /\ indexFaults' >= indexFaults
    BY <1>1 DEF IndexInv, IndexTyped
  <1> HIDE DEF s
  <1>6. QED
    BY <1>1, <1>3, <1>4, <1>5, Publishes

LEMMA PublishIndexKeeps ==
    ASSUME IndexInv, IndexNext, NEW p \in DOMAIN publishing, PublishIndex(p)
    PROVE  IndexInv'
  <1> DEFINE s == [pc |-> "index", left |-> IndexMessages(p)]
  <1>1. publishing' = [publishing EXCEPT ![p] = s]
        /\ UNCHANGED <<notices, multihashes, positions, givenUp, indexFaults>>
        /\ publishing[p].pc = "adverts" /\ publishing[p].left = {} /\ p.legacy
    BY DEF PublishIndex, PublishStep
  <1>2. p \in Publication /\ publishing'[p] = s /\ DOMAIN publishing' = DOMAIN publishing
    BY <1>1, StepOf
  <1>3. s \in Step
    BY <1>2, ItemsAre DEF Step
  <1>4. AdvertsTaken(p)
    BY <1>1 DEF IndexInv, PublishInv, TakenOrLeft, AdvertsTaken
  <1>5. AdvertsTaken(p)'
    BY <1>2, <1>4, Kept, Carried DEF IndexInv
  <1>6. PublishInv(p)'
    <2>1. \A items \in publishing'[p].left : MaySend(p, items)'
      BY <1>1, <1>2, <1>5 DEF MaySend
    <2>2. TakenOrLeft(p, ItemsOfIndex(p))'
      BY <1>2, ItemsAre DEF TakenOrLeft
    <2>3. publishing'[p].pc = "index"
      BY <1>2
    <2>4. QED
      BY <1>1, <1>5, <2>1, <2>2, <2>3 DEF PublishInv
  <1>7. indexFaults' \in Nat /\ indexFaults' >= indexFaults
    BY <1>1 DEF IndexInv, IndexTyped
  <1> HIDE DEF s
  <1>8. QED
    BY <1>1, <1>3, <1>6, <1>7, Publishes

LEMMA AnswerPublishKeeps ==
    ASSUME IndexInv, IndexNext, NEW p \in DOMAIN publishing, AnswerPublish(p)
    PROVE  IndexInv'
  <1> DEFINE s == [pc |-> "ok", left |-> {}]
  <1>1. publishing' = [publishing EXCEPT ![p] = s]
        /\ UNCHANGED <<notices, multihashes, positions, givenUp, indexFaults>>
        /\ publishing[p].pc = (IF p.legacy THEN "index" ELSE "adverts")
        /\ publishing[p].left = {}
    BY DEF AnswerPublish, PublishStep
  <1>2. p \in Publication /\ publishing'[p] = s /\ DOMAIN publishing' = DOMAIN publishing
    BY <1>1, StepOf
  <1>3. s \in Step
    BY DEF Step
  <1>4. PublishInv(p) /\ (\A i : TakenIn(i) => TakenIn(i)') /\ (\A q : AdvertsTaken(q) => AdvertsTaken(q)')
    BY <1>2, Kept, Carried DEF IndexInv
  <1>5. AdvertsTaken(p) /\ (p.legacy => \A i \in ItemsOfIndex(p) : TakenIn(i))
    <2>1. CASE p.legacy
      BY <1>1, <1>4, <2>1 DEF PublishInv, TakenOrLeft
    <2>2. CASE ~p.legacy
      BY <1>1, <1>4, <2>2 DEF PublishInv, TakenOrLeft, AdvertsTaken
    <2>3. QED
      BY <2>1, <2>2
  <1>6. PublishInv(p)'
    <2>1. publishing'[p].pc = "ok" /\ publishing'[p].left = {}
      BY <1>2
    <2>2. AdvertsTaken(p)' /\ (p.legacy => \A i \in ItemsOfIndex(p) : TakenIn(i)')
      BY <1>4, <1>5
    <2>3. QED
      BY <2>1, <2>2 DEF PublishInv
  <1>7. indexFaults' \in Nat /\ indexFaults' >= indexFaults
    BY <1>1 DEF IndexInv, IndexTyped
  <1> HIDE DEF s
  <1>8. QED
    BY <1>1, <1>3, <1>6, <1>7, Publishes

\* A message that is sent, once or twice.
LEMMA Sent ==
    ASSUME IndexInv, IndexNext, NEW p \in DOMAIN publishing, NEW items \in publishing[p].left,
           NEW copy \in {1, 2}, DOMAIN publishing' = DOMAIN publishing
    PROVE  /\ Notice(p, items, copy) \in NoticeType /\ NoticeInv(Notice(p, items, copy))'
           /\ Notice(p, items, copy).lost = {} /\ Notice(p, items, copy).items = items
  <1>1. p \in Publication /\ MaySend(p, items)
    BY DEF IndexInv, IndexTyped, Publication, PublishInv
  <1>2. items \in SUBSET Items /\ IsFiniteSet(items)
    BY <1>1, MayBeSent
  <1>3. MaySend(p, items)'
    BY <1>1, Kept, Carried DEF IndexInv
  <1> DEFINE n == Notice(p, items, copy)
  <1>4. /\ n \in NoticeType /\ n.of = p /\ n.items = items /\ n.lost = {}
        /\ \A i \in items : \E b \in n.left : i \in b
        /\ \A b \in n.left :
             b \subseteq items /\ IsFiniteSet(b) /\ Cardinality(b) \in Nat /\ Cardinality(b) <= Most
    BY <1>1, <1>2, NoticeIs
  <1> HIDE DEF n
  <1>5. NoticeInv(n)'
    BY <1>3, <1>4 DEF NoticeInv
  <1>6. QED
    BY <1>4, <1>5 DEF n

LEMMA SendNoticeKeeps ==
    ASSUME IndexInv, IndexNext, NEW p \in DOMAIN publishing, NEW items, SendNotice(p, items)
    PROVE  IndexInv'
  <1> DEFINE s == [publishing[p] EXCEPT !.left = @ \ {items}]
  <1>1. items \in publishing[p].left /\ publishing' = [publishing EXCEPT ![p] = s]
        /\ UNCHANGED <<multihashes, positions, givenUp>>
    BY DEF SendNotice
  <1>2. p \in Publication /\ publishing'[p] = s /\ DOMAIN publishing' = DOMAIN publishing
    BY <1>1, StepOf
  <1>3. s \in Step /\ s.pc = publishing[p].pc /\ s.left = publishing[p].left \ {items}
    <2>1. publishing[p] \in Step
      BY DEF IndexInv, IndexTyped
    <2> DEFINE L == SUBSET (SUBSET Items)
               C == {"new", "adverts", "index", "error", "ok"}
    <2>2. publishing[p] \in [pc : C, left : L] /\ publishing[p].left \ {items} \in L
      BY <2>1 DEF Step
    <2> HIDE DEF L, C
    <2>3. s \in [pc : C, left : L] /\ s.pc = publishing[p].pc /\ s.left = publishing[p].left \ {items}
      BY <2>2
    <2>4. QED
      BY <2>3 DEF L, C, Step
  <1>4. \A n \in notices' \ notices : n \in NoticeType /\ NoticeInv(n)' /\ n.lost = {}
    <2>1. notices' \ notices \subseteq {Notice(p, items, 1), Notice(p, items, 2)}
      BY DEF SendNotice
    <2>2. QED
      BY <1>1, <1>2, <2>1, Sent
  <1>5. notices \subseteq notices' /\ \E n \in notices' : n.items = items
    <2>1. notices \subseteq notices' /\ Notice(p, items, 1) \in notices'
      BY DEF SendNotice
    <2>2. QED
      BY <1>1, <1>2, <2>1, Sent
  <1>6. indexFaults' \in Nat /\ indexFaults' >= indexFaults
    BY DEF IndexInv, IndexTyped, SendNotice, IndexFault
  <1> HIDE DEF s
  <1>7. PublishInv(p)'
    <2>1. PublishInv(p) /\ (\A i : TakenIn(i) => TakenIn(i)') /\ (\A q : AdvertsTaken(q) => AdvertsTaken(q)')
          /\ \A q, m : MaySend(q, m) => MaySend(q, m)'
      BY <1>2, Kept, Carried DEF IndexInv
    <2>2. publishing'[p].pc = publishing[p].pc /\ publishing'[p].left = publishing[p].left \ {items}
      BY <1>2, <1>3
    <2>3. \A I : TakenOrLeft(p, I) => TakenOrLeft(p, I)'
      <3> SUFFICES ASSUME NEW I, TakenOrLeft(p, I), NEW i \in I
                   PROVE  TakenIn(i)' \/ \E m \in publishing'[p].left : i \in m
        BY DEF TakenOrLeft
      <3>1. CASE i \in items
        BY <1>5, <3>1 DEF TakenIn
      <3>2. CASE i \notin items
        BY <2>1, <2>2, <3>2 DEF TakenOrLeft
      <3>3. QED
        BY <3>1, <3>2
    <2>4. QED
      <3>1. \A m \in publishing'[p].left : MaySend(p, m)'
        BY <2>1, <2>2 DEF PublishInv
      <3>2. publishing'[p].pc = "adverts" => TakenOrLeft(p, ItemsOfAdverts(p))'
        BY <2>1, <2>2, <2>3 DEF PublishInv
      <3>3. publishing'[p].pc = "index" =>
              p.legacy /\ AdvertsTaken(p)' /\ TakenOrLeft(p, ItemsOfIndex(p))'
        BY <2>1, <2>2, <2>3 DEF PublishInv
      <3>4. publishing'[p].pc = "ok" =>
              AdvertsTaken(p)' /\ (p.legacy => \A i \in ItemsOfIndex(p) : TakenIn(i)')
        BY <2>1, <2>2 DEF PublishInv
      <3>5. QED
        BY <3>1, <3>2, <3>3, <3>4 DEF PublishInv
  <1>8. QED
    BY <1>1, <1>3, <1>4, <1>5, <1>6, <1>7, Publishes

LEMMA SendFailsKeeps ==
    ASSUME IndexInv, IndexNext, NEW p \in DOMAIN publishing, SendFails(p)
    PROVE  IndexInv'
  <1>1. PICK items \in publishing[p].left :
          /\ PublishStep(p, "error", publishing[p].left \ {items})
          /\ notices' \in {notices, notices \union {Notice(p, items, 1)}}
    BY DEF SendFails
  <1> DEFINE s == [pc |-> "error", left |-> publishing[p].left \ {items}]
  <1>2. publishing' = [publishing EXCEPT ![p] = s]
    BY <1>1 DEF PublishStep
  <1>3. p \in Publication /\ publishing'[p] = s /\ DOMAIN publishing' = DOMAIN publishing
    BY <1>2, StepOf
  <1>4. s \in Step
    <2>1. publishing[p] \in Step
      BY DEF IndexInv, IndexTyped
    <2>2. QED
      BY <2>1 DEF Step
  <1>5. \A n \in notices' \ notices : n \in NoticeType /\ NoticeInv(n)' /\ n.lost = {}
    BY <1>1, <1>3, Sent
  <1>6. PublishInv(p)'
    <2>1. PublishInv(p) /\ \A q, m : MaySend(q, m) => MaySend(q, m)'
      BY <1>3, Kept, Carried DEF IndexInv
    <2>2. publishing'[p].pc = "error" /\ publishing'[p].left \subseteq publishing[p].left
      BY <1>3
    <2>3. QED
      BY <2>1, <2>2 DEF PublishInv
  <1>7. /\ indexFaults' \in Nat /\ indexFaults' >= indexFaults /\ notices \subseteq notices'
        /\ UNCHANGED <<multihashes, positions, givenUp>>
    BY <1>1 DEF IndexInv, IndexTyped, SendFails, IndexFault
  <1> HIDE DEF s
  <1>8. QED
    BY <1>2, <1>4, <1>5, <1>6, <1>7, Publishes

LEMMA LossesAre ==
    \A x : x \in Losses <=> x \in givenUp \/ \E m \in notices : x \in m.lost
  BY DEF Losses

\* A failure costs a batch at most.
LEMMA LossesGrow ==
    ASSUME LossesInv, indexFaults \in Nat,
           NEW batch, IsFiniteSet(batch), Cardinality(batch) \in Nat,
           Losses' \subseteq Losses \union batch,
           \/ batch = {} /\ indexFaults' \in {indexFaults, indexFaults + 1}
           \/ Cardinality(batch) <= Most /\ indexFaults' = indexFaults + 1
    PROVE  LossesInv' /\ indexFaults' \in Nat
  <1> DEFINE both == Losses \union batch
             new == Losses'
  <1>1. IsFiniteSet(Losses) /\ Cardinality(Losses) \in Nat /\ Cardinality(Losses) <= indexFaults * Most
    BY DEF LossesInv
  <1>2. IsFiniteSet(both) /\ Cardinality(both) \in Nat /\ Cardinality(both) <= Cardinality(Losses) + Cardinality(batch)
    <2>1. /\ IsFiniteSet(both) /\ IsFiniteSet(Losses \intersect batch)
          /\ Cardinality(both) = Cardinality(Losses) + Cardinality(batch) - Cardinality(Losses \intersect batch)
      BY <1>1, FS_Union, FS_Intersection
    <2>2. Cardinality(Losses \intersect batch) \in Nat /\ Cardinality(both) \in Nat
      BY <2>1, FS_CardinalityType
    <2>3. QED
      BY <1>1, <2>1, <2>2
  <1>3. IsFiniteSet(new) /\ Cardinality(new) \in Nat /\ Cardinality(new) <= Cardinality(both)
    <2>1. new \subseteq both
      OBVIOUS
    <2> HIDE DEF new, both
    <2>2. IsFiniteSet(new) /\ Cardinality(new) <= Cardinality(both)
      BY <1>2, <2>1, FS_Subset
    <2>3. QED
      BY <2>2, FS_CardinalityType
  <1>4. indexFaults' \in Nat /\ Cardinality(new) <= indexFaults' * Most
    <2>1. Most \in Nat
      BY IndexAssumption DEF Most
    <2>2. (indexFaults + 1) * Most = indexFaults * Most + Most /\ indexFaults * Most \in Nat
      BY <2>1
    <2>3. CASE batch = {} /\ indexFaults' \in {indexFaults, indexFaults + 1}
      <3>1. Cardinality(batch) = 0
        BY <2>3, FS_EmptySet
      <3>2. indexFaults' * Most \in {indexFaults * Most, indexFaults * Most + Most}
        BY <2>2, <2>3
      <3> HIDE DEF new, both
      <3>3. Cardinality(new) <= indexFaults * Most
        BY <1>1, <1>2, <1>3, <2>2, <3>1
      <3>4. QED
        BY <1>3, <2>1, <2>2, <2>3, <3>2, <3>3
    <2>4. CASE Cardinality(batch) <= Most /\ indexFaults' = indexFaults + 1
      <3> HIDE DEF new, both
      <3>1. Cardinality(new) <= indexFaults * Most + Most
        BY <1>1, <1>2, <1>3, <2>1, <2>2, <2>4
      <3>2. QED
        BY <2>2, <2>4, <3>1
    <2>5. QED
      BY <2>3, <2>4
  <1> HIDE DEF both
  <1>5. QED
    BY <1>3, <1>4 DEF LossesInv

LEMMA LossesKept ==
    ASSUME LossesInv, indexFaults \in Nat, Losses' \subseteq Losses,
           indexFaults' \in {indexFaults, indexFaults + 1}
    PROVE  LossesInv' /\ indexFaults' \in Nat
  <1>1. IsFiniteSet({}) /\ Cardinality({}) = 0
    BY FS_EmptySet
  <1>2. Cardinality({}) \in Nat
    BY <1>1
  <1>3. Losses' \subseteq Losses \union {}
    OBVIOUS
  <1>4. QED
    BY <1>1, <1>2, <1>3, LossesGrow

LEMMA WriteBatchKeeps ==
    ASSUME IndexInv, IndexNext, NEW m \in notices, WriteBatch(m)
    PROVE  IndexInv'
  <1>1. NoticeInv(m) /\ LossesInv /\ IndexTyped /\ indexFaults \in Nat /\ m \in NoticeType
    BY DEF IndexInv, IndexTyped
  <1>2. /\ multihashes \subseteq multihashes' /\ positions \subseteq positions'
        /\ UNCHANGED <<publishing, givenUp, indexFaults>>
    BY <1>1, WritesKeep
  <1>0. PICK batch \in m.left : \E done \in SUBSET batch \ {{}} : \E n \in NoticeType :
          /\ \A i \in done : (i.to = "advert" => i.block \in multihashes') /\ (i.to = "index" => i \in positions')
          /\ positions' = positions \union {i \in done : i.to = "index"}
          /\ notices' = (notices \ {m}) \union {n}
          /\ n.of = m.of /\ n.items = m.items /\ n.copy = m.copy /\ n.lost = m.lost
          /\ n.left = (m.left \ {batch}) \union ({batch \ done} \ {{}})
    BY <1>1, WritesKeep
  <1>3. PICK done \in SUBSET batch \ {{}}, n \in NoticeType :
          /\ \A i \in done : (i.to = "advert" => i.block \in multihashes') /\ (i.to = "index" => i \in positions')
          /\ positions' = positions \union {i \in done : i.to = "index"}
          /\ notices' = (notices \ {m}) \union {n}
          /\ n.of = m.of /\ n.items = m.items /\ n.copy = m.copy /\ n.lost = m.lost
          /\ n.left = (m.left \ {batch}) \union ({batch \ done} \ {{}})
    BY <1>0
  <1>4. /\ \A i : Wrote(i) => Wrote(i)'
        /\ \A q : AdvertsTaken(q) => AdvertsTaken(q)'
        /\ \A q, items : MaySend(q, items) => MaySend(q, items)'
    BY <1>2, Kept, Carried DEF IndexInv
  <1>5. m.of \in Publication /\ MaySend(m.of, m.items) /\ batch \subseteq m.items /\ done \subseteq m.items
    BY <1>1, <1>3 DEF NoticeInv, NoticeType
  <1>6. /\ \A i \in m.items : i.to \in {"advert", "index"}
        /\ \A i \in m.items : i.to = "index" => m.of.legacy /\ i \in ItemsOfIndex(m.of) /\ AdvertsTaken(m.of)
    BY <1>5, MayBeSent
  <1>7. NoticeInv(n)'
    <2>1. n.of \in DOMAIN publishing' /\ MaySend(n.of, n.items)'
      BY <1>1, <1>2, <1>3, <1>4, <1>5 DEF NoticeInv
    <2>2. \A i \in n.items : Wrote(i)' \/ i \in n.lost \/ \E b \in n.left : i \in b
      <3> SUFFICES ASSUME NEW i \in n.items PROVE Wrote(i)' \/ i \in n.lost \/ \E b \in n.left : i \in b
        OBVIOUS
      <3>1. Wrote(i) \/ i \in m.lost \/ \E b \in m.left : i \in b
        BY <1>1, <1>3 DEF NoticeInv
      <3>2. CASE i \in done
        BY <1>3, <1>5, <1>6, <3>2 DEF Wrote
      <3>3. CASE i \in batch \ done
        BY <1>3, <3>3
      <3>4. CASE i \notin batch
        BY <1>3, <1>4, <3>1, <3>4
      <3>5. QED
        BY <3>2, <3>3, <3>4
    <2>3. \A b \in n.left :
            b \subseteq n.items /\ IsFiniteSet(b) /\ Cardinality(b) \in Nat /\ Cardinality(b) <= Most
      <3>1. \A b \in m.left :
              b \subseteq m.items /\ IsFiniteSet(b) /\ Cardinality(b) \in Nat /\ Cardinality(b) <= Most
        BY <1>1 DEF NoticeInv
      <3> DEFINE rest == batch \ done
      <3>2. rest \subseteq m.items /\ IsFiniteSet(rest) /\ Cardinality(rest) \in Nat /\ Cardinality(rest) <= Most
        <4>1. rest \subseteq batch /\ IsFiniteSet(batch) /\ Cardinality(batch) \in Nat /\ Cardinality(batch) <= Most
          BY <1>3, <3>1
        <4> HIDE DEF rest
        <4>2. IsFiniteSet(rest) /\ Cardinality(rest) <= Cardinality(batch)
          BY <4>1, FS_Subset
        <4>3. Cardinality(rest) \in Nat /\ Most \in Nat
          BY <4>2, FS_CardinalityType, IndexAssumption DEF Most
        <4>4. QED
          BY <1>5, <4>1, <4>2, <4>3
      <3>3. \A b \in n.left : b \in m.left \/ b = rest
        BY <1>3
      <3> HIDE DEF rest
      <3>4. QED
        BY <1>3, <3>1, <3>2, <3>3
    <2>4. QED
      BY <2>1, <2>2, <2>3 DEF NoticeInv
  <1>8. \A i \in positions' \ positions : PositionInv(i)'
    <2> SUFFICES ASSUME NEW i \in positions' \ positions PROVE PositionInv(i)'
      OBVIOUS
    <2>1. i \in m.items /\ i.to = "index"
      BY <1>3, <1>5
    <2>2. m.of \in DOMAIN publishing' /\ m.of.legacy /\ i \in ItemsOfIndex(m.of) /\ AdvertsTaken(m.of)'
      BY <1>1, <1>2, <1>4, <1>6, <2>1 DEF NoticeInv
    <2>3. QED
      BY <2>2 DEF PositionInv
  <1>9. Losses' \subseteq Losses
    <2>1. ASSUME NEW x \in Losses' PROVE x \in Losses
      <3>1. x \in givenUp \/ \E k \in notices' : x \in k.lost
        BY <1>2, <2>1 DEF Losses
      <3>2. x \in givenUp \/ \E k \in notices : x \in k.lost
        BY <1>3, <3>1
      <3>3. QED
        BY <3>2, LossesAre
    <2>2. QED
      BY <2>1
  <1>10. LossesInv' /\ indexFaults' \in Nat
    BY <1>1, <1>2, <1>9, LossesKept
  <1>11. QED
    <2> DEFINE N == {n}
    <2>1. N \subseteq NoticeType /\ (\A k \in N : NoticeInv(k)') /\ notices' = (notices \ {m}) \union N
      BY <1>3, <1>7
    <2>2. UNCHANGED publishing /\ indexFaults' \in Nat /\ LossesInv' /\ \A i \in positions' \ positions : PositionInv(i)'
      BY <1>2, <1>8, <1>10
    <2> HIDE DEF N
    <2>3. QED
      BY <2>1, <2>2, Handles

LEMMA BatchFailsKeeps ==
    ASSUME IndexInv, IndexNext, NEW m \in notices, BatchFails(m)
    PROVE  IndexInv'
  <1>1. NoticeInv(m) /\ LossesInv /\ IndexTyped /\ indexFaults \in Nat
    BY DEF IndexInv, IndexTyped
  <1>2. UNCHANGED <<publishing, multihashes, positions, givenUp>> /\ indexFaults' = indexFaults + 1
    BY <1>1, FailsKeep
  <1>3. PICK batch \in m.left, n \in NoticeType :
          /\ notices' = (notices \ {m}) \union {n}
          /\ n.of = m.of /\ n.items = m.items /\ n.copy = m.copy
          /\ n.left = m.left \ {batch} /\ n.lost = m.lost \union batch
    BY <1>1, FailsKeep
  <1>4. /\ \A i : Wrote(i) => Wrote(i)'
        /\ \A q, items : MaySend(q, items) => MaySend(q, items)'
    BY <1>2, Kept, Carried DEF IndexInv
  <1>5. NoticeInv(n)'
    <2>1. n.of \in DOMAIN publishing' /\ MaySend(n.of, n.items)'
      BY <1>1, <1>2, <1>3, <1>4 DEF NoticeInv
    <2>2. \A i \in n.items : Wrote(i)' \/ i \in n.lost \/ \E b \in n.left : i \in b
      BY <1>1, <1>3, <1>4 DEF NoticeInv
    <2>3. \A b \in n.left :
            b \subseteq n.items /\ IsFiniteSet(b) /\ Cardinality(b) \in Nat /\ Cardinality(b) <= Most
      BY <1>1, <1>3 DEF NoticeInv
    <2>4. QED
      BY <2>1, <2>2, <2>3 DEF NoticeInv
  <1>6. Losses' \subseteq Losses \union batch
    <2>1. ASSUME NEW x \in Losses' PROVE x \in Losses \union batch
      <3>1. x \in givenUp \/ \E k \in notices' : x \in k.lost
        BY <1>2, <2>1 DEF Losses
      <3>2. x \in givenUp \/ x \in batch \/ \E k \in notices : x \in k.lost
        BY <1>3, <3>1
      <3>3. QED
        BY <3>2, LossesAre
    <2>2. QED
      BY <2>1
  <1>7. IsFiniteSet(batch) /\ Cardinality(batch) \in Nat /\ Cardinality(batch) <= Most
    BY <1>1, <1>3 DEF NoticeInv
  <1>8. LossesInv' /\ indexFaults' \in Nat
    BY <1>1, <1>2, <1>6, <1>7, LossesGrow
  <1>9. QED
    <2> DEFINE N == {n}
    <2>1. N \subseteq NoticeType /\ (\A k \in N : NoticeInv(k)') /\ notices' = (notices \ {m}) \union N
      BY <1>3, <1>5
    <2>2. UNCHANGED publishing /\ indexFaults' \in Nat /\ LossesInv' /\ \A i \in positions' \ positions : PositionInv(i)'
      BY <1>2, <1>8
    <2> HIDE DEF N
    <2>3. QED
      BY <2>1, <2>2, Handles

LEMMA HandlerEndsKeeps ==
    ASSUME IndexInv, IndexNext, NEW m \in notices, HandlerEnds(m)
    PROVE  IndexInv'
  <1>1. LossesInv /\ indexFaults \in Nat
    BY DEF IndexInv, IndexTyped
  <1>2. /\ notices' = (notices \ {m}) \union {} /\ givenUp' = givenUp \union m.lost
        /\ UNCHANGED <<publishing, multihashes, positions, indexFaults>>
    BY DEF HandlerEnds
  <1>3. Losses' \subseteq Losses
    <2>1. ASSUME NEW x \in Losses' PROVE x \in Losses
      <3>1. x \in givenUp' \/ \E k \in notices' : x \in k.lost
        BY <2>1 DEF Losses
      <3>2. x \in givenUp \/ \E k \in notices : x \in k.lost
        BY <1>2, <3>1
      <3>3. QED
        BY <3>2, LossesAre
    <2>2. QED
      BY <2>1
  <1>4. LossesInv' /\ indexFaults' \in Nat
    BY <1>1, <1>2, <1>3, LossesKept
  <1>5. QED
    <2> DEFINE N == {}
    <2>1. N \subseteq NoticeType /\ (\A k \in N : NoticeInv(k)') /\ notices' = (notices \ {m}) \union N
      BY <1>2
    <2>2. UNCHANGED publishing /\ indexFaults' \in Nat /\ LossesInv' /\ \A i \in positions' \ positions : PositionInv(i)'
      BY <1>2, <1>4
    <2> HIDE DEF N
    <2>3. QED
      BY <2>1, <2>2, Handles

LEMMA InvocationDiesKeeps ==
    ASSUME IndexInv, IndexNext, NEW m \in notices, InvocationDies(m)
    PROVE  IndexInv'
  <1> DEFINE n == Notice(m.of, m.items, m.copy)
  <1>1. NoticeInv(m) /\ LossesInv /\ IndexTyped /\ indexFaults \in Nat
    BY DEF IndexInv, IndexTyped
  <1>2. /\ UNCHANGED <<publishing, multihashes, positions, givenUp>> /\ indexFaults' = indexFaults + 1
        /\ notices' = (notices \ {m}) \union {n}
        /\ n \in NoticeType /\ n.of = m.of /\ n.items = m.items /\ n.lost = {}
        /\ \A i \in m.items : \E b \in n.left : i \in b
        /\ \A b \in n.left :
             b \subseteq m.items /\ IsFiniteSet(b) /\ Cardinality(b) \in Nat /\ Cardinality(b) <= Most
    BY <1>1, DyingKeeps
  <1> HIDE DEF n
  <1>3. \A q, items : MaySend(q, items) => MaySend(q, items)'
    BY <1>2, Kept, Carried DEF IndexInv
  <1>4. NoticeInv(n)'
    <2>1. n.of \in DOMAIN publishing' /\ MaySend(n.of, n.items)'
      BY <1>1, <1>2, <1>3 DEF NoticeInv
    <2>2. QED
      BY <1>2, <2>1 DEF NoticeInv
  <1>5. Losses' \subseteq Losses
    <2>1. ASSUME NEW x \in Losses' PROVE x \in Losses
      <3>1. x \in givenUp \/ \E k \in notices' : x \in k.lost
        BY <1>2, <2>1 DEF Losses
      <3>2. x \in givenUp \/ \E k \in notices : x \in k.lost
        BY <1>2, <3>1
      <3>3. QED
        BY <3>2, LossesAre
    <2>2. QED
      BY <2>1
  <1>6. LossesInv' /\ indexFaults' \in Nat
    BY <1>1, <1>2, <1>5, LossesKept
  <1>7. QED
    <2> DEFINE N == {n}
    <2>1. N \subseteq NoticeType /\ (\A k \in N : NoticeInv(k)') /\ notices' = (notices \ {m}) \union N
      BY <1>2, <1>4
    <2>2. UNCHANGED publishing /\ indexFaults' \in Nat /\ LossesInv' /\ \A i \in positions' \ positions : PositionInv(i)'
      BY <1>2, <1>6
    <2> HIDE DEF N
    <2>3. QED
      BY <2>1, <2>2, Handles

LEMMA IndexStep == ASSUME IndexInv, IndexNext PROVE IndexInv'
  <1>1. ASSUME NEW p \in DOMAIN publishing,
               \/ PublishAdverts(p) \/ SendFails(p) \/ PublishIndex(p) \/ AnswerPublish(p)
               \/ \E items \in publishing[p].left : SendNotice(p, items)
        PROVE  IndexInv'
    BY <1>1, PublishAdvertsKeeps, SendFailsKeeps, PublishIndexKeeps, AnswerPublishKeeps, SendNoticeKeeps
  <1>2. ASSUME NEW m \in notices, WriteBatch(m) \/ BatchFails(m) \/ HandlerEnds(m) \/ InvocationDies(m)
        PROVE  IndexInv'
    BY <1>2, WriteBatchKeeps, BatchFailsKeeps, HandlerEndsKeeps, InvocationDiesKeeps
  <1>3. QED
    BY <1>1, <1>2 DEF IndexNext

LEMMA IndexStart == ASSUME IndexInit PROVE IndexInv
  <1>1. PICK ps \in Publications : publishing = [p \in ps |-> [pc |-> "new", left |-> {}]]
    BY DEF IndexInit
  <1>2. notices = {} /\ positions = {} /\ givenUp = {} /\ indexFaults = 0
    BY DEF IndexInit
  <1>3. DOMAIN publishing = ps /\ \A p \in ps : publishing[p] \in Step /\ publishing[p].pc = "new" /\ publishing[p].left = {}
    BY <1>1 DEF Step
  <1>4. IndexTyped
    BY <1>1, <1>2, <1>3 DEF IndexTyped
  <1>5. \A p \in DOMAIN publishing : PublishInv(p)
    BY <1>3 DEF PublishInv
  <1>6. LossesInv
    <2>1. Losses = {}
      BY <1>2 DEF Losses
    <2>2. Most \in Nat
      BY IndexAssumption DEF Most
    <2>3. 0 * Most = 0
      BY <2>2
    <2>4. QED
      BY <1>2, <2>1, <2>3, FS_EmptySet DEF LossesInv
  <1>7. QED
    BY <1>2, <1>4, <1>5, <1>6 DEF IndexInv

LEMMA IndexSafe == ASSUME IndexInv PROVE PublishedIsIndexed
  <1>1. ASSUME NEW p \in DOMAIN publishing, publishing[p].pc = "ok",
               NEW i \in ItemsOfAdverts(p) \union (IF p.legacy THEN ItemsOfIndex(p) ELSE {})
        PROVE  TakenIn(i)
    BY <1>1 DEF IndexInv, PublishInv, AdvertsTaken
  <1>2. ASSUME NEW i \in positions
        PROVE  \E p \in DOMAIN publishing :
                 p.legacy /\ i \in ItemsOfIndex(p) /\ \A j \in ItemsOfAdverts(p) : TakenIn(j)
    BY DEF IndexInv, PositionInv, AdvertsTaken
  <1>3. Cardinality(givenUp) <= indexFaults * Most
    <2>1. IsFiniteSet(Losses) /\ Cardinality(Losses) \in Nat /\ Cardinality(Losses) <= indexFaults * Most
      BY DEF IndexInv, LossesInv
    <2>2. givenUp \subseteq Losses
      BY DEF Losses
    <2>3. IsFiniteSet(givenUp) /\ Cardinality(givenUp) <= Cardinality(Losses)
      BY <2>1, <2>2, FS_Subset
    <2>4. Cardinality(givenUp) \in Nat
      BY <2>3, FS_CardinalityType
    <2>5. indexFaults * Most \in Nat
      BY IndexAssumption DEF IndexInv, IndexTyped, Most
    <2>6. QED
      BY <2>1, <2>3, <2>4, <2>5
  <1>4. QED
    BY <1>1, <1>2, <1>3 DEF PublishedIsIndexed, Most

(***************************************************************************)
(* For any publications, shards and sizes of messages and of batches, with *)
(* any number of failures: what publish answered is taken in, batch by     *)
(* batch, whatever is taken in part, sent twice, or handled again; a       *)
(* failure costs one batch at most; and what is at a location in the       *)
(* legacy index was published with its adverts taken in before it          *)
(* (ipni-service.js and the handlers of indexer/functions).                *)
(***************************************************************************)
THEOREM WhatIsPublishedIsIndexed == ContentSpec => []PublishedIsIndexed
  <1>1. ContentInit => IndexInv
    BY IndexStart DEF ContentInit
  <1>2. IndexInv /\ [ContentNext]_<<vars, index>> => IndexInv'
    <2> SUFFICES ASSUME IndexInv, [ContentNext]_<<vars, index>> PROVE IndexInv'
      OBVIOUS
    <2>1. CASE IndexNext
      BY <2>1, IndexStep
    <2>2. CASE UNCHANGED index
      BY <2>2 DEF index, IndexInv, IndexTyped, PublishInv, NoticeInv, PositionInv, LossesInv, Losses,
                  MaySend, AdvertsTaken, TakenOrLeft, TakenIn, Wrote
    <2>3. QED
      BY <2>1, <2>2 DEF ContentNext
  <1>3. IndexInv => PublishedIsIndexed
    BY IndexSafe
  <1>4. QED
    BY <1>1, <1>2, <1>3, PTL DEF ContentSpec

-----------------------------------------------------------------------------
(***************************************************************************)
(* The upload table: an upload lists what was added to it.                 *)
(***************************************************************************)

\* The function that Merged is defined by.
Merges(f, existing, shards, n) ==
    f = [i \in 0..n |->
           IF i = 0 THEN existing
           ELSE IF Contains(f[i - 1], shards[i]) THEN f[i - 1]
           ELSE Append(f[i - 1], shards[i])]

LEMMA MergesExists ==
    ASSUME NEW existing, NEW shards, NEW n \in Nat
    PROVE  \E f : Merges(f, existing, shards, n)
  <1> DEFINE S == {k \in Nat : \E f : Merges(f, existing, shards, k)}
             Next1(l, x) == IF Contains(l, x) THEN l ELSE Append(l, x)
  <1>1. 0 \in S
    <2>1. Merges([i \in 0..0 |-> existing], existing, shards, 0)
      BY DEF Merges
    <2>2. QED
      BY <2>1
  <1>2. ASSUME NEW k \in Nat, k \in S PROVE k + 1 \in S
    <2>1. PICK f : Merges(f, existing, shards, k)
      BY <1>2
    <2> DEFINE g == [i \in 0..k + 1 |->
                       IF i <= k THEN f[i] ELSE Next1(f[i - 1], shards[i])]
    <2>2. \A i \in 0..k : f[i] = IF i = 0 THEN existing ELSE Next1(f[i - 1], shards[i])
      BY <2>1 DEF Merges
    <2> HIDE DEF Next1
    <2>3. ASSUME NEW i \in 0..k + 1
          PROVE  g[i] = IF i = 0 THEN existing ELSE Next1(g[i - 1], shards[i])
      <3>1. CASE i = 0
        BY <2>2, <3>1
      <3>2. CASE i # 0
        <4>1. i - 1 \in 0..k /\ g[i - 1] = f[i - 1]
          BY <3>2
        <4>2. g[i] = Next1(f[i - 1], shards[i])
          <5>1. CASE i <= k
            <6>1. i \in 0..k /\ g[i] = f[i]
              BY <5>1
            <6>2. QED
              BY <2>2, <3>2, <6>1
          <5>2. CASE ~(i <= k)
            BY <3>2, <5>2
          <5>3. QED
            BY <5>1, <5>2
        <4>3. QED
          BY <3>2, <4>1, <4>2
      <3>3. QED
        BY <3>1, <3>2
    <2>4. g = [i \in 0..k + 1 |-> g[i]]
      OBVIOUS
    <2> HIDE DEF g
    <2>5. g = [i \in 0..k + 1 |-> IF i = 0 THEN existing ELSE Next1(g[i - 1], shards[i])]
      BY <2>3, <2>4
    <2>6. Merges(g, existing, shards, k + 1)
      BY <2>5 DEF Merges, Next1
    <2>7. QED
      BY <2>6
  <1>3. S = Nat
    <2>1. S \in SUBSET Nat
      OBVIOUS
    <2> HIDE DEF S
    <2>2. QED
      BY <1>1, <1>2, <2>1, Induction
  <1>4. QED
    BY <1>3

\* A list that has no shard twice is as long as there are shards in it.
Distinct(l) == Len(l) = Cardinality(ToSet(l)) /\ IsFiniteSet(ToSet(l))

(* Merging adds what is new to the end, once.                              *)
LEMMA MergedIs ==
    ASSUME NEW S, NEW existing \in Seq(S), NEW shards \in Seq(S)
    PROVE  /\ Merged(existing, shards) \in Seq(S)
           /\ ToSet(Merged(existing, shards)) = ToSet(existing) \union ToSet(shards)
           /\ Len(Merged(existing, shards)) >= Len(existing)
           /\ Distinct(existing) => Distinct(Merged(existing, shards))
  <1> DEFINE n == Len(shards)
             f == CHOOSE upTo : Merges(upTo, existing, shards, n)
             First(k) == {shards[i] : i \in 1..k}
             Good(l, k) == /\ l \in Seq(S)
                           /\ ToSet(l) = ToSet(existing) \union First(k)
                           /\ Len(l) >= Len(existing)
                           /\ Distinct(existing) => Distinct(l)
             P == {k \in Nat : k \in 0..n => Good(f[k], k)}
  <1>1. n \in Nat /\ DOMAIN shards = 1..n /\ \A i \in 1..n : shards[i] \in S
    OBVIOUS
  <1>2. Merged(existing, shards) = f[n]
    BY DEF Merged, Merges
  <1>3. \A i \in 0..n : f[i] = IF i = 0 THEN existing
                               ELSE IF Contains(f[i - 1], shards[i]) THEN f[i - 1]
                               ELSE Append(f[i - 1], shards[i])
    <2>1. Merges(f, existing, shards, n)
      BY <1>1, MergesExists
    <2> HIDE DEF f
    <2>2. QED
      BY <2>1 DEF Merges
  <1> HIDE DEF f
  <1>4. 0 \in P
    BY <1>1, <1>3
  <1>5. ASSUME NEW k \in Nat, k \in P PROVE k + 1 \in P
    <2> SUFFICES ASSUME k + 1 \in 0..n PROVE Good(f[k + 1], k + 1)
      OBVIOUS
    <2> DEFINE l == f[k]
               x == shards[k + 1]
    <2>1. k \in 0..n /\ k + 1 \in 1..n /\ (k + 1) - 1 = k /\ x \in S
      BY <1>1
    <2>2. Good(l, k)
      BY <1>5, <2>1
    <2>3. f[k + 1] = IF Contains(l, x) THEN l ELSE Append(l, x)
      BY <1>3, <2>1
    <2>4. First(k + 1) = First(k) \union {x}
      <3>1. 1..k + 1 = 1..k \union {k + 1}
        OBVIOUS
      <3>2. QED
        BY <3>1
    <2>5. Contains(l, x) <=> x \in ToSet(l)
      BY <2>2 DEF Contains, ToSet
    <2> HIDE DEF l, x, First
    <2>6. CASE Contains(l, x)
      BY <2>2, <2>3, <2>4, <2>5, <2>6
    <2>7. CASE ~Contains(l, x)
      <3>1. f[k + 1] = Append(l, x) /\ l \in Seq(S)
        BY <2>2, <2>3, <2>7
      <3>2. /\ Append(l, x) \in Seq(S) /\ Len(Append(l, x)) = Len(l) + 1 /\ Len(l) \in Nat
            /\ ToSet(Append(l, x)) = ToSet(l) \union {x}
        <4>1. /\ Append(l, x) \in Seq(S) /\ Len(Append(l, x)) = Len(l) + 1 /\ Len(l) \in Nat
              /\ \A i \in 1..Len(l) : Append(l, x)[i] = l[i]
              /\ Append(l, x)[Len(l) + 1] = x
          BY <2>1, <3>1
        <4>2. 1..(Len(l) + 1) = 1..Len(l) \union {Len(l) + 1}
          BY <4>1
        <4>3. DOMAIN l = 1..Len(l) /\ DOMAIN Append(l, x) = 1..(Len(l) + 1)
          BY <3>1, <4>1
        <4>4. QED
          BY <4>1, <4>2, <4>3 DEF ToSet
      <3>3. Distinct(l) => Distinct(Append(l, x))
        <4>1. SUFFICES ASSUME Distinct(l) PROVE Distinct(Append(l, x))
          OBVIOUS
        <4>2. IsFiniteSet(ToSet(l)) /\ x \notin ToSet(l) /\ Len(l) = Cardinality(ToSet(l))
          BY <2>5, <2>7, <4>1 DEF Distinct
        <4>3. /\ IsFiniteSet(ToSet(l) \union {x})
              /\ Cardinality(ToSet(l) \union {x}) = Cardinality(ToSet(l)) + 1
          BY <4>2, FS_AddElement
        <4>4. QED
          BY <3>2, <4>2, <4>3 DEF Distinct
      <3>4. Len(existing) \in Nat
        OBVIOUS
      <3>5. QED
        BY <2>2, <2>4, <3>1, <3>2, <3>3, <3>4
    <2>8. QED
      BY <2>6, <2>7
  <1>6. P = Nat
    <2>1. P \in SUBSET Nat
      OBVIOUS
    <2> HIDE DEF P
    <2>2. QED
      BY <1>4, <1>5, <2>1, Induction
  <1>7. Good(f[n], n)
    <2> HIDE DEF P, Good
    <2>1. n \in P /\ n \in 0..n
      BY <1>1, <1>6
    <2>2. QED
      BY <2>1 DEF P
  <1>8. First(n) = ToSet(shards)
    BY <1>1 DEF ToSet
  <1>9. QED
    BY <1>2, <1>7, <1>8

(* A finite set of naturals is listed in its order.                        *)
Sorted(l, S) ==
    l \in [1..Cardinality(S) -> S] /\ \A i, j \in DOMAIN l : i < j => l[i] < l[j]

LEMMA GreatestOf ==
    ASSUME NEW S \in SUBSET Nat, IsFiniteSet(S), S # {}
    PROVE  \E m \in S : \A k \in S : k <= m
  <1> DEFINE n == Cardinality(S)
             Below(m) == {x \in S : x < m}
             T == {c \in Nat : \E m \in S : Cardinality(S \ Below(m)) = c}
  <1>1. \A m \in S : IsFiniteSet(S \ Below(m)) /\ Cardinality(S \ Below(m)) \in Nat
    BY FS_Subset, FS_CardinalityType
  <1>2. T \in SUBSET Nat /\ T # {}
    BY <1>1
  <1> HIDE DEF Below
  <1>3. PICK c \in T : \A d \in T : c <= d
    BY <1>2, LeastNatural
  <1>4. PICK m \in S : Cardinality(S \ Below(m)) = c
    BY <1>3
  <1>5. ASSUME NEW k \in S, k > m PROVE FALSE
    <2>1. k \in Nat /\ m \in Nat /\ \A x \in S : x \in Nat
      OBVIOUS
    <2>2. Below(m) \subseteq Below(k)
      <3>1. \A x \in S : x < m => x < k
        BY <1>5, <2>1
      <3>2. QED
        BY <3>1 DEF Below
    <2>3. m \in Below(k) /\ m \notin Below(m)
      <3>1. m < k /\ ~(m < m) /\ m \in S
        BY <1>5, <2>1
      <3>2. QED
        BY <3>1 DEF Below
    <2>4. S \ Below(k) \subseteq S \ Below(m) /\ S \ Below(k) # S \ Below(m)
      BY <2>2, <2>3
    <2>5. Cardinality(S \ Below(k)) < Cardinality(S \ Below(m))
      <3>1. IsFiniteSet(S \ Below(m)) /\ S \ Below(k) \in SUBSET (S \ Below(m))
        BY <1>1, <2>4
      <3>2. /\ Cardinality(S \ Below(k)) <= Cardinality(S \ Below(m))
            /\ Cardinality(S \ Below(k)) # Cardinality(S \ Below(m))
        BY <2>4, <3>1, FS_Subset
      <3>3. Cardinality(S \ Below(k)) \in Nat /\ Cardinality(S \ Below(m)) \in Nat
        BY <1>1
      <3>4. QED
        BY <3>2, <3>3
    <2>6. Cardinality(S \ Below(k)) \in T /\ Cardinality(S \ Below(k)) \in Nat
      BY <1>1
    <2> HIDE DEF T
    <2>7. c <= Cardinality(S \ Below(k)) /\ c \in Nat
      BY <1>2, <1>3, <2>6
    <2>8. QED
      BY <1>4, <2>5, <2>6, <2>7
  <1>6. QED
    BY <1>5

LEMMA SortedExists ==
    ASSUME NEW n \in Nat
    PROVE  \A S \in SUBSET Nat : IsFiniteSet(S) /\ Cardinality(S) = n => \E l : Sorted(l, S)
  <1> DEFINE Done(k) == \A S \in SUBSET Nat : IsFiniteSet(S) /\ Cardinality(S) = k => \E l : Sorted(l, S)
             P == {k \in Nat : Done(k)}
  <1>1. 0 \in P
    <2> SUFFICES ASSUME NEW S \in SUBSET Nat, IsFiniteSet(S), Cardinality(S) = 0
                 PROVE  \E l : Sorted(l, S)
      OBVIOUS
    <2>1. S = {}
      BY FS_EmptySet
    <2>2. Sorted([i \in 1..0 |-> 0], S)
      <3>1. 1..0 = {} /\ 1..Cardinality(S) = {}
        OBVIOUS
      <3>2. QED
        BY <2>1, <3>1 DEF Sorted
    <2>3. QED
      BY <2>2
  <1>2. ASSUME NEW k \in Nat, k \in P PROVE k + 1 \in P
    <2> SUFFICES ASSUME NEW S \in SUBSET Nat, IsFiniteSet(S), Cardinality(S) = k + 1
                 PROVE  \E l : Sorted(l, S)
      OBVIOUS
    <2>1. S # {}
      BY FS_EmptySet
    <2>2. PICK m \in S : \A x \in S : x <= m
      BY <2>1, GreatestOf
    <2> DEFINE R == S \ {m}
    <2>3. IsFiniteSet(R) /\ Cardinality(R) = k /\ R \in SUBSET Nat
      <3>1. IsFiniteSet(R) /\ Cardinality(R) = Cardinality(S) - 1
        BY FS_RemoveElement
      <3>2. QED
        BY <3>1
    <2>4. \A x \in R : x < m /\ x \in S
      BY <2>2
    <2>5. PICK l : Sorted(l, R)
      <3>1. Done(k)
        BY <1>2
      <3> HIDE DEF R
      <3>2. QED
        BY <2>3, <3>1
    <2> HIDE DEF R
    <2> DEFINE g == [i \in 1..k + 1 |-> IF i <= k THEN l[i] ELSE m]
    <2>6. /\ l \in [1..k -> R]
          /\ \A i, j \in 1..k : i < j => l[i] < l[j]
      BY <2>3, <2>5 DEF Sorted
    <2>7. \A i \in 1..k : g[i] = l[i] /\ g[i] \in R
      BY <2>6
    <2>8. g[k + 1] = m /\ DOMAIN g = 1..k + 1
      OBVIOUS
    <2>9. g \in [1..k + 1 -> S]
      BY <2>4, <2>6
    <2> HIDE DEF g
    <2>10. \A i, j \in 1..k + 1 : i < j => g[i] < g[j]
      <3> SUFFICES ASSUME NEW i \in 1..k + 1, NEW j \in 1..k + 1, i < j PROVE g[i] < g[j]
        OBVIOUS
      <3>1. i \in 1..k
        OBVIOUS
      <3>2. CASE j \in 1..k
        BY <2>6, <2>7, <3>1, <3>2
      <3>3. CASE j = k + 1
        BY <2>4, <2>7, <2>8, <3>1, <3>3
      <3>4. QED
        BY <3>2, <3>3
    <2>11. Sorted(g, S)
      BY <2>8, <2>9, <2>10 DEF Sorted
    <2>12. QED
      BY <2>11
  <1>3. P = Nat
    <2>1. P \in SUBSET Nat
      OBVIOUS
    <2> HIDE DEF P
    <2>2. QED
      BY <1>1, <1>2, <2>1, Induction
  <1>4. n \in P
    <2> HIDE DEF P
    <2>1. QED
      BY <1>3
  <1>5. QED
    BY <1>4

LEMMA AscendingIs ==
    ASSUME NEW S \in SUBSET Nat, IsFiniteSet(S)
    PROVE  /\ Ascending(S) \in Seq(S)
           /\ ToSet(Ascending(S)) = S
           /\ Distinct(Ascending(S))
  <1> DEFINE n == Cardinality(S)
             l == Ascending(S)
  <1>1. n \in Nat
    BY FS_CardinalityType
  <1>2. \E x : Sorted(x, S)
    BY <1>1, SortedExists
  <1>3. \E x \in [1..n -> S] : \A i, j \in DOMAIN x : i < j => x[i] < x[j]
    BY <1>2 DEF Sorted
  <1>4. /\ l \in [1..n -> S]
        /\ \A i, j \in DOMAIN l : i < j => l[i] < l[j]
    BY <1>3 DEF Ascending
  <1> HIDE DEF l, n
  <1>5. l \in Seq(S) /\ Len(l) = n
    BY <1>1, <1>4
  <1>6. l \in Injection(1..n, S)
    <2>1. ASSUME NEW i \in 1..n, NEW j \in 1..n, i # j PROVE l[i] # l[j]
      <3>1. l[i] \in Nat /\ l[j] \in Nat
        BY <1>4
      <3>2. i < j \/ j < i
        BY <1>1, <2>1
      <3>3. QED
        BY <1>4, <3>1, <3>2
    <2>2. QED
      BY <1>4, <2>1 DEF Injection, IsInjective
  <1>7. IsFiniteSet(1..n) /\ Cardinality(1..n) = n
    <2>1. 1 \in Int /\ n \in Int
      BY <1>1
    <2>2. QED
      BY <1>1, <2>1, FS_Interval
  <1>8. ToSet(l) = S
    <2>1. l \in Surjection(1..n, S)
      BY <1>6, <1>7, FS_Injection DEF n
    <2>2. QED
      BY <1>4, <2>1 DEF ToSet, Surjection
  <1>9. QED
    BY <1>5, <1>8 DEF Distinct, n, l

(***************************************************************************)
(* The strengthening, upload by upload. An upload that no two requests     *)
(* were about at once has one request under way at most, and this one      *)
(* knows what was added; one that is small is never stored elsewhere.      *)
(***************************************************************************)
Pc == {"new", "get", "fetch", "put", "update", "delete", "object", "count"} \union Answer

UploadItem ==
    [shards : SUBSET Shard, ref : Seq(Shard), insertedAt : Time, updatedAt : Time]

OldItem == [shards : SUBSET Shard, ref : Seq(Shard)]

Progress == [pc : Pc, at : Time, ref : Seq(Shard), all : Seq(Shard)]

UploadsTyped ==
    /\ DOMAIN uploads \subseteq Key /\ \A k \in DOMAIN uploads : uploads[k] \in UploadItem
    /\ versions \in [Key -> SUBSET OldItem]
    /\ added \in [Key -> SUBSET Shard]
    /\ now \in Time
    /\ job \in [Requests -> Progress]
    /\ \A r \in Requests : job[r].pc \in {"get", "fetch", "put", "update"} => r.op = "add"

\* What the requests to add to an upload ask for.
Possible(k) == UNION {ToSet(r.shards) : r \in {r \in Requests : r.op = "add" /\ r.key = k}}

\* What a request that is alone knows of its upload.
Knows(r) ==
    /\ job[r].pc = "fetch" =>
         r.key \in DOMAIN uploads /\ job[r].ref = uploads[r.key].ref /\ job[r].ref # NoRef
    /\ job[r].pc \in {"put", "update"} => ToSet(job[r].all) = added[r.key] \union ToSet(r.shards)
    /\ job[r].pc = "put" => Len(job[r].all) >= Threshold
    /\ job[r].pc = "update" /\ Len(job[r].all) >= Threshold => ObjectOf(r.key, job[r].all) \in objects
    /\ job[r].pc = "update" /\ Len(job[r].all) < Threshold =>
         (r.key \in DOMAIN uploads => uploads[r.key].ref = NoRef)
    /\ job[r].pc = "object" => r.key \notin DOMAIN uploads

\* A request about a small upload.
StaysInline(r) ==
    /\ job[r].pc \notin {"fetch", "put", "object"}
    /\ job[r].pc = "update" => Len(job[r].all) < Threshold

Alone(k) == \A q, r \in UnderWay : q.key = k /\ r.key = k => q = r

AddedTo(k) ==
    /\ added[k] \subseteq Possible(k)
    /\ k \notin DOMAIN uploads => added[k] = {}
    /\ k \in DOMAIN uploads /\ uploads[k].ref # NoRef => Len(uploads[k].ref) >= Threshold

Inline(k) ==
    /\ k \in DOMAIN uploads => uploads[k].ref = NoRef /\ uploads[k].shards = added[k]
    /\ \A v \in versions[k] : v.ref = NoRef /\ v.shards \subseteq Possible(k)
    /\ \A r \in Requests : r.key = k => StaysInline(r)

Undisturbed(k) ==
    /\ Alone(k)
    /\ \A r \in Requests : r.key = k => Knows(r)
    /\ k \in DOMAIN uploads => Readable(k) /\ Shards(k) = added[k]

UploadKept(k) ==
    AddedTo(k) /\ (Small(k) => Inline(k)) /\ (k \notin raced => Undisturbed(k))

ShardsInv == UploadsTyped /\ \A k \in Key : UploadKept(k)

-----------------------------------------------------------------------------
(* What the steps do to the requests.                                      *)
Moves(r, step) ==
    /\ job' \in [Requests -> Progress]
    /\ job'[r].pc = step
    /\ \A q \in Requests : q # r => job'[q] = job[q]

LEMMA GoToIs ==
    ASSUME UploadsTyped, NEW r \in Requests, NEW step \in Pc, GoTo(r, step)
    PROVE  Moves(r, step) /\ job'[r].ref = job[r].ref /\ job'[r].all = job[r].all
  <1> DEFINE new == [job[r] EXCEPT !.pc = step]
  <1>1. job \in [Requests -> Progress] /\ job[r] \in Progress
    BY DEF UploadsTyped
  <1>2. new \in Progress /\ new.pc = step /\ new.ref = job[r].ref /\ new.all = job[r].all
    <2> HIDE DEF Pc
    <2>1. QED
      BY <1>1 DEF Progress
  <1>3. job' = [job EXCEPT ![r] = new]
    BY <1>1 DEF GoTo
  <1> HIDE DEF new
  <1>4. QED
    BY <1>1, <1>2, <1>3 DEF Moves

LEMMA EndIs ==
    ASSUME UploadsTyped, NEW r \in Requests, NEW step \in Pc, End(r, step)
    PROVE  Moves(r, step) /\ job'[r].ref = NoRef
  <1> DEFINE new == [job[r] EXCEPT !.pc = step, !.ref = NoRef, !.all = NoRef]
  <1>1. job \in [Requests -> Progress] /\ job[r] \in Progress
    BY DEF UploadsTyped
  <1>2. NoRef \in Seq(Shard)
    BY DEF NoRef
  <1>3. new \in Progress /\ new.pc = step /\ new.ref = NoRef
    <2> HIDE DEF Pc
    <2>1. QED
      BY <1>1, <1>2 DEF Progress
  <1>4. job' = [job EXCEPT ![r] = new]
    BY <1>1 DEF End
  <1> HIDE DEF new
  <1>5. QED
    BY <1>1, <1>3, <1>4 DEF Moves

LEMMA MergeIs ==
    ASSUME UploadsTyped, NEW r \in Requests, r.op = "add",
           NEW existing \in Seq(Shard), NEW ref \in Seq(Shard), Merge(r, existing, ref)
    PROVE  /\ Moves(r, IF Len(job'[r].all) >= Threshold THEN "put" ELSE "update")
           /\ job'[r].all = Merged(existing, r.shards) /\ job'[r].ref = ref
           /\ r.shards \in Seq(Shard)
  <1> DEFINE all == Merged(existing, r.shards)
             step == IF Len(all) >= Threshold THEN "put" ELSE "update"
             new == [job[r] EXCEPT !.pc = step, !.ref = ref, !.all = all]
  <1>1. job \in [Requests -> Progress] /\ job[r] \in Progress
    BY DEF UploadsTyped
  <1>2. r.shards \in Seq(Shard)
    BY UploadAssumption
  <1>3. all \in Seq(Shard)
    BY <1>2, MergedIs
  <1>4. step \in Pc
    BY DEF Pc
  <1>5. job' = [job EXCEPT ![r].pc = step, ![r].ref = ref, ![r].all = all]
    BY DEF Merge
  <1> HIDE DEF all, step
  <1>6. job' = [job EXCEPT ![r] = new]
    BY <1>1, <1>5
  <1>7. new \in Progress /\ new.pc = step /\ new.ref = ref /\ new.all = all
    <2> HIDE DEF Pc
    <2>1. QED
      BY <1>1, <1>3, <1>4 DEF Progress
  <1> HIDE DEF new
  <1>8. /\ job' \in [Requests -> Progress] /\ job'[r] = new
        /\ \A q \in Requests : q # r => job'[q] = job[q]
    BY <1>1, <1>6, <1>7
  <1>9. QED
    BY <1>2, <1>7, <1>8 DEF Moves, all, step

(* The item after an update.                                               *)
LEMMA UpdatedIs ==
    ASSUME UploadsTyped, NEW r \in Requests, r.op = "add"
    PROVE  /\ Old(r) \in UploadItem /\ Updated(r) \in UploadItem
           /\ Len(job[r].all) >= Threshold =>
                Updated(r).ref = job[r].all /\ Updated(r).shards = {}
           /\ ~(Len(job[r].all) >= Threshold) =>
                /\ Updated(r).shards = Old(r).shards \union ToSet(r.shards)
                /\ Updated(r).ref \in {NoRef, Old(r).ref}
  <1>1. job[r] \in Progress /\ job[r].at \in Time /\ job[r].all \in Seq(Shard)
    BY DEF UploadsTyped, Progress
  <1>2. r.shards \in Seq(Shard) /\ ToSet(r.shards) \subseteq Shard
    <2>1. r.shards \in Seq(Shard)
      BY UploadAssumption
    <2>2. QED
      BY <2>1 DEF ToSet
  <1>3. NoRef \in Seq(Shard)
    BY DEF NoRef
  <1>4. Old(r) \in UploadItem
    BY <1>1, <1>3 DEF Old, Exists, UploadsTyped, UploadItem
  <1> DEFINE old == Old(r)
             at == job[r].at
             ref == IF r.shards # <<>> /\ job[r].ref # NoRef THEN NoRef ELSE old.ref
             shards == old.shards \union ToSet(r.shards)
  <1>5. CASE Len(job[r].all) >= Threshold
    <2>1. Updated(r) = [old EXCEPT !.updatedAt = at, !.ref = job[r].all, !.shards = {}]
      BY <1>5 DEF Updated
    <2> HIDE DEF old, at
    <2>2. QED
      BY <1>1, <1>4, <1>5, <2>1 DEF UploadItem, old, at
  <1>6. CASE ~(Len(job[r].all) >= Threshold)
    <2>1. Updated(r) = [old EXCEPT !.updatedAt = at, !.shards = shards, !.ref = ref]
      BY <1>4, <1>6 DEF Updated, UploadItem
    <2>2. /\ ref \in Seq(Shard) /\ ref \in {NoRef, old.ref}
          /\ shards \in SUBSET Shard
      BY <1>2, <1>3, <1>4 DEF UploadItem
    <2> HIDE DEF ref, shards
    <2>3. Updated(r) \in UploadItem /\ Updated(r).ref = ref /\ Updated(r).shards = shards
      BY <1>1, <1>4, <2>1, <2>2 DEF UploadItem
    <2>4. QED
      BY <1>4, <1>6, <2>2, <2>3 DEF shards
  <1>7. QED
    BY <1>5, <1>6

(***************************************************************************)
(* An upload that a step leaves alone: neither its item nor its requests   *)
(* change, and an object that goes is not one that it or they refer to.    *)
(***************************************************************************)
Uses(k, list) ==
    \/ k \in DOMAIN uploads /\ uploads[k].ref = list
    \/ \E q \in UnderWay : q.key = k /\ job[q].all = list

SameItem(k) ==
    /\ k \in DOMAIN uploads' <=> k \in DOMAIN uploads
    /\ k \in DOMAIN uploads => uploads'[k] = uploads[k]
    /\ versions'[k] = versions[k]
    /\ added'[k] = added[k]

ObjectsStay(k) ==
    \A list : ObjectOf(k, list) \in objects =>
        ObjectOf(k, list) \in objects' \/ k \in raced' \/ ~Uses(k, list)

LEMMA Elsewhere ==
    ASSUME NEW k \in Key, UploadKept(k), SameItem(k), ObjectsStay(k), raced \subseteq raced',
           \A q \in Requests : q.key = k => job'[q] = job[q]
    PROVE  UploadKept(k)'
  <1> USE DEF SameItem
  <1>1. AddedTo(k)'
    BY DEF UploadKept, AddedTo, Possible
  <1>2. Small(k)' <=> Small(k)
    BY DEF Small
  <1>3. Small(k) => Inline(k)'
    BY DEF UploadKept, Inline, StaysInline, Possible
  <1>4. ASSUME k \notin raced' PROVE Undisturbed(k)'
    <2>1. Undisturbed(k)
      BY <1>4 DEF UploadKept
    <2>2. Alone(k)'
      BY <2>1 DEF Undisturbed, Alone, UnderWay
    <2>3. ASSUME NEW r \in Requests, r.key = k PROVE Knows(r)'
      <3>1. Knows(r) /\ job'[r] = job[r]
        BY <2>1, <2>3 DEF Undisturbed
      <3>2. job[r].pc = "update" => Uses(k, job[r].all)
        BY <2>3 DEF Uses, UnderWay, Answer
      <3>3. job[r].pc = "update" /\ Len(job[r].all) >= Threshold => ObjectOf(k, job[r].all) \in objects'
        BY <1>4, <2>3, <3>1, <3>2 DEF ObjectsStay, Knows
      <3>4. QED
        BY <2>3, <3>1, <3>3 DEF Knows
    <2>4. ASSUME k \in DOMAIN uploads PROVE Readable(k)' /\ Shards(k)' = added'[k]
      <3>1. Readable(k) /\ Shards(k) = added[k]
        BY <2>1, <2>4 DEF Undisturbed
      <3>2. Uses(k, uploads[k].ref)
        BY <2>4 DEF Uses
      <3>3. Readable(k)'
        BY <1>4, <2>4, <3>1, <3>2 DEF ObjectsStay, Readable
      <3>4. QED
        BY <2>4, <3>1, <3>3 DEF Shards
    <2>5. QED
      BY <2>2, <2>3, <2>4 DEF Undisturbed
  <1>5. QED
    BY <1>1, <1>2, <1>3, <1>4 DEF UploadKept

(* A step of a request under way that leaves the item alone.               *)
LEMMA OwnStep ==
    ASSUME NEW r \in Requests, r.key \in Key, UploadKept(r.key), r \in UnderWay,
           UNCHANGED <<uploads, versions, added>>, raced \subseteq raced', objects \subseteq objects',
           \A q \in Requests : q # r => job'[q] = job[q],
           Small(r.key) => StaysInline(r)',
           r.key \notin raced' => Knows(r)'
    PROVE  UploadKept(r.key)'
  <1> DEFINE k == r.key
  <1>1. AddedTo(k)'
    BY DEF UploadKept, AddedTo, Possible
  <1>2. Small(k)' <=> Small(k)
    BY DEF Small
  <1>3. Small(k) => Inline(k)'
    BY DEF UploadKept, Inline, StaysInline, Possible
  <1>4. ASSUME k \notin raced' PROVE Undisturbed(k)'
    <2>1. Undisturbed(k)
      BY <1>4 DEF UploadKept
    <2>2. UnderWay' \subseteq UnderWay
      BY DEF UnderWay
    <2>3. Alone(k)'
      BY <2>1, <2>2 DEF Undisturbed, Alone
    <2>4. ASSUME NEW q \in Requests, q.key = k, q # r PROVE Knows(q)'
      <3>1. Knows(q) /\ job'[q] = job[q]
        BY <2>1, <2>4 DEF Undisturbed
      <3>2. QED
        BY <3>1 DEF Knows
    <2>5. k \in DOMAIN uploads => Readable(k)' /\ Shards(k)' = added[k]
      BY <2>1 DEF Undisturbed, Readable, Shards
    <2>6. Knows(r)'
      BY <1>4
    <2>7. QED
      BY <2>3, <2>4, <2>5, <2>6 DEF Undisturbed
  <1>5. QED
    BY <1>1, <1>2, <1>3, <1>4 DEF UploadKept

(* A request that is done, or has only itself left to count.               *)
LEMMA EndKeeps ==
    ASSUME ShardsInv, NEW r \in Requests, NEW step \in Answer \union {"count"}, End(r, step),
           r \in UnderWay, UNCHANGED <<uploads, versions, added, raced, objects, now>>
    PROVE  ShardsInv'
  <1> USE DEF ShardsInv
  <1>1. Moves(r, step)
    BY EndIs DEF Pc
  <1>2. step \notin {"get", "fetch", "put", "update", "object"}
    BY DEF Answer
  <1>3. UploadsTyped'
    BY <1>1, <1>2 DEF UploadsTyped, Moves
  <1>4. r.key \in Key
    BY UploadAssumption
  <1>5. Knows(r)' /\ StaysInline(r)'
    BY <1>1, <1>2 DEF Knows, StaysInline, Moves
  <1>6. UploadKept(r.key)'
    BY <1>1, <1>4, <1>5, OwnStep DEF Moves
  <1>7. ASSUME NEW k \in Key, k # r.key PROVE UploadKept(k)'
    BY <1>1, <1>7, Elsewhere DEF Moves, SameItem, ObjectsStay
  <1>8. QED
    BY <1>3, <1>6, <1>7

(* Beginning: two requests about an upload at once are taken note of.      *)
LEMMA BeginKeeps ==
    ASSUME ShardsInv, NEW r \in Requests, Begin(r)
    PROVE  ShardsInv'
  <1> USE DEF ShardsInv
  <1> DEFINE step == IF r.op = "add" THEN "get" ELSE "delete"
             new == [job[r] EXCEPT !.pc = step, !.at = now]
  <1>1. /\ job \in [Requests -> Progress] /\ job[r] \in Progress /\ now \in Time
        /\ step \in Pc
    BY DEF UploadsTyped, Pc
  <1>2. job' = [job EXCEPT ![r].pc = step, ![r].at = now]
    BY DEF Begin
  <1>3. job' = [job EXCEPT ![r] = new]
    <2> HIDE DEF step
    <2>1. QED
      BY <1>1, <1>2
  <1>4. new \in Progress /\ new.pc = step
    <2> HIDE DEF Pc, step
    <2>1. QED
      BY <1>1 DEF Progress
  <1> HIDE DEF new
  <1>5. Moves(r, step)
    BY <1>1, <1>3, <1>4 DEF Moves
  <1>6. UNCHANGED <<uploads, versions, added, objects, now>> /\ raced \subseteq raced'
    BY DEF Begin, tables
  <1>7. UploadsTyped'
    BY <1>5, <1>6 DEF UploadsTyped, Moves
  <1>8. ASSUME NEW k \in Key, k # r.key PROVE UploadKept(k)'
    BY <1>5, <1>6, <1>8, Elsewhere DEF Moves, SameItem, ObjectsStay
  <1>9. r.key \in Key /\ UploadKept(r.key)
    BY UploadAssumption
  <1>10. UploadKept(r.key)'
    <2> DEFINE k == r.key
    <2>1. AddedTo(k)'
      BY <1>6, <1>9 DEF UploadKept, AddedTo, Possible
    <2>2. Knows(r)' /\ StaysInline(r)'
      BY <1>5 DEF Knows, StaysInline, Moves
    <2>3. Small(k) => Inline(k)'
      BY <1>5, <1>6, <1>9, <2>2 DEF UploadKept, Inline, StaysInline, Moves, Possible
    <2>4. ASSUME k \notin raced' PROVE Undisturbed(k)'
      <3>1. Undisturbed(k)
        BY <1>6, <1>9, <2>4 DEF UploadKept
      <3>2. ASSUME NEW q \in UnderWay, q.key = k PROVE FALSE
        BY <2>4, <3>2 DEF Begin
      <3>3. \A q \in UnderWay' : q.key = k => q = r
        BY <1>5, <3>2 DEF UnderWay, Moves
      <3>4. \A q \in Requests : q.key = k /\ q # r => Knows(q)'
        BY <1>5, <1>6, <3>1 DEF Undisturbed, Knows, Moves
      <3>5. k \in DOMAIN uploads => Readable(k)' /\ Shards(k)' = added[k]
        BY <1>6, <3>1 DEF Undisturbed, Readable, Shards
      <3>6. QED
        BY <1>6, <2>2, <3>3, <3>4, <3>5 DEF Undisturbed, Alone
    <2>5. Small(k)' <=> Small(k)
      BY DEF Small
    <2>6. QED
      BY <2>1, <2>3, <2>4, <2>5 DEF UploadKept
  <1>11. QED
    BY <1>7, <1>8, <1>10

(* A step of a request that leaves the items alone keeps the invariant when *)
(* the request knows afterwards what it should.                             *)
LEMMA OwnKeeps ==
    ASSUME ShardsInv, NEW r \in Requests, NEW step, Moves(r, step), r \in UnderWay,
           step \in {"get", "fetch", "put", "update"} => r.op = "add",
           UNCHANGED <<uploads, versions, added, now>>, raced \subseteq raced', objects \subseteq objects',
           Small(r.key) => StaysInline(r)',
           r.key \notin raced' => Knows(r)'
    PROVE  ShardsInv'
  <1> USE DEF ShardsInv
  <1>1. UploadsTyped'
    BY DEF UploadsTyped, Moves
  <1>2. r.key \in Key /\ UploadKept(r.key)
    BY UploadAssumption
  <1>3. UploadKept(r.key)'
    BY <1>2, OwnStep DEF Moves
  <1>4. ASSUME NEW k \in Key, k # r.key PROVE UploadKept(k)'
    BY <1>4, Elsewhere DEF Moves, SameItem, ObjectsStay
  <1>5. QED
    BY <1>1, <1>3, <1>4

(* What a small upload may have, with the shards of a request, is below the *)
(* threshold.                                                               *)
LEMMA FewShards ==
    ASSUME UploadsTyped, NEW k \in Key, Small(k),
           NEW all \in Seq(Shard), ToSet(all) \subseteq Possible(k), Distinct(all)
    PROVE  ~(Len(all) >= Threshold)
  <1>1. Possible(k) \in SUBSET Shard
    <2>1. ASSUME NEW q \in Requests, q.op = "add" PROVE ToSet(q.shards) \subseteq Shard
      <3>1. q.shards \in Seq(Shard)
        BY <2>1, UploadAssumption
      <3>2. QED
        BY <3>1 DEF ToSet
    <2>2. QED
      BY <2>1 DEF Possible
  <1>2. IsFiniteSet(Possible(k))
    BY <1>1, FS_Subset, UploadAssumption
  <1>3. Cardinality(ToSet(all)) <= Cardinality(Possible(k))
    BY <1>2, FS_Subset
  <1>4. Cardinality(Possible(k)) < Threshold
    BY DEF Small, Possible
  <1>5. Len(all) = Cardinality(ToSet(all)) /\ Len(all) \in Nat
    BY DEF Distinct
  <1>6. Cardinality(Possible(k)) \in Nat /\ Threshold \in Nat
    BY <1>2, FS_CardinalityType, UploadAssumption
  <1>7. QED
    BY <1>3, <1>4, <1>5, <1>6

LEMMA FetchIs ==
    ASSUME UploadsTyped, NEW r \in Requests, NEW ref \in Seq(Shard),
           job' = [job EXCEPT ![r].pc = "fetch", ![r].ref = ref]
    PROVE  Moves(r, "fetch") /\ job'[r].ref = ref
  <1> DEFINE new == [job[r] EXCEPT !.pc = "fetch", !.ref = ref]
  <1>1. job \in [Requests -> Progress] /\ job[r] \in Progress
    BY DEF UploadsTyped
  <1>2. "fetch" \in Pc
    BY DEF Pc
  <1>3. new \in Progress /\ new.pc = "fetch" /\ new.ref = ref
    <2> HIDE DEF Pc
    <2>1. QED
      BY <1>1, <1>2 DEF Progress
  <1>4. job' = [job EXCEPT ![r] = new]
    BY <1>1
  <1> HIDE DEF new
  <1>5. QED
    BY <1>1, <1>3, <1>4 DEF Moves

(* Merging into what the item has inline, or into nothing.                  *)
LEMMA InlineMergeKeeps ==
    ASSUME ShardsInv, NEW r \in Requests, r \in UnderWay, r.op = "add",
           NEW existing \in Seq(Shard), Distinct(existing), Merge(r, existing, NoRef),
           Small(r.key) => ToSet(existing) \subseteq Possible(r.key),
           r.key \notin raced' =>
             /\ ToSet(existing) = added[r.key]
             /\ r.key \in DOMAIN uploads => uploads[r.key].ref = NoRef,
           UNCHANGED <<uploads, versions, added, objects, now>>, raced \subseteq raced'
    PROVE  ShardsInv'
  <1> USE DEF ShardsInv
  <1> DEFINE all == Merged(existing, r.shards)
             step == IF Len(job'[r].all) >= Threshold THEN "put" ELSE "update"
  <1>1. NoRef \in Seq(Shard)
    BY DEF NoRef
  <1>2. Moves(r, step) /\ job'[r].all = all /\ r.shards \in Seq(Shard)
    BY <1>1, MergeIs
  <1>3. all \in Seq(Shard) /\ ToSet(all) = ToSet(existing) \union ToSet(r.shards) /\ Distinct(all)
    BY <1>2, MergedIs
  <1>4. r.key \in Key /\ UploadKept(r.key)
    BY UploadAssumption
  <1> HIDE DEF all
  <1>5. ASSUME Small(r.key) PROVE StaysInline(r)'
    <2>1. ToSet(r.shards) \subseteq Possible(r.key)
      BY DEF Possible
    <2>2. ToSet(all) \subseteq Possible(r.key)
      BY <1>3, <1>5, <2>1
    <2>3. ~(Len(all) >= Threshold)
      BY <1>3, <1>4, <1>5, <2>2, FewShards
    <2>4. job'[r].pc = "update" /\ job'[r].all = all
      BY <1>2, <2>3 DEF Moves
    <2>5. Len(all) < Threshold
      BY <1>3, <2>3, UploadAssumption
    <2>6. QED
      BY <2>4, <2>5 DEF StaysInline
  <1>6. ASSUME r.key \notin raced' PROVE Knows(r)'
    <2>1. ToSet(all) = added[r.key] \union ToSet(r.shards)
      BY <1>3, <1>6
    <2>2. job'[r].pc = step /\ job'[r].all = all
      BY <1>2 DEF Moves
    <2>3. step = "update" => ~(Len(all) >= Threshold)
      BY <2>2
    <2>4. step = "put" => Len(all) >= Threshold
      BY <2>2
    <2>5. step \in {"put", "update"}
      OBVIOUS
    <2> HIDE DEF step
    <2>6. Len(all) \in Nat /\ Threshold \in Nat
      BY <1>3, UploadAssumption
    <2>7. QED
      BY <1>6, <2>1, <2>2, <2>3, <2>4, <2>5, <2>6 DEF Knows
  <1>7. QED
    BY <1>2, <1>5, <1>6, OwnKeeps

LEMMA GetItemKeeps ==
    ASSUME ShardsInv, NEW r \in Requests, GetItem(r)
    PROVE  ShardsInv'
  <1> USE DEF ShardsInv
  <1> DEFINE k == r.key
  <1>1. job[r].pc = "get" /\ UNCHANGED <<uploads, versions, added, objects, now>>
    BY DEF GetItem, tables
  <1>2. r \in UnderWay /\ r.op = "add" /\ k \in Key /\ UploadKept(k)
    BY <1>1, UploadAssumption DEF UnderWay, Answer, UploadsTyped
  <1>3. PICK item \in versions[k] :
          /\ IF item.ref = NoRef
             THEN Merge(r, Ascending(item.shards), NoRef)
             ELSE job' = [job EXCEPT ![r].pc = "fetch", ![r].ref = item.ref]
          /\ raced' = raced \union {x \in {k} : item # Held(x)}
    BY DEF GetItem
  <1>4. item \in OldItem /\ item.shards \in SUBSET Shard /\ item.ref \in Seq(Shard)
    BY <1>2 DEF UploadsTyped, OldItem
  <1>5. raced \subseteq raced' /\ (k \notin raced' => item = Held(k))
    BY <1>3
  <1>6. ASSUME k \notin raced' PROVE Undisturbed(k) /\ AddedTo(k)
    BY <1>2, <1>5, <1>6 DEF UploadKept
  <1>7. CASE item.ref = NoRef
    <2> DEFINE shards == item.shards
    <2>1. Merge(r, Ascending(shards), NoRef)
      BY <1>3, <1>7
    <2>2. IsFiniteSet(shards) /\ shards \in SUBSET Nat
      BY <1>4, FS_Subset, UploadAssumption
    <2>3. /\ Ascending(shards) \in Seq(shards)
          /\ ToSet(Ascending(shards)) = shards
          /\ Distinct(Ascending(shards))
      BY <2>2, AscendingIs
    <2>4. Ascending(shards) \in Seq(Shard)
      BY <1>4, <2>3
    <2>5. Small(k) => shards \subseteq Possible(k)
      BY <1>2 DEF UploadKept, Inline
    <2>6. ASSUME k \notin raced'
          PROVE  shards = added[k] /\ (k \in DOMAIN uploads => uploads[k].ref = NoRef)
      <3>1. CASE Exists(k)
        BY <1>5, <1>6, <1>7, <2>6, <3>1 DEF Held, Exists, Undisturbed, Shards
      <3>2. CASE ~Exists(k)
        <4>1. item = NoItem /\ k \notin DOMAIN uploads
          BY <1>5, <2>6, <3>2 DEF Held, Exists
        <4>2. added[k] = {}
          BY <1>6, <2>6, <4>1 DEF AddedTo
        <4>3. QED
          BY <4>1, <4>2 DEF NoItem
      <3>3. QED
        BY <3>1, <3>2
    <2> HIDE DEF shards
    <2>7. QED
      BY <1>1, <1>2, <1>5, <2>1, <2>3, <2>4, <2>5, <2>6, InlineMergeKeeps
  <1>8. CASE item.ref # NoRef
    <2>1. job' = [job EXCEPT ![r].pc = "fetch", ![r].ref = item.ref]
      BY <1>3, <1>8
    <2>2. Moves(r, "fetch") /\ job'[r].ref = item.ref
      BY <1>4, <2>1, FetchIs
    <2>3. ~Small(k)
      BY <1>2, <1>8 DEF UploadKept, Inline
    <2>4. ASSUME k \notin raced' PROVE Knows(r)'
      <3>1. Exists(k) /\ item.ref = uploads[k].ref
        BY <1>5, <1>8, <2>4 DEF Held, NoItem
      <3>2. QED
        BY <1>1, <1>8, <2>2, <3>1 DEF Knows, Moves, Exists
    <2>5. QED
      BY <1>1, <1>2, <1>5, <2>2, <2>3, <2>4, OwnKeeps
  <1>9. QED
    BY <1>7, <1>8

LEMMA FetchShardsKeeps ==
    ASSUME ShardsInv, NEW r \in Requests, FetchShards(r)
    PROVE  ShardsInv'
  <1> USE DEF ShardsInv
  <1> DEFINE k == r.key
             ref == job[r].ref
  <1>1. job[r].pc = "fetch" /\ UNCHANGED <<uploads, versions, added, raced, objects, now>>
    BY DEF FetchShards, tables, history
  <1>2. r \in UnderWay /\ r.op = "add" /\ k \in Key /\ UploadKept(k)
    BY <1>1, UploadAssumption DEF UnderWay, Answer, UploadsTyped
  <1>3. CASE ObjectOf(k, ref) \notin objects
    <2>1. End(r, "error")
      BY <1>3 DEF FetchShards
    <2>2. QED
      BY <1>1, <1>2, <2>1, EndKeeps DEF Answer
  <1>4. CASE ObjectOf(k, ref) \in objects
    <2> DEFINE all == Merged(ref, r.shards)
               step == IF Len(job'[r].all) >= Threshold THEN "put" ELSE "update"
    <2>1. Merge(r, ref, ref)
      BY <1>4 DEF FetchShards
    <2>2. ref \in Seq(Shard)
      BY DEF UploadsTyped, Progress
    <2>3. Moves(r, step) /\ job'[r].all = all /\ r.shards \in Seq(Shard)
      BY <1>2, <2>1, <2>2, MergeIs
    <2>4. /\ all \in Seq(Shard) /\ ToSet(all) = ToSet(ref) \union ToSet(r.shards)
          /\ Len(all) >= Len(ref)
      BY <2>2, <2>3, MergedIs
    <2> HIDE DEF all
    <2>5. ~Small(k)
      BY <1>1, <1>2 DEF UploadKept, Inline, StaysInline
    <2>6. ASSUME k \notin raced PROVE Knows(r)'
      <3>1. Undisturbed(k) /\ AddedTo(k)
        BY <1>2, <2>6 DEF UploadKept
      <3>2. k \in DOMAIN uploads /\ ref = uploads[k].ref /\ ref # NoRef
        BY <1>1, <3>1 DEF Undisturbed, Knows
      <3>3. ToSet(ref) = added[k] /\ Len(ref) >= Threshold
        BY <3>1, <3>2 DEF Undisturbed, Shards, AddedTo
      <3>4. Len(all) >= Threshold
        <4>1. Len(all) \in Nat /\ Len(ref) \in Nat /\ Threshold \in Nat
          BY <2>2, <2>4, UploadAssumption
        <4>2. QED
          BY <2>4, <3>3, <4>1
      <3>5. job'[r].pc = "put" /\ job'[r].all = all
        BY <2>3, <3>4 DEF Moves
      <3>6. ToSet(all) = added[k] \union ToSet(r.shards)
        BY <2>4, <3>3
      <3>7. QED
        BY <1>1, <3>4, <3>5, <3>6 DEF Knows
    <2>7. QED
      BY <1>1, <1>2, <2>3, <2>5, <2>6, OwnKeeps
  <1>5. QED
    BY <1>3, <1>4

LEMMA StoreShardsKeeps ==
    ASSUME ShardsInv, NEW r \in Requests, StoreShards(r)
    PROVE  ShardsInv'
  <1> USE DEF ShardsInv
  <1> DEFINE k == r.key
             all == job[r].all
  <1>1. /\ job[r].pc = "put" /\ UNCHANGED <<uploads, versions, added, raced, now>>
        /\ objects' = objects \union {ObjectOf(k, all)}
        /\ GoTo(r, "update")
    BY DEF StoreShards, history
  <1>2. r \in UnderWay /\ r.op = "add" /\ k \in Key /\ UploadKept(k)
    BY <1>1, UploadAssumption DEF UnderWay, Answer, UploadsTyped
  <1>3. Moves(r, "update") /\ job'[r].all = all
    BY <1>1, GoToIs DEF Pc
  <1>4. ~Small(k)
    BY <1>1, <1>2 DEF UploadKept, Inline, StaysInline
  <1>5. ASSUME k \notin raced PROVE Knows(r)'
    <2>1. Knows(r)
      BY <1>2, <1>5 DEF UploadKept, Undisturbed
    <2>2. ToSet(all) = added[k] \union ToSet(r.shards) /\ Len(all) >= Threshold
      BY <1>1, <2>1 DEF Knows
    <2>3. ~(Len(all) < Threshold)
      <3>1. all \in Seq(Shard)
        BY DEF UploadsTyped, Progress
      <3>2. Len(all) \in Nat /\ Threshold \in Nat
        BY <3>1, UploadAssumption
      <3>3. QED
        BY <2>2, <3>2
    <2>4. job'[r].pc = "update" /\ job'[r].all = all
      BY <1>3 DEF Moves
    <2>5. ObjectOf(k, all) \in objects'
      BY <1>1
    <2>6. added'[k] = added[k]
      BY <1>1
    <2> HIDE DEF all
    <2>7. QED
      BY <2>2, <2>3, <2>4, <2>5, <2>6 DEF Knows
  <1>6. QED
    BY <1>1, <1>2, <1>3, <1>4, <1>5, OwnKeeps

(* The update of the item, and what it then lists.                          *)
LEMMA UpdateItemKeeps ==
    ASSUME ShardsInv, NEW r \in Requests, UpdateItem(r)
    PROVE  ShardsInv'
  <1> USE DEF ShardsInv
  <1> DEFINE k == r.key
             all == job[r].all
             item == Updated(r)
             step == IF IsNew(item) THEN "count" ELSE "ok"
  <1>1. /\ job[r].pc = "update" /\ UNCHANGED <<objects, now, raced>>
        /\ uploads' = [o \in DOMAIN uploads \union {k} |-> IF o = k THEN item ELSE uploads[o]]
        /\ versions' = [versions EXCEPT ![k] = @ \union {Held(k)'}]
        /\ added' = [added EXCEPT ![k] = @ \union ToSet(r.shards)]
        /\ End(r, step)
    BY DEF UpdateItem
  <1>2. r \in UnderWay /\ r.op = "add" /\ k \in Key /\ UploadKept(k)
    BY <1>1, UploadAssumption DEF UnderWay, Answer, UploadsTyped
  <1>3. step \in {"count", "ok"}
    OBVIOUS
  <1>4. /\ item \in UploadItem
        /\ Len(all) >= Threshold => item.ref = all /\ item.shards = {}
        /\ ~(Len(all) >= Threshold) =>
             /\ item.shards = Old(r).shards \union ToSet(r.shards)
             /\ item.ref \in {NoRef, Old(r).ref}
    BY <1>2, UpdatedIs
  <1> HIDE DEF item, step
  <1>5. Moves(r, step)
    BY <1>1, <1>3, EndIs DEF Pc, Answer
  <1>6. added' \in [Key -> SUBSET Shard] /\ added'[k] = added[k] \union ToSet(r.shards)
    <2>1. r.shards \in Seq(Shard)
      BY <1>2, UploadAssumption
    <2>2. ToSet(r.shards) \subseteq Shard
      BY <2>1 DEF ToSet
    <2>3. QED
      BY <1>1, <1>2, <2>2 DEF UploadsTyped
  <1>7. /\ k \in DOMAIN uploads' /\ uploads'[k] = item
        /\ DOMAIN uploads' = DOMAIN uploads \union {k}
        /\ \A o \in DOMAIN uploads : o # k => uploads'[o] = uploads[o]
    BY <1>1
  <1>8. UploadsTyped' /\ Held(k)' = [shards |-> item.shards, ref |-> item.ref]
    <2>1. Held(k)' = [shards |-> item.shards, ref |-> item.ref]
      BY <1>7 DEF Held, Exists
    <2>2. versions' \in [Key -> SUBSET OldItem]
      <3>1. Held(k)' \in OldItem
        BY <1>4, <2>1 DEF UploadItem, OldItem
      <3>2. versions \in [Key -> SUBSET OldItem]
        BY DEF UploadsTyped
      <3>3. PICK held : held = Held(k)'
        OBVIOUS
      <3>4. versions' = [versions EXCEPT ![k] = @ \union {held}] /\ held \in OldItem
        BY <1>1, <3>1, <3>3
      <3> HIDE DEF k
      <3>5. QED
        BY <3>2, <3>4
    <2>3. QED
      BY <1>1, <1>2, <1>3, <1>4, <1>5, <1>6, <1>7, <2>1, <2>2 DEF UploadsTyped, Moves
  <1>9. ASSUME NEW o \in Key, o # k PROVE UploadKept(o)'
    <2>1. added'[o] = added[o] /\ versions'[o] = versions[o]
      BY <1>1, <1>9 DEF UploadsTyped
    <2>2. SameItem(o)
      BY <1>7, <1>9, <2>1 DEF SameItem
    <2>3. QED
      BY <1>1, <1>5, <1>9, <2>2, Elsewhere DEF Moves, ObjectsStay
  <1>10. all \in Seq(Shard) /\ Len(all) \in Nat /\ Threshold \in Nat \ {0}
    <2>1. all \in Seq(Shard)
      BY DEF UploadsTyped, Progress
    <2>2. QED
      BY <2>1, UploadAssumption
  <1>11. AddedTo(k)'
    <2>1. added[k] \subseteq Possible(k) /\ ToSet(r.shards) \subseteq Possible(k)
      BY <1>2 DEF UploadKept, AddedTo, Possible
    <2>2. added'[k] \subseteq Possible(k)'
      BY <1>6, <2>1 DEF Possible
    <2>3. item.ref # NoRef => Len(item.ref) >= Threshold
      <3>1. CASE Len(all) >= Threshold
        BY <1>4, <3>1
      <3>2. CASE ~(Len(all) >= Threshold)
        BY <1>2, <1>4, <3>2 DEF Old, Exists, UploadKept, AddedTo
      <3>3. QED
        BY <3>1, <3>2
    <2>4. QED
      BY <1>7, <2>2, <2>3 DEF AddedTo
  <1>12. Small(k)' <=> Small(k)
    BY DEF Small
  <1>13. Knows(r)' /\ StaysInline(r)'
    BY <1>3, <1>5 DEF Knows, StaysInline, Moves
  <1>14. ASSUME Small(k) PROVE Inline(k)'
    <2>1. Inline(k) /\ AddedTo(k)
      BY <1>2, <1>14 DEF UploadKept
    <2>2. Len(all) < Threshold
      BY <1>1, <2>1 DEF Inline, StaysInline
    <2>3. Old(r).shards = added[k] /\ Old(r).ref = NoRef
      BY <2>1 DEF Inline, AddedTo, Old, Exists
    <2>4. item.ref = NoRef /\ item.shards = added[k] \union ToSet(r.shards)
      BY <1>4, <1>10, <2>2, <2>3
    <2>5. \A q \in Requests : q.key = k /\ q # r => StaysInline(q)'
      BY <1>5, <2>1 DEF Inline, StaysInline, Moves
    <2>6. ASSUME NEW v \in versions'[k] PROVE v.ref = NoRef /\ v.shards \subseteq Possible(k)
      <3>1. v \in versions[k] \/ v = Held(k)'
        BY <1>1, <1>2 DEF UploadsTyped
      <3>2. item.shards \subseteq Possible(k)
        <4>1. added[k] \subseteq Possible(k) /\ ToSet(r.shards) \subseteq Possible(k)
          BY <1>2, <2>1 DEF AddedTo, Possible
        <4>2. QED
          BY <2>4, <4>1
      <3>3. QED
        BY <1>8, <2>1, <2>4, <3>1, <3>2 DEF Inline
    <2>7. QED
      BY <1>6, <1>7, <1>13, <2>4, <2>5, <2>6 DEF Inline, Possible
  <1>15. ASSUME k \notin raced PROVE Undisturbed(k)'
    <2>1. Undisturbed(k) /\ AddedTo(k) /\ Knows(r)
      BY <1>2, <1>15 DEF UploadKept, Undisturbed
    <2>2. \A q \in UnderWay : q.key = k => q = r
      BY <1>2, <2>1 DEF Undisturbed, Alone
    <2>3. UnderWay' \subseteq UnderWay
      BY <1>2, <1>5 DEF UnderWay, Moves
    <2>4. Alone(k)'
      BY <2>2, <2>3 DEF Alone
    <2>5. ASSUME NEW q \in Requests, q.key = k, q # r PROVE Knows(q)'
      <3>1. q \notin UnderWay /\ job'[q] = job[q]
        BY <1>5, <2>2, <2>5 DEF Moves
      <3>2. QED
        BY <3>1 DEF Knows, UnderWay, Answer
    <2>6. Readable(k)' /\ Shards(k)' = added'[k]
      <3>1. CASE Len(all) >= Threshold
        <4>1. item.ref = all /\ ObjectOf(k, all) \in objects /\ ToSet(all) = added[k] \union ToSet(r.shards)
          BY <1>1, <1>4, <2>1, <3>1 DEF Knows
        <4>2. all # NoRef
          BY <1>10, <3>1 DEF NoRef
        <4>3. QED
          BY <1>1, <1>6, <1>7, <4>1, <4>2 DEF Readable, Shards
      <3>2. CASE ~(Len(all) >= Threshold)
        <4>1. Len(all) < Threshold
          BY <1>10, <3>2
        <4>2. k \in DOMAIN uploads => uploads[k].ref = NoRef
          BY <1>1, <2>1, <4>1 DEF Knows
        <4>3. Old(r).shards = added[k] /\ Old(r).ref = NoRef
          BY <2>1, <4>2 DEF Undisturbed, Shards, AddedTo, Old, Exists
        <4>4. item.ref = NoRef /\ item.shards = added[k] \union ToSet(r.shards)
          BY <1>4, <3>2, <4>3
        <4>5. QED
          BY <1>6, <1>7, <4>4 DEF Readable, Shards
      <3>3. QED
        BY <3>1, <3>2
    <2>7. QED
      BY <1>13, <2>4, <2>5, <2>6 DEF Undisturbed
  <1>16. UploadKept(k)'
    BY <1>1, <1>11, <1>12, <1>14, <1>15 DEF UploadKept
  <1>17. QED
    BY <1>8, <1>9, <1>16

LEMMA DeleteItemKeeps ==
    ASSUME ShardsInv, NEW r \in Requests, DeleteItem(r)
    PROVE  ShardsInv'
  <1> USE DEF ShardsInv
  <1> DEFINE k == r.key
  <1>1. job[r].pc = "delete" /\ UNCHANGED <<versions, objects, now, raced>>
    BY DEF DeleteItem
  <1>2. r \in UnderWay /\ k \in Key /\ UploadKept(k)
    BY <1>1, UploadAssumption DEF UnderWay, Answer
  <1>3. CASE ~Exists(k)
    <2>1. End(r, "notFound") /\ UNCHANGED <<uploads, added>>
      BY <1>3 DEF DeleteItem
    <2>2. QED
      BY <1>1, <1>2, <2>1, EndKeeps DEF Answer
  <1>4. CASE Exists(k)
    <2> DEFINE ref == uploads[k].ref
               step == IF ref = NoRef THEN "count" ELSE "object"
               new == [job[r] EXCEPT !.ref = ref, !.pc = step]
    <2>1. /\ k \in DOMAIN uploads
          /\ uploads' = [o \in DOMAIN uploads \ {k} |-> uploads[o]]
          /\ added' = [added EXCEPT ![k] = {}]
          /\ job' = [job EXCEPT ![r].ref = ref, ![r].pc = step]
      BY <1>4 DEF DeleteItem, Exists
    <2>2. job \in [Requests -> Progress] /\ job[r] \in Progress
      BY DEF UploadsTyped
    <2>3. ref \in Seq(Shard) /\ step \in {"count", "object"}
      BY <2>1 DEF UploadsTyped, UploadItem
    <2>4. step = "object" => ref # NoRef
      OBVIOUS
    <2> HIDE DEF ref, step
    <2>5. job' = [job EXCEPT ![r] = new]
      BY <2>1, <2>2
    <2>6. new \in Progress /\ new.pc = step /\ new.ref = ref
      <3>1. step \in Pc
        BY <2>3 DEF Pc
      <3> HIDE DEF Pc
      <3>2. QED
        BY <2>2, <2>3, <3>1 DEF Progress
    <2> HIDE DEF new
    <2>7. Moves(r, step)
      BY <2>2, <2>5, <2>6 DEF Moves
    <2>8. /\ DOMAIN uploads' = DOMAIN uploads \ {k}
          /\ \A o \in DOMAIN uploads' : uploads'[o] = uploads[o]
          /\ added' \in [Key -> SUBSET Shard] /\ added'[k] = {}
          /\ \A o \in Key : o # k => added'[o] = added[o]
      BY <1>2, <2>1 DEF UploadsTyped
    <2>9. UploadsTyped'
      BY <1>1, <2>3, <2>7, <2>8 DEF UploadsTyped, Moves
    <2>10. ASSUME NEW o \in Key, o # k PROVE UploadKept(o)'
      <3>1. SameItem(o)
        BY <1>1, <2>8, <2>10 DEF SameItem
      <3>2. QED
        BY <1>1, <2>7, <2>10, <3>1, Elsewhere DEF Moves, ObjectsStay
    <2>11. AddedTo(k)'
      BY <2>8 DEF AddedTo
    <2>12. Small(k)' <=> Small(k)
      BY DEF Small
    <2>13. Knows(r)'
      BY <2>3, <2>7, <2>8 DEF Knows, Moves
    <2>14. ASSUME Small(k) PROVE Inline(k)'
      <3>1. Inline(k)
        BY <1>2, <2>14 DEF UploadKept
      <3>2. step = "count"
        BY <2>1, <3>1 DEF Inline, step, ref
      <3>3. StaysInline(r)'
        BY <2>7, <3>2 DEF StaysInline, Moves
      <3>4. \A q \in Requests : q.key = k /\ q # r => StaysInline(q)'
        BY <2>7, <3>1 DEF Inline, StaysInline, Moves
      <3>5. QED
        BY <1>1, <2>8, <3>1, <3>3, <3>4 DEF Inline, Possible
    <2>15. ASSUME k \notin raced PROVE Undisturbed(k)'
      <3>1. Undisturbed(k)
        BY <1>2, <2>15 DEF UploadKept
      <3>2. \A q \in UnderWay : q.key = k => q = r
        BY <1>2, <3>1 DEF Undisturbed, Alone
      <3>3. UnderWay' \subseteq UnderWay
        BY <1>2, <2>7 DEF UnderWay, Moves
      <3>4. Alone(k)'
        BY <3>2, <3>3 DEF Alone
      <3>5. ASSUME NEW q \in Requests, q.key = k, q # r PROVE Knows(q)'
        <4>1. q \notin UnderWay /\ job'[q] = job[q]
          BY <2>7, <3>2, <3>5 DEF Moves
        <4>2. QED
          BY <4>1 DEF Knows, UnderWay, Answer
      <3>6. QED
        BY <2>8, <2>13, <3>4, <3>5 DEF Undisturbed
    <2>16. UploadKept(k)'
      BY <1>1, <2>11, <2>12, <2>14, <2>15 DEF UploadKept
    <2>17. QED
      BY <2>9, <2>10, <2>16
  <1>5. QED
    BY <1>3, <1>4

(* The object that goes may be that of another upload, or of one about to   *)
(* refer to it: these have lost their object, and are taken note of.        *)
LEMMA DeleteShardsKeeps ==
    ASSUME ShardsInv, NEW r \in Requests, DeleteShards(r)
    PROVE  ShardsInv'
  <1> USE DEF ShardsInv
  <1> DEFINE k == r.key
             ref == job[r].ref
  <1>1. /\ job[r].pc = "object" /\ UNCHANGED <<uploads, versions, now, added>>
        /\ objects' = objects \ {ObjectOf(k, ref)}
        /\ raced' = raced \union (Sharing(k[1], ref) \ {k})
        /\ End(r, "count")
    BY DEF DeleteShards
  <1>2. r \in UnderWay /\ k \in Key /\ UploadKept(k)
    BY <1>1, UploadAssumption DEF UnderWay, Answer
  <1>3. Moves(r, "count")
    BY <1>1, EndIs DEF Pc
  <1>4. UploadsTyped'
    BY <1>1, <1>3 DEF UploadsTyped, Moves
  <1>5. ASSUME NEW o \in Key, o # k PROVE UploadKept(o)'
    <2>1. SameItem(o)
      BY <1>1 DEF SameItem
    <2>2. ASSUME NEW list, ObjectOf(o, list) \in objects, ObjectOf(o, list) \notin objects', Uses(o, list)
          PROVE  o \in raced'
      <3>1. o[1] = k[1] /\ list = ref
        BY <1>1, <2>2 DEF ObjectOf
      <3>2. o \in Sharing(k[1], ref)
        <4>1. CASE o \in DOMAIN uploads /\ uploads[o].ref = list
          BY <3>1, <4>1 DEF Sharing
        <4>2. ASSUME NEW q \in UnderWay, q.key = o, job[q].all = list PROVE o \in Sharing(k[1], ref)
          <5>1. q \in {x \in UnderWay : x.key[1] = k[1] /\ ref \in {job[x].ref, job[x].all}}
            BY <3>1, <4>2
          <5>2. QED
            BY <4>2, <5>1 DEF Sharing
        <4>3. QED
          BY <2>2, <4>1, <4>2 DEF Uses
      <3>3. QED
        BY <1>1, <1>5, <3>2
    <2>3. ObjectsStay(o)
      BY <2>2 DEF ObjectsStay
    <2>4. raced \subseteq raced'
      BY <1>1
    <2>5. \A q \in Requests : q.key = o => job'[q] = job[q]
      BY <1>3, <1>5 DEF Moves
    <2>6. QED
      BY <1>5, <2>1, <2>3, <2>4, <2>5, Elsewhere
  <1>6. AddedTo(k)'
    BY <1>1, <1>2 DEF UploadKept, AddedTo, Possible
  <1>7. ~Small(k)'
    BY <1>1, <1>2 DEF Small, UploadKept, Inline, StaysInline
  <1>8. ASSUME k \notin raced' PROVE Undisturbed(k)'
    <2>1. Undisturbed(k) /\ Knows(r)
      BY <1>1, <1>2, <1>8 DEF UploadKept, Undisturbed
    <2>2. k \notin DOMAIN uploads
      BY <1>1, <2>1 DEF Knows
    <2>3. \A q \in UnderWay : q.key = k => q = r
      BY <1>2, <2>1 DEF Undisturbed, Alone
    <2>4. UnderWay' \subseteq UnderWay
      BY <1>2, <1>3 DEF UnderWay, Moves
    <2>5. Alone(k)'
      BY <2>3, <2>4 DEF Alone
    <2>6. Knows(r)'
      BY <1>3 DEF Knows, Moves
    <2>7. ASSUME NEW q \in Requests, q.key = k, q # r PROVE Knows(q)'
      <3>1. q \notin UnderWay /\ job'[q] = job[q]
        BY <1>3, <2>3, <2>7 DEF Moves
      <3>2. QED
        BY <3>1 DEF Knows, UnderWay, Answer
    <2>8. QED
      BY <1>1, <2>2, <2>5, <2>6, <2>7 DEF Undisturbed
  <1>9. UploadKept(k)'
    BY <1>6, <1>7, <1>8 DEF UploadKept
  <1>10. QED
    BY <1>4, <1>5, <1>9

(* A step that leaves all of it alone.                                      *)
LEMMA NothingMoves ==
    ASSUME ShardsInv, UNCHANGED <<uploads, versions, objects, job, added, raced>>, now' \in Time
    PROVE  ShardsInv'
  <1>1. UploadsTyped'
    BY DEF ShardsInv, UploadsTyped
  <1>2. ASSUME NEW k \in Key PROVE UploadKept(k)'
    BY Elsewhere DEF ShardsInv, SameItem, ObjectsStay
  <1>3. QED
    BY <1>1, <1>2 DEF ShardsInv

LEMMA ShardsStep ==
    ASSUME ShardsInv, [ContentNext]_<<vars, index>>
    PROVE  ShardsInv'
  <1>1. now \in Time
    BY DEF ShardsInv, UploadsTyped
  <1>2. ASSUME UNCHANGED vars PROVE ShardsInv'
    BY <1>1, <1>2, NothingMoves DEF vars, tables, history
  <1>3. ASSUME Listing PROVE ShardsInv'
    <2>1. UNCHANGED <<uploads, versions, objects, job, added, raced, now>>
      BY <1>3 DEF Listing, OpenListing, ListShards, ListUploads, tables, history
    <2>2. QED
      BY <1>1, <2>1, NothingMoves
  <1>4. ASSUME Tick PROVE ShardsInv'
    <2>1. UNCHANGED <<uploads, versions, objects, job, added, raced>> /\ now < MaxTime /\ now' = now + 1
      BY <1>4 DEF Tick, tables, history
    <2>2. now' \in Time
      BY <1>1, <2>1, UploadAssumption DEF Time
    <2>3. QED
      BY <2>1, <2>2, NothingMoves
  <1>5. ASSUME NEW r \in Requests, Begin(r) \/ Upsert(r) \/ Removal(r) PROVE ShardsInv'
    BY <1>5, BeginKeeps, GetItemKeeps, FetchShardsKeeps, StoreShardsKeeps, UpdateItemKeeps,
       DeleteItemKeeps, DeleteShardsKeeps DEF Upsert, Removal
  <1>6. ASSUME NEW r \in Requests, Count(r) \/ CountFails(r) \/ Stop(r) PROVE ShardsInv'
    <2>1. /\ UNCHANGED <<uploads, versions, added, raced, objects, now>>
          /\ End(r, "ok") \/ End(r, "error")
          /\ job[r].pc = "count" \/ r \in UnderWay
      BY <1>6 DEF Count, CountFails, Stop, tables, history
    <2>2. r \in UnderWay
      BY <2>1 DEF UnderWay, Answer
    <2>3. QED
      BY <2>1, <2>2, EndKeeps DEF Answer
  <1>7. CASE ContentNext
    BY <1>2, <1>3, <1>4, <1>5, <1>6, <1>7 DEF ContentNext, Next
  <1>8. CASE UNCHANGED <<vars, index>>
    BY <1>2, <1>8
  <1>9. QED
    BY <1>7, <1>8

LEMMA ShardsStart == ASSUME Init PROVE ShardsInv
  <1>1. UploadsTyped
    <2>1. NoRef \in Seq(Shard) /\ 0 \in Time
      BY UploadAssumption DEF NoRef, Time
    <2>2. [pc |-> "new", at |-> 0, ref |-> NoRef, all |-> NoRef] \in Progress
      BY <2>1 DEF Progress, Pc
    <2>3. uploads = << >> /\ DOMAIN uploads = {}
      BY DEF Init
    <2>4. NoItem \in OldItem
      BY <2>1 DEF NoItem, OldItem
    <2>5. QED
      BY <2>1, <2>2, <2>3, <2>4 DEF Init, UploadsTyped
  <1>2. ASSUME NEW k \in Key PROVE UploadKept(k)
    <2>1. DOMAIN uploads = {} /\ added[k] = {} /\ \A r \in Requests : job[r].pc = "new"
      BY DEF Init
    <2>2. \A r \in Requests : Knows(r) /\ StaysInline(r)
      BY <2>1 DEF Knows, StaysInline
    <2>3. Alone(k)
      BY <2>1 DEF Alone, UnderWay
    <2>4. \A v \in versions[k] : v.ref = NoRef /\ v.shards \subseteq Possible(k)
      BY DEF Init, NoItem
    <2>5. QED
      BY <2>1, <2>2, <2>3, <2>4 DEF UploadKept, AddedTo, Inline, Undisturbed
  <1>3. QED
    BY <1>1, <1>2 DEF ShardsInv

LEMMA ShardsSafe == ASSUME ShardsInv PROVE ShardsKept
  <1> SUFFICES ASSUME NEW k \in DOMAIN uploads, k \notin raced \/ Small(k)
               PROVE  Readable(k) /\ Shards(k) = added[k]
    BY DEF ShardsKept
  <1>1. k \in Key /\ UploadKept(k)
    BY DEF ShardsInv, UploadsTyped
  <1>2. CASE k \notin raced
    BY <1>1, <1>2 DEF UploadKept, Undisturbed
  <1>3. CASE Small(k)
    BY <1>1, <1>3 DEF UploadKept, Inline, Readable, Shards
  <1>4. QED
    BY <1>2, <1>3

(***************************************************************************)
(* For any spaces, roots, finite set of shards, threshold and requests,    *)
(* with any number of failures: an upload lists exactly the shards added   *)
(* to it since it was last removed, below the threshold whatever is asked  *)
(* at once and however late the item is read, and above it unless two      *)
(* requests were about it at once, an upsert read what it was before, or a *)
(* removal took the object it shared (upload-api/tables/upload.js).        *)
(***************************************************************************)
THEOREM UploadsListTheirShards == ContentSpec => []ShardsKept
  <1>1. ContentInit => ShardsInv
    BY ShardsStart DEF ContentInit
  <1>2. ShardsInv /\ [ContentNext]_<<vars, index>> => ShardsInv'
    BY ShardsStep
  <1>3. ShardsInv => ShardsKept
    BY ShardsSafe
  <1>4. QED
    BY <1>1, <1>2, <1>3, PTL DEF ContentSpec

(***************************************************************************)
(* What is counted. The uploads of some keys are as many as was counted of *)
(* them, and as many as are still due, less those that are due twice.      *)
(***************************************************************************)
Of(K, A) == {r \in A : r.key \in K}

\* What counting a request does to the total of the keys.
Weight(K, r) == IF r.key \in K THEN IF r.op = "add" THEN 1 ELSE -1 ELSE 0

Even(K, total, due, twice, D) ==
    total + Change(Of(K, due)) - Change(Of(K, twice)) = Cardinality(D \intersect K)

LEMMA ChangeType == ASSUME NEW A, IsFiniteSet(A) PROVE Change(A) \in Int
  <1>1. IsFiniteSet({r \in A : r.op = "add"}) /\ IsFiniteSet({r \in A : r.op = "remove"})
    BY FS_Subset
  <1>2. Cardinality({r \in A : r.op = "add"}) \in Nat /\ Cardinality({r \in A : r.op = "remove"}) \in Nat
    BY <1>1, FS_CardinalityType
  <1>3. QED
    BY <1>2 DEF Change

LEMMA OfFinite == ASSUME NEW K, NEW A, IsFiniteSet(A) PROVE IsFiniteSet(Of(K, A))
  BY FS_Subset DEF Of

LEMMA ChangeWith ==
    ASSUME NEW A, IsFiniteSet(A), NEW r, r \notin A, r.op = "add" \/ r.op = "remove"
    PROVE  Change(A \union {r}) = Change(A) + IF r.op = "add" THEN 1 ELSE -1
  <1> DEFINE B == A \union {r}
             Adds(S) == {q \in S : q.op = "add"}
             Removes(S) == {q \in S : q.op = "remove"}
  <1>1. IsFiniteSet(Adds(A)) /\ IsFiniteSet(Removes(A))
    BY FS_Subset
  <1>2. Cardinality(Adds(A)) \in Nat /\ Cardinality(Removes(A)) \in Nat
    BY <1>1, FS_CardinalityType
  <1>3. Change(A) = Cardinality(Adds(A)) - Cardinality(Removes(A))
    BY DEF Change
  <1>4. Change(B) = Cardinality(Adds(B)) - Cardinality(Removes(B))
    BY DEF Change
  <1>5. CASE r.op = "add"
    <2>1. Adds(B) = Adds(A) \union {r} /\ Removes(B) = Removes(A) /\ r \notin Adds(A)
      BY <1>5
    <2>2. Cardinality(Adds(A) \union {r}) = Cardinality(Adds(A)) + 1
      <3> HIDE DEF Adds
      <3>1. QED
        BY <1>1, <2>1, FS_AddElement
    <2> HIDE DEF Adds, Removes, B
    <2>3. Cardinality(Adds(B)) = Cardinality(Adds(A)) + 1 /\ Cardinality(Removes(B)) = Cardinality(Removes(A))
      BY <2>1, <2>2
    <2>4. Change(B) = Change(A) + 1
      BY <1>2, <1>3, <1>4, <2>3
    <2>5. QED
      BY <1>5, <2>4 DEF B
  <1>6. CASE r.op = "remove"
    <2>1. Removes(B) = Removes(A) \union {r} /\ Adds(B) = Adds(A) /\ r \notin Removes(A)
      BY <1>6
    <2>2. Cardinality(Removes(A) \union {r}) = Cardinality(Removes(A)) + 1
      <3> HIDE DEF Removes
      <3>1. QED
        BY <1>1, <2>1, FS_AddElement
    <2> HIDE DEF Adds, Removes, B
    <2>3. Cardinality(Removes(B)) = Cardinality(Removes(A)) + 1 /\ Cardinality(Adds(B)) = Cardinality(Adds(A))
      BY <2>1, <2>2
    <2>4. Change(B) = Change(A) - 1
      BY <1>2, <1>3, <1>4, <2>3
    <2>5. QED
      BY <1>2, <1>3, <1>6, <2>4 DEF B
  <1>7. QED
    BY <1>5, <1>6

LEMMA OfWith ==
    ASSUME NEW K, NEW A, IsFiniteSet(A), NEW r, r \notin A, r.op = "add" \/ r.op = "remove"
    PROVE  /\ Change(Of(K, A)) \in Int /\ Weight(K, r) \in Int
           /\ Change(Of(K, A \union {r})) = Change(Of(K, A)) + Weight(K, r)
  <1>1. IsFiniteSet(Of(K, A))
    BY OfFinite
  <1>2. Change(Of(K, A)) \in Int
    BY <1>1, ChangeType
  <1>3. Weight(K, r) \in Int
    BY DEF Weight
  <1>4. CASE r.key \in K
    <2>1. Of(K, A \union {r}) = Of(K, A) \union {r} /\ r \notin Of(K, A)
      BY <1>4 DEF Of
    <2>2. Change(Of(K, A) \union {r}) = Change(Of(K, A)) + IF r.op = "add" THEN 1 ELSE -1
      BY <1>1, <2>1, ChangeWith
    <2>3. QED
      BY <1>2, <1>3, <1>4, <2>1, <2>2 DEF Weight
  <1>5. CASE r.key \notin K
    <2>1. Of(K, A \union {r}) = Of(K, A) /\ Weight(K, r) = 0
      BY <1>5 DEF Of, Weight
    <2>2. QED
      BY <1>2, <2>1
  <1>6. QED
    BY <1>4, <1>5

LEMMA CountWith ==
    ASSUME NEW K, NEW D, IsFiniteSet(D), NEW k, k \notin D
    PROVE  /\ Cardinality(D \intersect K) \in Nat
           /\ Cardinality((D \union {k}) \intersect K) = Cardinality(D \intersect K) + IF k \in K THEN 1 ELSE 0
  <1>1. IsFiniteSet(D \intersect K) /\ Cardinality(D \intersect K) \in Nat
    BY FS_Intersection, FS_CardinalityType
  <1>2. CASE k \in K
    <2>1. (D \union {k}) \intersect K = (D \intersect K) \union {k} /\ k \notin D \intersect K
      BY <1>2
    <2>2. Cardinality((D \intersect K) \union {k}) = Cardinality(D \intersect K) + 1
      BY <1>1, <2>1, FS_AddElement
    <2>3. QED
      BY <1>1, <1>2, <2>1, <2>2
  <1>3. CASE k \notin K
    <2>1. (D \union {k}) \intersect K = D \intersect K
      BY <1>3
    <2>2. Cardinality((D \union {k}) \intersect K) = Cardinality(D \intersect K) + 0
      <3> DEFINE n == Cardinality(D \intersect K)
      <3>1. n + 0 = n
        <4> HIDE DEF n
        <4>1. QED
          BY <1>1 DEF n
      <3>2. QED
        BY <2>1, <3>1
    <2>3. QED
      BY <1>1, <1>3, <2>2
  <1>4. QED
    BY <1>2, <1>3

\* An upload is made, and is due.
LEMMA EvenMade ==
    ASSUME NEW K, NEW total, NEW due, NEW twice, NEW D, NEW r,
           total \in Int, IsFiniteSet(due), IsFiniteSet(twice), IsFiniteSet(D),
           Even(K, total, due, twice, D), r.op = "add", r \notin due, r.key \notin D
    PROVE  Even(K, total, due \union {r}, twice, D \union {r.key})
  <1>1. Change(Of(K, due)) \in Int /\ Change(Of(K, due \union {r})) = Change(Of(K, due)) + Weight(K, r)
    BY OfWith
  <1>2. Change(Of(K, twice)) \in Int
    BY OfFinite, ChangeType
  <1>3. /\ Cardinality(D \intersect K) \in Nat
        /\ Cardinality((D \union {r.key}) \intersect K) = Cardinality(D \intersect K) + IF r.key \in K THEN 1 ELSE 0
    BY CountWith
  <1>4. QED
    BY <1>1, <1>2, <1>3 DEF Even, Weight

\* An upload goes, and its removal is due.
LEMMA EvenGone ==
    ASSUME NEW K, NEW total, NEW due, NEW twice, NEW D, NEW r,
           total \in Int, IsFiniteSet(due), IsFiniteSet(twice), IsFiniteSet(D),
           Even(K, total, due, twice, D), r.op = "remove", r \notin due, r.key \in D
    PROVE  Even(K, total, due \union {r}, twice, D \ {r.key})
  <1>1. Change(Of(K, due)) \in Int /\ Change(Of(K, due \union {r})) = Change(Of(K, due)) + Weight(K, r)
    BY OfWith
  <1>2. Change(Of(K, twice)) \in Int
    BY OfFinite, ChangeType
  <1> DEFINE E == D \ {r.key}
  <1>3. IsFiniteSet(E) /\ r.key \notin E /\ E \union {r.key} = D
    BY FS_Difference
  <1>4. /\ Cardinality(E \intersect K) \in Nat
        /\ Cardinality((E \union {r.key}) \intersect K) = Cardinality(E \intersect K) + IF r.key \in K THEN 1 ELSE 0
    <2> HIDE DEF E
    <2>1. QED
      BY <1>3, CountWith
  <1>5. Cardinality(D \intersect K) = Cardinality(E \intersect K) + IF r.key \in K THEN 1 ELSE 0
    BY <1>3, <1>4
  <1> HIDE DEF E
  <1>6. Even(K, total, due \union {r}, twice, E)
    BY <1>1, <1>2, <1>4, <1>5 DEF Even, Weight
  <1>7. QED
    BY <1>6 DEF E

\* One is due that is due already.
LEMMA EvenTwice ==
    ASSUME NEW K, NEW total, NEW due, NEW twice, NEW D, NEW r,
           total \in Int, IsFiniteSet(due), IsFiniteSet(twice), IsFiniteSet(D),
           Even(K, total, due, twice, D), r.op = "add", r \notin due, r \notin twice
    PROVE  Even(K, total, due \union {r}, twice \union {r}, D)
  <1>1. /\ Change(Of(K, due)) \in Int /\ Weight(K, r) \in Int
        /\ Change(Of(K, due \union {r})) = Change(Of(K, due)) + Weight(K, r)
    BY OfWith
  <1>2. /\ Change(Of(K, twice)) \in Int
        /\ Change(Of(K, twice \union {r})) = Change(Of(K, twice)) + Weight(K, r)
    BY OfWith
  <1>3. QED
    BY <1>1, <1>2 DEF Even

\* What was due is counted.
LEMMA EvenCounted ==
    ASSUME NEW K, NEW total, NEW due, NEW twice, NEW D, NEW r,
           total \in Int, IsFiniteSet(due), IsFiniteSet(twice), IsFiniteSet(D),
           Even(K, total, due, twice, D), r.op = "add" \/ r.op = "remove", r \in due
    PROVE  Weight(K, r) \in Int /\ Even(K, total + Weight(K, r), due \ {r}, twice, D)
  <1> DEFINE rest == due \ {r}
  <1>1. IsFiniteSet(rest) /\ r \notin rest /\ rest \union {r} = due
    BY FS_Difference
  <1> HIDE DEF rest
  <1>2. /\ Change(Of(K, rest)) \in Int /\ Weight(K, r) \in Int
        /\ Change(Of(K, rest \union {r})) = Change(Of(K, rest)) + Weight(K, r)
    BY <1>1, OfWith
  <1>3. Change(Of(K, due)) = Change(Of(K, rest)) + Weight(K, r)
    BY <1>1, <1>2
  <1>4. Change(Of(K, twice)) \in Int
    BY OfFinite, ChangeType
  <1>5. Even(K, total + Weight(K, r), rest, twice, D)
    BY <1>2, <1>3, <1>4 DEF Even
  <1>6. QED
    BY <1>2, <1>5 DEF rest

(***************************************************************************)
(* The strengthening. An upload that is there was made by an upsert that   *)
(* is past its update; the sums come out for each space and the service.   *)
(***************************************************************************)
KeysOf(s) == {k \in Key : k[1] = s}

Past == {"count", "ok", "error"}

Made(k) ==
    \E q \in Requests :
        /\ q.op = "add" /\ q.key = k
        /\ job[q].at = uploads[k].insertedAt /\ job[q].pc \in Past

CountsTyped ==
    /\ spaceTotals \in [Space -> [added : Int, removed : Int]]
    /\ adminTotals \in [added : Int, removed : Int]
    /\ faults \in Nat
    /\ IsFiniteSet(DOMAIN uploads)
    /\ IsFiniteSet({r \in Requests : job[r].pc # "new"})
    /\ \A r \in Requests : job[r].pc \in {"delete", "object"} => r.op = "remove"
    /\ \A k \in DOMAIN uploads : Made(k)

SpaceNet(s) == spaceTotals[s].added + spaceTotals[s].removed

AdminNet == adminTotals.added - adminTotals.removed

Sums(sm, am, tw) ==
    /\ \A s \in Space : Even(KeysOf(s), SpaceNet(s), Uncounted \union sm, tw, DOMAIN uploads)
    /\ Even(Key, AdminNet, Uncounted \union am, tw, DOMAIN uploads)

Balanced(sm, am, tw) ==
    /\ sm \subseteq Failed /\ am \subseteq Failed
    /\ tw \subseteq Together /\ \A r \in tw : job[r].pc \in Past
    /\ Cardinality(sm \union am) <= faults
    /\ Sums(sm, am, tw)

CountedInv ==
    /\ CountsTyped
    /\ \E sm \in SUBSET Requests : \E am \in SUBSET Requests : \E tw \in SUBSET Requests :
           Balanced(sm, am, tw)

-----------------------------------------------------------------------------
\* What a step does to the requests, when they were begun included.
Goes(r, step) ==
    /\ job'[r].pc = step /\ job'[r].at = job[r].at
    /\ \A q \in Requests : q # r => job'[q] = job[q]

LEMMA GoesTo == ASSUME UploadsTyped, NEW r \in Requests, NEW step, GoTo(r, step) PROVE Goes(r, step)
  <1>1. job \in [Requests -> Progress] /\ job[r] \in Progress
    BY DEF UploadsTyped
  <1>2. job'[r] = [job[r] EXCEPT !.pc = step] /\ \A q \in Requests : q # r => job'[q] = job[q]
    BY <1>1 DEF GoTo
  <1>3. QED
    <2> HIDE DEF Pc
    <2>1. QED
      BY <1>1, <1>2 DEF Goes, Progress

LEMMA GoesOn ==
    ASSUME UploadsTyped, NEW r \in Requests, NEW step, NEW ref, NEW all,
           job' = [job EXCEPT ![r].pc = step, ![r].ref = ref, ![r].all = all]
    PROVE  Goes(r, step)
  <1>1. job \in [Requests -> Progress] /\ job[r] \in Progress
    BY DEF UploadsTyped
  <1>2. /\ job'[r] = [job[r] EXCEPT !.pc = step, !.ref = ref, !.all = all]
        /\ \A q \in Requests : q # r => job'[q] = job[q]
    BY <1>1
  <1>3. QED
    <2> HIDE DEF Pc
    <2>1. QED
      BY <1>1, <1>2 DEF Goes, Progress

LEMMA GoesToRef ==
    ASSUME UploadsTyped, NEW r \in Requests, NEW step, NEW ref,
           job' = [job EXCEPT ![r].pc = step, ![r].ref = ref]
    PROVE  Goes(r, step)
  <1>1. job \in [Requests -> Progress] /\ job[r] \in Progress
    BY DEF UploadsTyped
  <1>2. /\ job'[r] = [job[r] EXCEPT !.pc = step, !.ref = ref]
        /\ \A q \in Requests : q # r => job'[q] = job[q]
    BY <1>1
  <1>3. QED
    <2> HIDE DEF Pc
    <2>1. QED
      BY <1>1, <1>2 DEF Goes, Progress

LEMMA GoesToRefFirst ==
    ASSUME UploadsTyped, NEW r \in Requests, NEW step, NEW ref,
           job' = [job EXCEPT ![r].ref = ref, ![r].pc = step]
    PROVE  Goes(r, step)
  <1>1. job \in [Requests -> Progress] /\ job[r] \in Progress
    BY DEF UploadsTyped
  <1>2. /\ job'[r] = [job[r] EXCEPT !.ref = ref, !.pc = step]
        /\ \A q \in Requests : q # r => job'[q] = job[q]
    BY <1>1
  <1>3. QED
    <2> HIDE DEF Pc
    <2>1. QED
      BY <1>1, <1>2 DEF Goes, Progress

LEMMA Ends == ASSUME UploadsTyped, NEW r \in Requests, NEW step, End(r, step) PROVE Goes(r, step)
  BY GoesOn DEF End

LEMMA MergeGoes ==
    ASSUME UploadsTyped, NEW r \in Requests, NEW existing, NEW ref, Merge(r, existing, ref)
    PROVE  \E step \in {"put", "update"} : Goes(r, step)
  <1>1. PICK all : all = Merged(existing, r.shards)
    OBVIOUS
  <1>2. PICK step : step = IF Len(all) >= Threshold THEN "put" ELSE "update"
    OBVIOUS
  <1>3. job' = [job EXCEPT ![r].pc = step, ![r].ref = ref, ![r].all = all]
    BY <1>1, <1>2 DEF Merge
  <1>4. QED
    BY <1>2, <1>3, GoesOn

-----------------------------------------------------------------------------
(* Every step is of a request that has not come to its end. Those that     *)
(* began at one time with another did so before and after.                 *)
OfOne(r, step) ==
    /\ Goes(r, step)
    /\ job[r].pc \notin {"new", "ok", "notFound", "error"} /\ step # "new"
    /\ job[r].pc \in Past => step \in Past
    /\ step \in {"delete", "object"} => r.op = "remove"

LEMMA StaysTogether ==
    ASSUME NEW r \in Requests, NEW step, OfOne(r, step)
    PROVE  /\ Together \subseteq Together'
           /\ Failed \subseteq Failed'
           /\ \A q \in Requests : job[q].pc \in Past => job'[q].pc \in Past
           /\ {q \in Requests : job'[q].pc # "new"} = {q \in Requests : job[q].pc # "new"}
  <1>1. \A q \in Requests : job'[q].at = job[q].at /\ (job'[q].pc = "new" <=> job[q].pc = "new")
    BY DEF OfOne, Goes
  <1>2. Begun' = Begun
    BY <1>1 DEF Begun
  <1>3. Together' = Together
    BY <1>1, <1>2 DEF Together, Begun
  <1>4. QED
    BY <1>1, <1>3 DEF OfOne, Goes, Failed

LEMMA MadeStays ==
    ASSUME NEW r \in Requests, NEW step, OfOne(r, step), NEW k \in DOMAIN uploads, Made(k),
           k \in DOMAIN uploads', uploads'[k].insertedAt = uploads[k].insertedAt
    PROVE  Made(k)'
  <1>1. PICK q \in Requests : /\ q.op = "add" /\ q.key = k
                              /\ job[q].at = uploads[k].insertedAt /\ job[q].pc \in Past
    BY DEF Made
  <1>2. job'[q].at = job[q].at /\ job'[q].pc \in Past
    BY <1>1 DEF OfOne, Goes
  <1>3. QED
    BY <1>1, <1>2 DEF Made

\* The requests there are to sum over.
LEMMA DueFinite ==
    ASSUME CountsTyped
    PROVE  /\ IsFiniteSet(Uncounted) /\ IsFiniteSet(Failed) /\ IsFiniteSet(Together)
  <1> DEFINE Started == {r \in Requests : job[r].pc # "new"}
  <1>1. Uncounted \subseteq Started /\ Failed \subseteq Started /\ Together \subseteq Started
    BY DEF Uncounted, Failed, Together, Begun
  <1>2. IsFiniteSet(Started)
    BY DEF CountsTyped
  <1> HIDE DEF Started
  <1>3. QED
    BY <1>1, <1>2, FS_Subset

LEMMA NetsAre ==
    ASSUME CountsTyped
    PROVE  AdminNet \in Int /\ \A s \in Space : SpaceNet(s) \in Int
  BY DEF CountsTyped, AdminNet, SpaceNet

\* Sets of requests, with which the sums come out after a step.
LEMMA BalancedIs ==
    ASSUME NEW sm, NEW am, NEW tw, sm \subseteq Requests, am \subseteq Requests, tw \subseteq Requests,
           CountsTyped', Balanced(sm, am, tw)'
    PROVE  CountedInv'
  BY DEF CountedInv

LEMMA TotalsStay ==
    ASSUME UNCHANGED totals, NEW s
    PROVE  SpaceNet(s)' = SpaceNet(s) /\ AdminNet' = AdminNet
  BY DEF totals, SpaceNet, AdminNet

(* A step after which no more and no less is due.                          *)
LEMMA NoneCounted ==
    ASSUME CountedInv, NEW r \in Requests, NEW step, OfOne(r, step),
           step \in {"object", "count"} <=> job[r].pc \in {"object", "count"},
           DOMAIN uploads' = DOMAIN uploads,
           \A k \in DOMAIN uploads : uploads'[k].insertedAt = uploads[k].insertedAt,
           UNCHANGED totals, faults' \in Nat, faults <= faults'
    PROVE  CountedInv'
  <1>1. CountsTyped
    BY DEF CountedInv
  <1>2. PICK sm \in SUBSET Requests : \E am \in SUBSET Requests : \E tw \in SUBSET Requests :
               Balanced(sm, am, tw)
    BY DEF CountedInv
  <1>3. PICK am \in SUBSET Requests : \E tw \in SUBSET Requests : Balanced(sm, am, tw)
    BY <1>2
  <1>4. PICK tw \in SUBSET Requests : Balanced(sm, am, tw)
    BY <1>3
  <1>5. CountsTyped'
    <2>1. \A k \in DOMAIN uploads' : Made(k)'
      BY <1>1, MadeStays DEF CountsTyped
    <2>2. {q \in Requests : job'[q].pc # "new"} = {q \in Requests : job[q].pc # "new"}
      BY StaysTogether
    <2>3. \A q \in Requests : job'[q].pc \in {"delete", "object"} => q.op = "remove"
      BY <1>1 DEF CountsTyped, OfOne, Goes
    <2>4. QED
      BY <1>1, <2>1, <2>2, <2>3 DEF CountsTyped, totals
  <1>6. Uncounted' = Uncounted
    BY DEF Uncounted, OfOne, Goes
  <1>7. /\ sm \subseteq Failed' /\ am \subseteq Failed' /\ tw \subseteq Together'
        /\ \A q \in tw : job'[q].pc \in Past
    BY <1>4, StaysTogether DEF Balanced
  <1>8. Cardinality(sm \union am) <= faults'
    <2>1. IsFiniteSet(sm \union am)
      BY <1>1, <1>4, DueFinite, FS_Subset, FS_Union DEF Balanced
    <2>2. Cardinality(sm \union am) \in Nat
      BY <2>1, FS_CardinalityType
    <2>3. QED
      BY <1>1, <1>4, <2>2 DEF Balanced, CountsTyped
  <1>9. Sums(sm, am, tw)'
    BY <1>4, <1>6, TotalsStay DEF Balanced, Sums
  <1>10. Balanced(sm, am, tw)'
    BY <1>7, <1>8, <1>9 DEF Balanced
  <1>11. QED
    BY <1>5, <1>10, BalancedIs

LEMMA BeginCounts ==
    ASSUME UploadsTyped, CountedInv, NEW r \in Requests, Begin(r)
    PROVE  CountedInv'
  <1> DEFINE step == IF r.op = "add" THEN "get" ELSE "delete"
  <1>1. CountsTyped
    BY DEF CountedInv
  <1>2. PICK sm \in SUBSET Requests : \E am \in SUBSET Requests : \E tw \in SUBSET Requests :
               Balanced(sm, am, tw)
    BY DEF CountedInv
  <1>3. PICK am \in SUBSET Requests : \E tw \in SUBSET Requests : Balanced(sm, am, tw)
    BY <1>2
  <1>4. PICK tw \in SUBSET Requests : Balanced(sm, am, tw)
    BY <1>3
  <1>5. job[r].pc = "new" /\ UNCHANGED <<uploads, spaceTotals, adminTotals, faults>>
    BY DEF Begin, tables, totals
  <1>6. job'[r].pc = step /\ \A q \in Requests : q # r => job'[q] = job[q]
    <2>1. job \in [Requests -> Progress] /\ job[r] \in Progress
      BY DEF UploadsTyped
    <2>2. /\ job'[r] = [job[r] EXCEPT !.pc = step, !.at = now]
          /\ \A q \in Requests : q # r => job'[q] = job[q]
      BY <2>1 DEF Begin
    <2> HIDE DEF Pc, step
    <2>3. QED
      BY <2>1, <2>2 DEF Progress
  <1>7. CountsTyped'
    <2>1. ASSUME NEW k \in DOMAIN uploads' PROVE Made(k)'
      <3>1. PICK q \in Requests : /\ q.op = "add" /\ q.key = k
                                  /\ job[q].at = uploads[k].insertedAt /\ job[q].pc \in Past
        BY <1>1, <1>5, <2>1 DEF CountsTyped, Made
      <3>2. q # r
        BY <1>5, <3>1 DEF Past
      <3>3. QED
        BY <1>5, <1>6, <3>1, <3>2 DEF Made
    <2> DEFINE Started == {q \in Requests : job[q].pc # "new"}
    <2>2. Started' = Started \union {r}
      BY <1>6
    <2>3. IsFiniteSet(Started \union {r})
      <3>1. IsFiniteSet(Started)
        BY <1>1 DEF CountsTyped
      <3> HIDE DEF Started
      <3>2. QED
        BY <3>1, FS_AddElement
    <2>4. \A q \in Requests : job'[q].pc \in {"delete", "object"} => q.op = "remove"
      BY <1>1, <1>6, UploadAssumption DEF CountsTyped
    <2>5. IsFiniteSet({q \in Requests : job'[q].pc # "new"})
      BY <2>2, <2>3
    <2> HIDE DEF Started
    <2>6. QED
      BY <1>1, <1>5, <2>1, <2>4, <2>5 DEF CountsTyped
  <1>8. Uncounted' = Uncounted
    BY <1>5, <1>6 DEF Uncounted
  <1>9. Failed \subseteq Failed'
    BY <1>5, <1>6 DEF Failed
  <1>10. \A q \in Begun : job'[q] = job[q] /\ q \in Begun'
    BY <1>5, <1>6 DEF Begun
  <1>11. Together \subseteq Together'
    BY <1>10 DEF Together
  <1>12. \A q \in tw : job'[q].pc \in Past
    BY <1>4, <1>10 DEF Balanced, Together
  <1>13. Sums(sm, am, tw)'
    BY <1>4, <1>5, <1>8, TotalsStay DEF Balanced, Sums, totals
  <1>14. Balanced(sm, am, tw)'
    BY <1>4, <1>5, <1>9, <1>11, <1>12, <1>13 DEF Balanced
  <1>15. QED
    BY <1>7, <1>14, BalancedIs

(* An upsert that makes an upload is to be counted; one that finds its     *)
(* time in the upload is one of two, and is to be counted again.           *)
LEMMA UpdateCounts ==
    ASSUME UploadsTyped, CountedInv, NEW r \in Requests, UpdateItem(r), IsNew(Updated(r))
    PROVE  CountedInv'
  <1> DEFINE k == r.key
  <1>1. CountsTyped
    BY DEF CountedInv
  <1>2. PICK sm \in SUBSET Requests : \E am \in SUBSET Requests : \E tw \in SUBSET Requests :
               Balanced(sm, am, tw)
    BY DEF CountedInv
  <1>3. PICK am \in SUBSET Requests : \E tw \in SUBSET Requests : Balanced(sm, am, tw)
    BY <1>2
  <1>4. PICK tw \in SUBSET Requests : Balanced(sm, am, tw)
    BY <1>3
  <1>5. PICK item : item = Updated(r)
    OBVIOUS
  <1>6. /\ job[r].pc = "update" /\ End(r, "count") /\ UNCHANGED <<spaceTotals, adminTotals, faults>>
        /\ uploads' = [o \in DOMAIN uploads \union {k} |-> IF o = k THEN item ELSE uploads[o]]
    BY <1>5 DEF UpdateItem, totals
  <1>7. r.op = "add" /\ r \notin Uncounted /\ r \notin Failed /\ r \notin tw /\ r \in Begun
    BY <1>4, <1>6 DEF UploadsTyped, Uncounted, Failed, Balanced, Past, Begun
  <1>8. item.insertedAt = Old(r).insertedAt /\ item.insertedAt = job[r].at
    <2>1. /\ Updated(r).insertedAt = Old(r).insertedAt
          /\ Updated(r).updatedAt = job[r].at
      <3>1. Old(r) \in UploadItem
        BY <1>7, UpdatedIs
      <3>2. QED
        BY <3>1 DEF Updated, UploadItem
    <2>2. QED
      BY <1>5, <2>1 DEF IsNew
  <1>9. Goes(r, "count") /\ OfOne(r, "count")
    <2>1. Goes(r, "count")
      BY <1>6, Ends
    <2>2. QED
      BY <1>6, <2>1 DEF OfOne, Past
  <1>10. DOMAIN uploads' = DOMAIN uploads \union {k}
    BY <1>6
  <1>11. CountsTyped'
    <2>1. ASSUME NEW o \in DOMAIN uploads' PROVE Made(o)'
      <3>1. CASE o = k
        <4>1. uploads'[k].insertedAt = job'[r].at /\ job'[r].pc \in Past
          BY <1>6, <1>8, <1>9 DEF Goes, Past
        <4>2. QED
          BY <1>7, <3>1, <4>1 DEF Made
      <3>2. CASE o # k
        <4>1. o \in DOMAIN uploads /\ Made(o) /\ uploads'[o].insertedAt = uploads[o].insertedAt
          BY <1>1, <1>6, <2>1, <3>2 DEF CountsTyped
        <4>2. QED
          BY <1>9, <2>1, <4>1, MadeStays
      <3>3. QED
        BY <3>1, <3>2
    <2>2. {q \in Requests : job'[q].pc # "new"} = {q \in Requests : job[q].pc # "new"}
      BY <1>9, StaysTogether
    <2>3. \A q \in Requests : job'[q].pc \in {"delete", "object"} => q.op = "remove"
      BY <1>1, <1>9 DEF CountsTyped, OfOne, Goes
    <2>4. IsFiniteSet(DOMAIN uploads')
      <3>1. IsFiniteSet(DOMAIN uploads)
        BY <1>1 DEF CountsTyped
      <3>2. IsFiniteSet(DOMAIN uploads \union {k})
        BY <3>1, FS_AddElement
      <3>3. QED
        BY <1>10, <3>2
    <2>5. QED
      BY <1>1, <1>6, <2>1, <2>2, <2>3, <2>4 DEF CountsTyped
  <1>12. Uncounted' = Uncounted \union {r}
    BY <1>9 DEF Uncounted, Goes
  <1>13. /\ sm \subseteq Failed' /\ am \subseteq Failed' /\ tw \subseteq Together'
         /\ \A q \in tw : job'[q].pc \in Past
    BY <1>4, <1>9, StaysTogether DEF Balanced
  <1>14. /\ IsFiniteSet(Uncounted \union sm) /\ IsFiniteSet(Uncounted \union am) /\ IsFiniteSet(tw)
         /\ IsFiniteSet(DOMAIN uploads) /\ r \notin Uncounted \union sm /\ r \notin Uncounted \union am
    <2>1. IsFiniteSet(sm) /\ IsFiniteSet(am) /\ IsFiniteSet(tw) /\ IsFiniteSet(Uncounted)
      BY <1>1, <1>4, DueFinite, FS_Subset DEF Balanced
    <2>2. QED
      BY <1>1, <1>4, <1>7, <2>1, FS_Union DEF Balanced, CountsTyped
  <1>15. /\ (Uncounted \union sm) \union {r} = Uncounted' \union sm
         /\ (Uncounted \union am) \union {r} = Uncounted' \union am
    BY <1>12
  <1>16. AdminNet \in Int /\ \A s \in Space : SpaceNet(s) \in Int
    BY <1>1, NetsAre
  <1>17. AdminNet' = AdminNet /\ \A s : SpaceNet(s)' = SpaceNet(s)
    BY <1>6, TotalsStay DEF totals
  <1>18. CASE k \notin DOMAIN uploads
    <2>1. \A s \in Space : Even(KeysOf(s), SpaceNet(s), Uncounted' \union sm, tw, DOMAIN uploads')
      BY <1>4, <1>7, <1>10, <1>14, <1>15, <1>16, <1>18, EvenMade DEF Balanced, Sums
    <2>2. Even(Key, AdminNet, Uncounted' \union am, tw, DOMAIN uploads')
      BY <1>4, <1>7, <1>10, <1>14, <1>15, <1>16, <1>18, EvenMade DEF Balanced, Sums
    <2>3. Sums(sm, am, tw)'
      BY <1>17, <2>1, <2>2 DEF Sums
    <2>4. Balanced(sm, am, tw)'
      BY <1>4, <1>6, <1>13, <2>3 DEF Balanced
    <2>5. QED
      BY <1>11, <2>4, BalancedIs
  <1>19. CASE k \in DOMAIN uploads
    <2>1. PICK q \in Requests : /\ q.op = "add" /\ q.key = k
                                /\ job[q].at = uploads[k].insertedAt /\ job[q].pc \in Past
      BY <1>1, <1>19 DEF CountsTyped, Made
    <2>2. uploads[k].insertedAt = job[r].at
      BY <1>8, <1>19 DEF Old, Exists
    <2>3. q # r /\ q \in Begun
      BY <1>6, <2>1 DEF Past, Begun
    <2>4. r \in Together
      BY <1>7, <2>1, <2>2, <2>3 DEF Together
    <2>5. DOMAIN uploads' = DOMAIN uploads
      BY <1>10, <1>19
    <2>6. \A s \in Space : Even(KeysOf(s), SpaceNet(s), Uncounted' \union sm, tw \union {r}, DOMAIN uploads')
      BY <1>4, <1>7, <1>14, <1>15, <1>16, <2>5, EvenTwice DEF Balanced, Sums
    <2>7. Even(Key, AdminNet, Uncounted' \union am, tw \union {r}, DOMAIN uploads')
      BY <1>4, <1>7, <1>14, <1>15, <1>16, <2>5, EvenTwice DEF Balanced, Sums
    <2>8. PICK more \in SUBSET Requests : more = tw \union {r}
      OBVIOUS
    <2>9. Sums(sm, am, more)'
      BY <1>17, <2>6, <2>7, <2>8 DEF Sums
    <2>10. more \subseteq Together' /\ \A x \in more : job'[x].pc \in Past
      BY <1>9, <1>13, <2>4, <2>8, StaysTogether DEF Goes, Past
    <2>11. Balanced(sm, am, more)'
      BY <1>4, <1>6, <1>13, <2>9, <2>10 DEF Balanced
    <2>12. QED
      BY <1>11, <2>11, BalancedIs
  <1>20. QED
    BY <1>18, <1>19

(* A removal that takes an item is to be counted.                          *)
LEMMA DeleteCounts ==
    ASSUME UploadsTyped, CountedInv, NEW r \in Requests, DeleteItem(r), Exists(r.key)
    PROVE  CountedInv'
  <1> DEFINE k == r.key
  <1>1. CountsTyped
    BY DEF CountedInv
  <1>2. PICK sm \in SUBSET Requests : \E am \in SUBSET Requests : \E tw \in SUBSET Requests :
               Balanced(sm, am, tw)
    BY DEF CountedInv
  <1>3. PICK am \in SUBSET Requests : \E tw \in SUBSET Requests : Balanced(sm, am, tw)
    BY <1>2
  <1>4. PICK tw \in SUBSET Requests : Balanced(sm, am, tw)
    BY <1>3
  <1>5. PICK ref : ref = uploads[k].ref
    OBVIOUS
  <1>6. PICK step : step = IF ref = NoRef THEN "count" ELSE "object"
    OBVIOUS
  <1>7. /\ job[r].pc = "delete" /\ UNCHANGED <<spaceTotals, adminTotals, faults>>
        /\ uploads' = [o \in DOMAIN uploads \ {k} |-> uploads[o]]
        /\ job' = [job EXCEPT ![r].ref = ref, ![r].pc = step] /\ k \in DOMAIN uploads
    BY <1>5, <1>6 DEF DeleteItem, Exists, totals
  <1>8. r.op = "remove" /\ r \notin Uncounted /\ r \notin Failed
    BY <1>1, <1>7 DEF CountsTyped, Uncounted, Failed
  <1>9. Goes(r, step) /\ OfOne(r, step) /\ step \in {"count", "object"}
    <2>1. Goes(r, step)
      BY <1>7, GoesToRefFirst
    <2>2. QED
      BY <1>6, <1>7, <1>8, <2>1 DEF OfOne, Past
  <1>10. DOMAIN uploads' = DOMAIN uploads \ {k}
    BY <1>7
  <1>11. CountsTyped'
    <2>1. ASSUME NEW o \in DOMAIN uploads' PROVE Made(o)'
      <3>1. o \in DOMAIN uploads /\ Made(o) /\ uploads'[o].insertedAt = uploads[o].insertedAt
        BY <1>1, <1>7, <2>1 DEF CountsTyped
      <3>2. QED
        BY <1>9, <2>1, <3>1, MadeStays
    <2>2. {q \in Requests : job'[q].pc # "new"} = {q \in Requests : job[q].pc # "new"}
      BY <1>9, StaysTogether
    <2>3. \A q \in Requests : job'[q].pc \in {"delete", "object"} => q.op = "remove"
      BY <1>1, <1>9 DEF CountsTyped, OfOne, Goes
    <2>4. IsFiniteSet(DOMAIN uploads')
      <3>1. IsFiniteSet(DOMAIN uploads)
        BY <1>1 DEF CountsTyped
      <3>2. IsFiniteSet(DOMAIN uploads \ {k})
        BY <3>1, FS_Difference
      <3>3. QED
        BY <1>10, <3>2
    <2>5. QED
      BY <1>1, <1>7, <2>1, <2>2, <2>3, <2>4 DEF CountsTyped
  <1>12. Uncounted' = Uncounted \union {r}
    BY <1>9 DEF Uncounted, Goes
  <1>13. /\ sm \subseteq Failed' /\ am \subseteq Failed' /\ tw \subseteq Together'
         /\ \A q \in tw : job'[q].pc \in Past
    BY <1>4, <1>9, StaysTogether DEF Balanced
  <1>14. /\ IsFiniteSet(Uncounted \union sm) /\ IsFiniteSet(Uncounted \union am) /\ IsFiniteSet(tw)
         /\ IsFiniteSet(DOMAIN uploads) /\ r \notin Uncounted \union sm /\ r \notin Uncounted \union am
    <2>1. IsFiniteSet(sm) /\ IsFiniteSet(am) /\ IsFiniteSet(tw) /\ IsFiniteSet(Uncounted)
      BY <1>1, <1>4, DueFinite, FS_Subset DEF Balanced
    <2>2. QED
      BY <1>1, <1>4, <1>8, <2>1, FS_Union DEF Balanced, CountsTyped
  <1>15. /\ (Uncounted \union sm) \union {r} = Uncounted' \union sm
         /\ (Uncounted \union am) \union {r} = Uncounted' \union am
    BY <1>12
  <1>16. AdminNet \in Int /\ \A s \in Space : SpaceNet(s) \in Int
    BY <1>1, NetsAre
  <1>17. AdminNet' = AdminNet /\ \A s : SpaceNet(s)' = SpaceNet(s)
    BY <1>7, TotalsStay DEF totals
  <1>18. \A s \in Space : Even(KeysOf(s), SpaceNet(s), Uncounted' \union sm, tw, DOMAIN uploads')
    BY <1>4, <1>7, <1>8, <1>10, <1>14, <1>15, <1>16, EvenGone DEF Balanced, Sums
  <1>19. Even(Key, AdminNet, Uncounted' \union am, tw, DOMAIN uploads')
    BY <1>4, <1>7, <1>8, <1>10, <1>14, <1>15, <1>16, EvenGone DEF Balanced, Sums
  <1>20. Sums(sm, am, tw)'
    BY <1>17, <1>18, <1>19 DEF Sums
  <1>21. Balanced(sm, am, tw)'
    BY <1>4, <1>7, <1>13, <1>20 DEF Balanced
  <1>22. QED
    BY <1>11, <1>21, BalancedIs

(* Where a request is counted.                                             *)
LEMMA CountingIs ==
    ASSUME CountsTyped, NEW r \in Requests
    PROVE  /\ CountSpace(r) => /\ spaceTotals' \in [Space -> [added : Int, removed : Int]]
                               /\ \A s \in Space : SpaceNet(s)' = SpaceNet(s) + Weight(KeysOf(s), r)
           /\ CountAdmin(r) => /\ adminTotals' \in [added : Int, removed : Int]
                               /\ AdminNet' = AdminNet + Weight(Key, r)
  <1>1. r.op = "add" \/ r.op = "remove"
    BY UploadAssumption
  <1>2. r.key \in Key /\ r.key[1] \in Space
    BY UploadAssumption DEF Key
  <1>3. spaceTotals \in [Space -> [added : Int, removed : Int]]
        /\ adminTotals \in [added : Int, removed : Int]
    BY DEF CountsTyped
  <1>4. ASSUME CountSpace(r)
        PROVE  /\ spaceTotals' \in [Space -> [added : Int, removed : Int]]
               /\ \A s \in Space : SpaceNet(s)' = SpaceNet(s) + Weight(KeysOf(s), r)
    <2> DEFINE s0 == r.key[1]
    <2>1. PICK old \in [added : Int, removed : Int] : old = spaceTotals[s0]
      BY <1>2, <1>3
    <2>2. PICK n \in [added : Int, removed : Int] :
             /\ n.added + n.removed = old.added + old.removed + IF r.op = "add" THEN 1 ELSE -1
             /\ spaceTotals' = [spaceTotals EXCEPT ![s0] = n]
      <3>1. CASE r.op = "add"
        <4>1. PICK n \in [added : Int, removed : Int] : n = [old EXCEPT !.added = @ + 1]
          <5>1. old.added + 1 \in Int
            BY <2>1
          <5>2. [old EXCEPT !.added = @ + 1] \in [added : Int, removed : Int]
            BY <2>1, <5>1
          <5>3. QED
            BY <5>2
        <4>2. n.added + n.removed = old.added + old.removed + 1
          BY <4>1
        <4>3. spaceTotals' = [spaceTotals EXCEPT ![s0] = n]
          BY <1>2, <1>3, <1>4, <2>1, <3>1, <4>1 DEF CountSpace
        <4>4. QED
          BY <3>1, <4>2, <4>3
      <3>2. CASE r.op = "remove"
        <4>1. PICK n \in [added : Int, removed : Int] : n = [old EXCEPT !.removed = @ - 1]
          <5>1. old.removed - 1 \in Int
            BY <2>1
          <5>2. [old EXCEPT !.removed = @ - 1] \in [added : Int, removed : Int]
            BY <2>1, <5>1
          <5>3. QED
            BY <5>2
        <4>2. n.added + n.removed = old.added + old.removed - 1
          BY <4>1
        <4>3. spaceTotals' = [spaceTotals EXCEPT ![s0] = n]
          BY <1>2, <1>3, <1>4, <2>1, <3>2, <4>1 DEF CountSpace
        <4>4. n.added + n.removed = old.added + old.removed + IF r.op = "add" THEN 1 ELSE -1
          BY <3>2, <4>2
        <4>5. QED
          BY <4>3, <4>4
      <3>3. QED
        BY <1>1, <3>1, <3>2
    <2>3. ASSUME NEW s \in Space PROVE SpaceNet(s)' = SpaceNet(s) + Weight(KeysOf(s), r)
      <3>1. SpaceNet(s) \in Int
        BY <2>3, NetsAre
      <3>2. CASE s = s0
        <4>1. r.key \in KeysOf(s)
          BY <1>2, <3>2 DEF KeysOf
        <4>2. Weight(KeysOf(s), r) = IF r.op = "add" THEN 1 ELSE -1
          BY <4>1 DEF Weight
        <4>3. spaceTotals'[s] = n
          BY <1>3, <2>2, <3>2
        <4>4. QED
          BY <2>1, <2>2, <3>2, <4>2, <4>3 DEF SpaceNet
      <3>3. CASE s # s0
        <4>1. r.key \notin KeysOf(s)
          BY <3>3 DEF KeysOf
        <4>2. Weight(KeysOf(s), r) = 0
          BY <4>1 DEF Weight
        <4>3. spaceTotals'[s] = spaceTotals[s]
          BY <1>3, <2>2, <3>3
        <4>4. QED
          BY <3>1, <4>2, <4>3 DEF SpaceNet
      <3>4. QED
        BY <3>2, <3>3
    <2>4. spaceTotals' \in [Space -> [added : Int, removed : Int]]
      BY <1>2, <1>3, <2>2
    <2>5. QED
      BY <2>3, <2>4
  <1>5. ASSUME CountAdmin(r)
        PROVE  adminTotals' \in [added : Int, removed : Int] /\ AdminNet' = AdminNet + Weight(Key, r)
    <2>1. CASE r.op = "add"
      <3>1. Weight(Key, r) = 1
        BY <1>2, <2>1 DEF Weight
      <3>2. adminTotals' = [adminTotals EXCEPT !.added = @ + 1]
        BY <1>5, <2>1 DEF CountAdmin
      <3>3. QED
        BY <1>3, <3>1, <3>2 DEF AdminNet
    <2>2. CASE r.op = "remove"
      <3>1. Weight(Key, r) = -1
        BY <1>2, <2>2 DEF Weight
      <3>2. adminTotals' = [adminTotals EXCEPT !.removed = @ + 1]
        BY <1>5, <2>2 DEF CountAdmin
      <3>3. QED
        BY <1>3, <3>1, <3>2 DEF AdminNet
    <2>3. QED
      BY <1>1, <2>1, <2>2
  <1>6. QED
    BY <1>4, <1>5

(* A request is counted in both tables, or missed by either or both: what  *)
(* it was is known from the tables it is in, and whether it came to an end.*)
LEMMA CountedOrMissed ==
    ASSUME CountedInv, NEW r \in Requests, NEW step \in {"ok", "error"}, OfOne(r, step),
           job[r].pc \in {"object", "count"}, UNCHANGED uploads, faults' \in Nat,
           NEW space \in BOOLEAN, NEW admin \in BOOLEAN,
           IF space THEN CountSpace(r) ELSE UNCHANGED spaceTotals,
           IF admin THEN CountAdmin(r) ELSE UNCHANGED adminTotals,
           IF space /\ admin THEN faults' = faults ELSE step = "error" /\ faults' = faults + 1
    PROVE  CountedInv'
  <1>1. CountsTyped
    BY DEF CountedInv
  <1>2. PICK sm \in SUBSET Requests : \E am \in SUBSET Requests : \E tw \in SUBSET Requests :
               Balanced(sm, am, tw)
    BY DEF CountedInv
  <1>3. PICK am \in SUBSET Requests : \E tw \in SUBSET Requests : Balanced(sm, am, tw)
    BY <1>2
  <1>4. PICK tw \in SUBSET Requests : Balanced(sm, am, tw)
    BY <1>3
  <1>5. CountsTyped'
    <2>1. \A k \in DOMAIN uploads' : Made(k)'
      BY <1>1, MadeStays DEF CountsTyped
    <2>2. {q \in Requests : job'[q].pc # "new"} = {q \in Requests : job[q].pc # "new"}
      BY StaysTogether
    <2>3. \A q \in Requests : job'[q].pc \in {"delete", "object"} => q.op = "remove"
      BY <1>1 DEF CountsTyped, OfOne, Goes
    <2>4. spaceTotals' \in [Space -> [added : Int, removed : Int]]
      BY <1>1, CountingIs DEF CountsTyped
    <2>5. adminTotals' \in [added : Int, removed : Int]
      BY <1>1, CountingIs DEF CountsTyped
    <2>6. QED
      BY <1>1, <2>1, <2>2, <2>3, <2>4, <2>5 DEF CountsTyped
  <1>6. Uncounted' = Uncounted \ {r} /\ r \in Uncounted /\ r \notin Failed
    BY DEF Uncounted, Failed, OfOne, Goes
  <1>7. r \notin sm /\ r \notin am /\ (step = "error" => r \in Failed')
    BY <1>4, <1>6 DEF Balanced, Failed, OfOne, Goes
  <1>8. /\ sm \subseteq Failed' /\ am \subseteq Failed' /\ tw \subseteq Together'
        /\ \A q \in tw : job'[q].pc \in Past
    BY <1>4, StaysTogether DEF Balanced
  <1>9. PICK sm2 : sm2 = IF space THEN sm ELSE sm \union {r}
    OBVIOUS
  <1>10. PICK am2 : am2 = IF admin THEN am ELSE am \union {r}
    OBVIOUS
  <1>11. /\ IsFiniteSet(sm) /\ IsFiniteSet(am) /\ IsFiniteSet(tw) /\ IsFiniteSet(Uncounted)
         /\ IsFiniteSet(DOMAIN uploads)
    BY <1>1, <1>4, DueFinite, FS_Subset DEF Balanced, CountsTyped
  <1>12. IsFiniteSet(Uncounted \union sm) /\ IsFiniteSet(Uncounted \union am)
    BY <1>11, FS_Union
  <1>13. sm2 \subseteq Failed' /\ am2 \subseteq Failed'
    BY <1>7, <1>8, <1>9, <1>10
  <1>14. Cardinality(sm2 \union am2) <= faults'
    <2>1. IsFiniteSet(sm \union am)
      BY <1>11, FS_Union
    <2>2. Cardinality(sm \union am) \in Nat /\ Cardinality(sm \union am) <= faults /\ faults \in Nat
      BY <1>1, <1>4, <2>1, FS_CardinalityType DEF Balanced, CountsTyped
    <2>3. CASE space /\ admin
      BY <1>9, <1>10, <2>2, <2>3
    <2>4. CASE ~(space /\ admin)
      <3>1. sm2 \union am2 = (sm \union am) \union {r} /\ faults' = faults + 1
        BY <1>9, <1>10, <2>4
      <3>2. Cardinality((sm \union am) \union {r}) = Cardinality(sm \union am) + 1
        BY <1>7, <2>1, FS_AddElement
      <3>3. Cardinality(sm2 \union am2) = Cardinality(sm \union am) + 1
        BY <3>1, <3>2
      <3>4. QED
        BY <2>2, <3>1, <3>3
    <2>5. QED
      BY <2>3, <2>4
  <1>15. AdminNet \in Int /\ \A s \in Space : SpaceNet(s) \in Int
    BY <1>1, NetsAre
  <1>16. r.op = "add" \/ r.op = "remove"
    BY UploadAssumption
  <1>17. ASSUME NEW s \in Space
         PROVE  Even(KeysOf(s), SpaceNet(s)', Uncounted' \union sm2, tw, DOMAIN uploads')
    <2>1. Even(KeysOf(s), SpaceNet(s), Uncounted \union sm, tw, DOMAIN uploads)
      BY <1>4 DEF Balanced, Sums
    <2>2. CASE space
      <3>1. Uncounted' \union sm2 = (Uncounted \union sm) \ {r} /\ r \in Uncounted \union sm
        BY <1>6, <1>7, <1>9, <2>2
      <3>2. SpaceNet(s)' = SpaceNet(s) + Weight(KeysOf(s), r)
        BY <1>1, <2>2, CountingIs
      <3>3. Even(KeysOf(s), SpaceNet(s) + Weight(KeysOf(s), r), (Uncounted \union sm) \ {r}, tw, DOMAIN uploads)
        BY <1>11, <1>12, <1>15, <1>16, <2>1, <3>1, EvenCounted
      <3>4. QED
        BY <3>1, <3>2, <3>3
    <2>3. CASE ~space
      <3>1. Uncounted' \union sm2 = Uncounted \union sm
        BY <1>6, <1>9, <2>3
      <3>2. SpaceNet(s)' = SpaceNet(s)
        BY <2>3 DEF SpaceNet
      <3>3. QED
        BY <2>1, <3>1, <3>2
    <2>4. QED
      BY <2>2, <2>3
  <1>18. Even(Key, AdminNet', Uncounted' \union am2, tw, DOMAIN uploads')
    <2>1. Even(Key, AdminNet, Uncounted \union am, tw, DOMAIN uploads)
      BY <1>4 DEF Balanced, Sums
    <2>2. CASE admin
      <3>1. Uncounted' \union am2 = (Uncounted \union am) \ {r} /\ r \in Uncounted \union am
        BY <1>6, <1>7, <1>10, <2>2
      <3>2. AdminNet' = AdminNet + Weight(Key, r)
        BY <1>1, <2>2, CountingIs
      <3>3. Even(Key, AdminNet + Weight(Key, r), (Uncounted \union am) \ {r}, tw, DOMAIN uploads)
        BY <1>11, <1>12, <1>15, <1>16, <2>1, <3>1, EvenCounted
      <3>4. QED
        BY <3>1, <3>2, <3>3
    <2>3. CASE ~admin
      <3>1. Uncounted' \union am2 = Uncounted \union am
        BY <1>6, <1>10, <2>3
      <3>2. AdminNet' = AdminNet
        BY <2>3 DEF AdminNet
      <3>3. QED
        BY <2>1, <3>1, <3>2
    <2>4. QED
      BY <2>2, <2>3
  <1>19. Sums(sm2, am2, tw)'
    BY <1>17, <1>18 DEF Sums
  <1>20. Balanced(sm2, am2, tw)'
    BY <1>8, <1>13, <1>14, <1>19 DEF Balanced
  <1>21. sm2 \subseteq Requests /\ am2 \subseteq Requests
    BY <1>9, <1>10
  <1>22. QED
    BY <1>5, <1>20, <1>21, BalancedIs

-----------------------------------------------------------------------------
LEMMA UpsertCounts ==
    ASSUME UploadsTyped, CountedInv, NEW r \in Requests, Upsert(r)
    PROVE  CountedInv'
  <1>1. CountsTyped /\ faults \in Nat
    BY DEF CountedInv, CountsTyped
  <1>2. CASE GetItem(r)
    <2>1. job[r].pc = "get" /\ UNCHANGED <<uploads, totals, faults>>
      BY <1>2 DEF GetItem, tables
    <2>2. PICK step \in {"put", "update", "fetch"} : Goes(r, step)
      <3>1. PICK item \in versions[r.key] :
              IF item.ref = NoRef
              THEN Merge(r, Ascending(item.shards), NoRef)
              ELSE job' = [job EXCEPT ![r].pc = "fetch", ![r].ref = item.ref]
        BY <1>2 DEF GetItem
      <3>2. CASE item.ref = NoRef
        BY <3>1, <3>2, MergeGoes
      <3>3. CASE item.ref # NoRef
        BY <3>1, <3>3, GoesToRef
      <3>4. QED
        BY <3>2, <3>3
    <2>3. OfOne(r, step)
      BY <2>1, <2>2 DEF OfOne, Past
    <2>4. QED
      BY <1>1, <2>1, <2>2, <2>3, NoneCounted
  <1>3. CASE FetchShards(r)
    <2>1. job[r].pc = "fetch" /\ UNCHANGED <<uploads, totals, faults>>
      BY <1>3 DEF FetchShards, tables
    <2>2. PICK step \in {"put", "update", "error"} : Goes(r, step)
      BY <1>3, MergeGoes, Ends DEF FetchShards
    <2>3. OfOne(r, step)
      BY <2>1, <2>2 DEF OfOne, Past
    <2>4. QED
      BY <1>1, <2>1, <2>2, <2>3, NoneCounted
  <1>4. CASE StoreShards(r)
    <2>1. job[r].pc = "put" /\ UNCHANGED <<uploads, totals, faults>> /\ Goes(r, "update")
      BY <1>4, GoesTo DEF StoreShards
    <2>2. OfOne(r, "update")
      BY <2>1 DEF OfOne, Past
    <2>3. QED
      BY <1>1, <2>1, <2>2, NoneCounted
  <1>5. CASE UpdateItem(r) /\ IsNew(Updated(r))
    BY <1>5, UpdateCounts
  <1>6. CASE UpdateItem(r) /\ ~IsNew(Updated(r))
    <2> DEFINE k == r.key
    <2>1. PICK item : item = Updated(r)
      OBVIOUS
    <2>2. /\ job[r].pc = "update" /\ End(r, "ok") /\ UNCHANGED <<totals, faults>>
          /\ uploads' = [o \in DOMAIN uploads \union {k} |-> IF o = k THEN item ELSE uploads[o]]
      BY <1>6, <2>1 DEF UpdateItem
    <2>3. r.op = "add"
      BY <2>2 DEF UploadsTyped
    <2>4. Old(r) \in UploadItem
      BY <2>3, UpdatedIs
    <2>5. item.insertedAt = Old(r).insertedAt /\ item.updatedAt = job[r].at
      BY <2>1, <2>4 DEF Updated, UploadItem
    <2>6. k \in DOMAIN uploads
      <3> SUFFICES ASSUME k \notin DOMAIN uploads PROVE FALSE
        OBVIOUS
      <3>1. item.insertedAt = job[r].at
        BY <2>5 DEF Old, Exists
      <3>2. QED
        BY <1>6, <2>1, <2>5, <3>1 DEF IsNew
    <2>7. Old(r) = uploads[k]
      BY <2>6 DEF Old, Exists
    <2>8. /\ DOMAIN uploads' = DOMAIN uploads
          /\ \A o \in DOMAIN uploads : uploads'[o].insertedAt = uploads[o].insertedAt
      BY <2>2, <2>5, <2>6, <2>7
    <2>9. Goes(r, "ok")
      BY <2>2, Ends
    <2>10. OfOne(r, "ok")
      BY <2>2, <2>9 DEF OfOne, Past
    <2>11. QED
      BY <1>1, <2>2, <2>8, <2>10, NoneCounted
  <1>7. QED
    BY <1>2, <1>3, <1>4, <1>5, <1>6 DEF Upsert

LEMMA RemovalCounts ==
    ASSUME UploadsTyped, CountedInv, NEW r \in Requests, Removal(r)
    PROVE  CountedInv'
  <1>1. CountsTyped /\ faults \in Nat
    BY DEF CountedInv, CountsTyped
  <1>2. CASE DeleteItem(r) /\ Exists(r.key)
    BY <1>2, DeleteCounts
  <1>3. CASE DeleteItem(r) /\ ~Exists(r.key)
    <2>1. job[r].pc = "delete" /\ UNCHANGED <<uploads, totals, faults>> /\ Goes(r, "notFound")
      BY <1>3, Ends DEF DeleteItem
    <2>2. OfOne(r, "notFound")
      BY <2>1 DEF OfOne, Past
    <2>3. QED
      BY <1>1, <2>1, <2>2, NoneCounted
  <1>4. CASE DeleteShards(r)
    <2>1. job[r].pc = "object" /\ UNCHANGED <<uploads, totals, faults>> /\ Goes(r, "count")
      BY <1>4, Ends DEF DeleteShards
    <2>2. OfOne(r, "count")
      BY <2>1 DEF OfOne, Past
    <2>3. QED
      BY <1>1, <2>1, <2>2, NoneCounted
  <1>5. QED
    BY <1>2, <1>3, <1>4 DEF Removal

LEMMA EndCounts ==
    ASSUME UploadsTyped, CountedInv, NEW r \in Requests, Count(r) \/ CountFails(r) \/ Stop(r)
    PROVE  CountedInv'
  <1>1. CountsTyped /\ faults \in Nat
    BY DEF CountedInv, CountsTyped
  <1>2. CASE Count(r)
    <2>1. /\ job[r].pc = "count" /\ UNCHANGED <<uploads, faults>> /\ Goes(r, "ok")
          /\ CountSpace(r) /\ CountAdmin(r)
      BY <1>2, Ends DEF Count, tables
    <2>2. OfOne(r, "ok")
      BY <2>1 DEF OfOne, Past
    <2>3. QED
      BY <1>1, <2>1, <2>2, CountedOrMissed
  <1>3. CASE CountFails(r)
    <2>1. /\ job[r].pc = "count" /\ UNCHANGED uploads /\ faults' = faults + 1 /\ Goes(r, "error")
          /\ (CountSpace(r) /\ UNCHANGED adminTotals) \/ (CountAdmin(r) /\ UNCHANGED spaceTotals)
      BY <1>3, Ends DEF CountFails, tables
    <2>2. OfOne(r, "error") /\ faults' \in Nat
      BY <1>1, <2>1 DEF OfOne, Past
    <2>3. CASE CountSpace(r) /\ UNCHANGED adminTotals
      BY <2>1, <2>2, <2>3, CountedOrMissed
    <2>4. CASE CountAdmin(r) /\ UNCHANGED spaceTotals
      BY <2>1, <2>2, <2>4, CountedOrMissed
    <2>5. QED
      BY <2>1, <2>3, <2>4
  <1>4. CASE Stop(r)
    <2>1. /\ UNCHANGED <<uploads, totals>> /\ faults' = faults + 1 /\ Goes(r, "error")
          /\ job[r].pc \notin {"new", "ok", "notFound", "error"}
      BY <1>4, Ends DEF Stop, tables, UnderWay, Answer
    <2>2. OfOne(r, "error") /\ faults' \in Nat /\ faults <= faults'
      BY <1>1, <2>1 DEF OfOne, Past
    <2>3. CASE job[r].pc \in {"object", "count"}
      BY <2>1, <2>2, <2>3, CountedOrMissed DEF totals
    <2>4. CASE job[r].pc \notin {"object", "count"}
      BY <2>1, <2>2, <2>4, NoneCounted
    <2>5. QED
      BY <2>3, <2>4
  <1>5. QED
    BY <1>2, <1>3, <1>4

LEMMA NothingCounted ==
    ASSUME CountedInv, UNCHANGED <<uploads, totals, job, faults>>
    PROVE  CountedInv'
  <1>1. CountsTyped
    BY DEF CountedInv
  <1>2. PICK sm \in SUBSET Requests : \E am \in SUBSET Requests : \E tw \in SUBSET Requests :
               Balanced(sm, am, tw)
    BY DEF CountedInv
  <1>3. PICK am \in SUBSET Requests : \E tw \in SUBSET Requests : Balanced(sm, am, tw)
    BY <1>2
  <1>4. PICK tw \in SUBSET Requests : Balanced(sm, am, tw)
    BY <1>3
  <1>5. \A k : Made(k)' <=> Made(k)
    BY DEF Made
  <1>6. CountsTyped'
    BY <1>1, <1>5 DEF CountsTyped, totals
  <1>7. Uncounted' = Uncounted /\ Failed' = Failed /\ Together' = Together
    BY DEF Uncounted, Failed, Together, Begun
  <1>8. Sums(sm, am, tw)'
    BY <1>4, <1>7, TotalsStay DEF Balanced, Sums
  <1>9. Balanced(sm, am, tw)'
    BY <1>4, <1>7, <1>8 DEF Balanced
  <1>10. QED
    BY <1>6, <1>9, BalancedIs

LEMMA CountedStep ==
    ASSUME UploadsTyped, CountedInv, [ContentNext]_<<vars, index>>
    PROVE  CountedInv'
  <1>1. ASSUME UNCHANGED vars \/ Listing \/ Tick PROVE CountedInv'
    <2>1. UNCHANGED <<uploads, totals, job, faults>>
      BY <1>1 DEF vars, Listing, OpenListing, ListShards, ListUploads, Tick, tables
    <2>2. QED
      BY <2>1, NothingCounted
  <1>2. ASSUME NEW r \in Requests,
               Begin(r) \/ Upsert(r) \/ Removal(r) \/ Count(r) \/ CountFails(r) \/ Stop(r)
        PROVE  CountedInv'
    BY <1>2, BeginCounts, UpsertCounts, RemovalCounts, EndCounts
  <1>3. CASE ContentNext
    BY <1>1, <1>2, <1>3 DEF ContentNext, Next
  <1>4. CASE UNCHANGED <<vars, index>>
    BY <1>1, <1>4
  <1>5. QED
    BY <1>3, <1>4

LEMMA CountedStart == ASSUME Init PROVE CountedInv
  <1>1. /\ DOMAIN uploads = {} /\ faults = 0 /\ \A r \in Requests : job[r].pc = "new"
        /\ spaceTotals = [s \in Space |-> [added |-> 0, removed |-> 0]]
        /\ adminTotals = [added |-> 0, removed |-> 0]
    BY DEF Init
  <1>2. {r \in Requests : job[r].pc # "new"} = {} /\ Uncounted = {} /\ IsFiniteSet({}) /\ Cardinality({}) = 0
    BY <1>1, FS_EmptySet DEF Uncounted
  <1>3. CountsTyped
    <2>1. IsFiniteSet(DOMAIN uploads) /\ IsFiniteSet({r \in Requests : job[r].pc # "new"})
      BY <1>1, <1>2
    <2>2. /\ spaceTotals \in [Space -> [added : Int, removed : Int]]
          /\ adminTotals \in [added : Int, removed : Int]
      BY <1>1
    <2>3. \A k \in DOMAIN uploads : Made(k)
      BY <1>1
    <2>4. QED
      BY <1>1, <2>1, <2>2, <2>3 DEF CountsTyped
  <1>4. ASSUME NEW K PROVE Even(K, 0, {}, {}, {})
    <2>1. Of(K, {}) = {} /\ {} \intersect K = {}
      BY DEF Of
    <2>2. Change({}) = 0
      <3>1. {r \in {} : r.op = "add"} = {} /\ {r \in {} : r.op = "remove"} = {}
        OBVIOUS
      <3>2. QED
        BY <1>2, <3>1 DEF Change
    <2>3. QED
      BY <1>2, <2>1, <2>2 DEF Even
  <1>5. Uncounted \union {} = {}
    BY <1>2
  <1>6. AdminNet = 0 /\ \A s \in Space : SpaceNet(s) = 0
    BY <1>1 DEF AdminNet, SpaceNet
  <1>7. Sums({}, {}, {})
    BY <1>1, <1>4, <1>5, <1>6 DEF Sums
  <1>8. {} \union {} = {}
    OBVIOUS
  <1>9. Balanced({}, {}, {})
    BY <1>1, <1>2, <1>7, <1>8 DEF Balanced
  <1>10. QED
    BY <1>3, <1>9 DEF CountedInv

LEMMA CountedSafe == ASSUME UploadsTyped, CountedInv PROVE UploadsCounted
  <1>1. CountsTyped
    BY DEF CountedInv
  <1>2. PICK sm \in SUBSET Requests : \E am \in SUBSET Requests : \E tw \in SUBSET Requests :
               Balanced(sm, am, tw)
    BY DEF CountedInv
  <1>3. PICK am \in SUBSET Requests : \E tw \in SUBSET Requests : Balanced(sm, am, tw)
    BY <1>2
  <1>4. PICK tw \in SUBSET Requests : Balanced(sm, am, tw)
    BY <1>3
  <1>5. ASSUME NEW s \in Space, NEW A, A \subseteq Requests PROVE Of(KeysOf(s), A) = InSpace(s, A)
    BY <1>5, UploadAssumption DEF Of, KeysOf, InSpace
  <1>6. ASSUME NEW A, A \subseteq Requests PROVE Of(Key, A) = A
    BY <1>6, UploadAssumption DEF Of
  <1>7. Uncounted \union sm \subseteq Requests /\ Uncounted \union am \subseteq Requests
    BY DEF Uncounted
  <1>8. ASSUME NEW s \in Space
        PROVE  spaceTotals[s].added + spaceTotals[s].removed
                 + Change(InSpace(s, Uncounted \union sm)) - Change(InSpace(s, tw)) = Cardinality(UploadsOf(s))
    <2>1. Even(KeysOf(s), SpaceNet(s), Uncounted \union sm, tw, DOMAIN uploads)
      BY <1>4 DEF Balanced, Sums
    <2>2. /\ Of(KeysOf(s), Uncounted \union sm) = InSpace(s, Uncounted \union sm)
          /\ Of(KeysOf(s), tw) = InSpace(s, tw)
      BY <1>5, <1>7
    <2>3. DOMAIN uploads \intersect KeysOf(s) = UploadsOf(s)
      BY DEF UploadsTyped, KeysOf, UploadsOf
    <2>4. QED
      BY <2>1, <2>2, <2>3 DEF Even, SpaceNet
  <1>9. adminTotals.added - adminTotals.removed + Change(Uncounted \union am) - Change(tw)
          = Cardinality(DOMAIN uploads)
    <2>1. Even(Key, AdminNet, Uncounted \union am, tw, DOMAIN uploads)
      BY <1>4 DEF Balanced, Sums
    <2>2. Of(Key, Uncounted \union am) = Uncounted \union am /\ Of(Key, tw) = tw
      BY <1>6, <1>7
    <2>3. DOMAIN uploads \intersect Key = DOMAIN uploads
      BY DEF UploadsTyped
    <2>4. QED
      BY <2>1, <2>2, <2>3 DEF Even, AdminNet
  <1>10. sm \in SUBSET Failed /\ am \in SUBSET Failed /\ tw \in SUBSET Together
         /\ Cardinality(sm \union am) <= faults
    BY <1>4 DEF Balanced
  <1>11. QED
    BY <1>8, <1>9, <1>10 DEF UploadsCounted

(***************************************************************************)
(* For any spaces, roots and requests, with any number of failures: the    *)
(* metrics of each space, and those of the service, count the uploads      *)
(* there are, less the requests that have yet to count or that failed (no  *)
(* more than the failures), and twice those that began in one millisecond  *)
(* with another of the same upload (upload-table.js, metrics.js).          *)
(***************************************************************************)
THEOREM UploadMetricsAddUp == ContentSpec => []UploadsCounted
  <1> DEFINE Inv == ShardsInv /\ CountedInv
  <1>1. ContentInit => Inv
    BY ShardsStart, CountedStart DEF ContentInit
  <1>2. Inv /\ [ContentNext]_<<vars, index>> => Inv'
    BY ShardsStep, CountedStep DEF ShardsInv
  <1>3. Inv => UploadsCounted
    BY CountedSafe DEF ShardsInv
  <1>4. QED
    BY <1>1, <1>2, <1>3, PTL DEF ContentSpec

-----------------------------------------------------------------------------
(***************************************************************************)
(* Listings. An update keeps the order of an upload's shards: it puts the  *)
(* new ones behind those there are, or among them where they are sorted.   *)
(***************************************************************************)
\* The first of two, in a list, and a list that has another in its order.
Before(l, x, y) == \E i, j \in DOMAIN l : i < j /\ l[i] = x /\ l[j] = y

Grows(l, m) == ToSet(l) \subseteq ToSet(m) /\ \A x, y : Before(l, x, y) => Before(m, x, y)

LEMMA DistinctIs ==
    ASSUME NEW S, NEW l \in Seq(S)
    PROVE  Distinct(l) <=> IsInjective(l)
  <1> DEFINE n == Len(l)
  <1>1. n \in Nat /\ DOMAIN l = 1..n /\ 1 \in Int /\ n \in Int
    OBVIOUS
  <1>2. l \in Surjection(1..n, ToSet(l))
    BY <1>1 DEF Surjection, ToSet
  <1>3. IsFiniteSet(1..n) /\ Cardinality(1..n) = n
    BY <1>1, FS_Interval
  <1> HIDE DEF n
  <1>4. IsFiniteSet(ToSet(l)) /\ (Cardinality(ToSet(l)) = n <=> l \in Injection(1..n, ToSet(l)))
    BY <1>2, <1>3, FS_Surjection
  <1>5. l \in Injection(1..n, ToSet(l)) <=> IsInjective(l)
    BY <1>2 DEF Injection, Surjection
  <1>6. QED
    BY <1>4, <1>5 DEF Distinct, n

LEMMA PrefixGrows ==
    ASSUME NEW S, NEW l \in Seq(S), NEW m \in Seq(S), Len(l) <= Len(m),
           \A i \in 1..Len(l) : m[i] = l[i]
    PROVE  Grows(l, m)
  <1>1. DOMAIN l = 1..Len(l) /\ DOMAIN m = 1..Len(m) /\ Len(l) \in Nat /\ Len(m) \in Nat
    OBVIOUS
  <1>2. \A i \in DOMAIN l : i \in DOMAIN m /\ m[i] = l[i]
    BY <1>1
  <1>3. QED
    BY <1>2 DEF Grows, Before, ToSet

LEMMA MergedGrows ==
    ASSUME NEW S, NEW existing \in Seq(S), NEW shards \in Seq(S)
    PROVE  Grows(existing, Merged(existing, shards))
  <1> DEFINE n == Len(shards)
             f == CHOOSE upTo : Merges(upTo, existing, shards, n)
             Good(l) == l \in Seq(S) /\ Grows(existing, l)
             P == {k \in Nat : k \in 0..n => Good(f[k])}
  <1>1. n \in Nat /\ DOMAIN shards = 1..n /\ \A i \in 1..n : shards[i] \in S
    OBVIOUS
  <1>2. Merged(existing, shards) = f[n]
    BY DEF Merged, Merges
  <1>3. \A i \in 0..n : f[i] = IF i = 0 THEN existing
                               ELSE IF Contains(f[i - 1], shards[i]) THEN f[i - 1]
                               ELSE Append(f[i - 1], shards[i])
    <2>1. Merges(f, existing, shards, n)
      BY <1>1, MergesExists
    <2> HIDE DEF f
    <2>2. QED
      BY <2>1 DEF Merges
  <1> HIDE DEF f
  <1>4. 0 \in P
    <2>1. Good(existing)
      BY PrefixGrows
    <2>2. f[0] = existing
      BY <1>1, <1>3
    <2>3. QED
      BY <2>1, <2>2
  <1>5. ASSUME NEW k \in Nat, k \in P PROVE k + 1 \in P
    <2> SUFFICES ASSUME k + 1 \in 0..n PROVE Good(f[k + 1])
      OBVIOUS
    <2> DEFINE l == f[k]
               x == shards[k + 1]
    <2>1. k \in 0..n /\ k + 1 \in 1..n /\ (k + 1) - 1 = k /\ x \in S
      BY <1>1
    <2>2. Good(l)
      BY <1>5, <2>1
    <2>3. f[k + 1] = IF Contains(l, x) THEN l ELSE Append(l, x)
      BY <1>3, <2>1
    <2> HIDE DEF l, x
    <2>4. /\ Append(l, x) \in Seq(S) /\ Len(Append(l, x)) = Len(l) + 1 /\ Len(l) \in Nat
          /\ \A i \in 1..Len(l) : Append(l, x)[i] = l[i]
      BY <2>1, <2>2
    <2>5. Grows(l, Append(l, x))
      <3>1. Len(l) <= Len(Append(l, x))
        BY <2>4
      <3>2. QED
        BY <2>2, <2>4, <3>1, PrefixGrows
    <2>6. Good(Append(l, x))
      BY <2>2, <2>4, <2>5 DEF Grows
    <2>7. QED
      BY <2>2, <2>3, <2>6
  <1>6. P = Nat
    <2>1. P \in SUBSET Nat
      OBVIOUS
    <2> HIDE DEF P
    <2>2. QED
      BY <1>4, <1>5, <2>1, Induction
  <1>7. Good(f[n])
    <2> HIDE DEF P, Good
    <2>1. n \in P /\ n \in 0..n
      BY <1>1, <1>6
    <2>2. QED
      BY <2>1 DEF P
  <1>8. QED
    BY <1>2, <1>7

LEMMA AscendingSorted ==
    ASSUME NEW S \in SUBSET Nat, IsFiniteSet(S)
    PROVE  /\ DOMAIN Ascending(S) = 1..Len(Ascending(S))
           /\ \A i, j \in DOMAIN Ascending(S) : i < j => Ascending(S)[i] < Ascending(S)[j]
  <1> DEFINE n == Cardinality(S)
             l == Ascending(S)
  <1>1. n \in Nat
    BY FS_CardinalityType
  <1>2. \E x : Sorted(x, S)
    BY <1>1, SortedExists
  <1>3. \E x \in [1..n -> S] : \A i, j \in DOMAIN x : i < j => x[i] < x[j]
    BY <1>2 DEF Sorted
  <1>4. /\ l \in [1..n -> S]
        /\ \A i, j \in DOMAIN l : i < j => l[i] < l[j]
    BY <1>3 DEF Ascending
  <1> HIDE DEF l, n
  <1>5. DOMAIN l = 1..Len(l)
    BY <1>1, <1>4
  <1>6. QED
    BY <1>4, <1>5 DEF l

LEMMA AscendingBefore ==
    ASSUME NEW S \in SUBSET Nat, IsFiniteSet(S)
    PROVE  \A x, y : Before(Ascending(S), x, y) <=> x \in S /\ y \in S /\ x < y
  <1> DEFINE l == Ascending(S)
  <1>1. DOMAIN l = 1..Len(l) /\ \A i, j \in DOMAIN l : i < j => l[i] < l[j]
    BY AscendingSorted
  <1>2. l \in Seq(S) /\ ToSet(l) = S
    BY AscendingIs
  <1> HIDE DEF l
  <1>3. Len(l) \in Nat
    BY <1>2
  <1>4. ASSUME NEW x, NEW y, Before(l, x, y) PROVE x \in S /\ y \in S /\ x < y
    <2>1. PICK i \in DOMAIN l, j \in DOMAIN l : i < j /\ l[i] = x /\ l[j] = y
      BY <1>4 DEF Before
    <2>2. QED
      BY <1>1, <1>2, <2>1 DEF ToSet
  <1>5. ASSUME NEW x \in S, NEW y \in S, x < y PROVE Before(l, x, y)
    <2>1. PICK i \in DOMAIN l : l[i] = x
      BY <1>2 DEF ToSet
    <2>2. PICK j \in DOMAIN l : l[j] = y
      BY <1>2 DEF ToSet
    <2>3. x \in Nat /\ y \in Nat /\ i \in Nat /\ j \in Nat
      BY <1>1, <1>3
    <2>4. ~(j < i)
      <3>1. SUFFICES ASSUME j < i PROVE FALSE
        OBVIOUS
      <3>2. y < x
        BY <1>1, <2>1, <2>2, <3>1
      <3>3. QED
        BY <1>5, <2>3, <3>2
    <2>5. i # j
      <3>1. x # y
        BY <1>5, <2>3
      <3>2. QED
        BY <2>1, <2>2, <3>1
    <2>6. i < j
      BY <2>3, <2>4, <2>5
    <2>7. QED
      BY <2>1, <2>2, <2>6 DEF Before
  <1>6. QED
    BY <1>4, <1>5 DEF l

LEMMA AscendingGrows ==
    ASSUME NEW T \in SUBSET Nat, IsFiniteSet(T), NEW S \in SUBSET T
    PROVE  Grows(Ascending(S), Ascending(T))
  <1>1. IsFiniteSet(S) /\ S \in SUBSET Nat
    BY FS_Subset
  <1>2. ToSet(Ascending(S)) = S /\ ToSet(Ascending(T)) = T
    BY <1>1, AscendingIs
  <1>3. \A x, y : Before(Ascending(S), x, y) <=> x \in S /\ y \in S /\ x < y
    BY <1>1, AscendingBefore
  <1>4. \A x, y : Before(Ascending(T), x, y) <=> x \in T /\ y \in T /\ x < y
    BY AscendingBefore
  <1>5. QED
    BY <1>2, <1>3, <1>4 DEF Grows

\* The shards of an upload as its item gives them.
ListOf(k, up) ==
    IF k \notin DOMAIN up THEN <<>>
    ELSE IF up[k].ref = NoRef THEN Ascending(up[k].shards) ELSE up[k].ref

\* An upsert that is alone has the upload's list before the shards that are new.
InOrder(r) ==
    r.key \notin raced /\ job[r].pc \in {"put", "update"} =>
        job[r].all = Merged(ListOf(r.key, uploads), r.shards)

OrderInv ==
    /\ IsFiniteSet(DOMAIN uploads)
    /\ \A k \in DOMAIN uploads : Distinct(uploads[k].ref)
    /\ \A k \in Key : \A v \in versions[k] : Distinct(v.ref)
    /\ \A r \in Requests : Distinct(job[r].ref) /\ Distinct(job[r].all) /\ InOrder(r)

LEMMA ShardsFinite == ASSUME NEW S \in SUBSET Shard PROVE IsFiniteSet(S) /\ S \in SUBSET Nat
  BY FS_Subset, UploadAssumption

LEMMA NoRefIs == NoRef \in Seq(Shard) /\ ToSet(NoRef) = {} /\ Distinct(NoRef)
  <1>1. ToSet(<<>>) = {}
    BY DEF ToSet
  <1>2. QED
    BY <1>1, FS_EmptySet DEF Distinct, NoRef

LEMMA ListIs ==
    ASSUME UploadsTyped, OrderInv, NEW k \in Key
    PROVE  ListOf(k, uploads) \in Seq(Shard) /\ Distinct(ListOf(k, uploads))
  <1>1. CASE k \notin DOMAIN uploads
    BY <1>1, NoRefIs DEF ListOf, NoRef
  <1>2. CASE k \in DOMAIN uploads /\ uploads[k].ref = NoRef
    <2> DEFINE S == uploads[k].shards
    <2>1. S \in SUBSET Shard
      BY <1>2 DEF UploadsTyped, UploadItem
    <2>2. IsFiniteSet(S) /\ S \in SUBSET Nat
      BY <2>1, ShardsFinite
    <2>3. Ascending(S) \in Seq(S) /\ Distinct(Ascending(S))
      BY <2>2, AscendingIs
    <2>4. Ascending(S) \in Seq(Shard)
      BY <2>1, <2>3
    <2>5. QED
      BY <1>2, <2>3, <2>4 DEF ListOf
  <1>3. CASE k \in DOMAIN uploads /\ uploads[k].ref # NoRef
    BY <1>3 DEF ListOf, UploadsTyped, UploadItem, OrderInv
  <1>4. QED
    BY <1>1, <1>2, <1>3

(* A step of a request that leaves the items alone.                         *)
LEMMA OrderKept ==
    ASSUME OrderInv, NEW r \in Requests, UNCHANGED <<uploads, versions>>, raced \subseteq raced',
           \A q \in Requests : q # r => job'[q] = job[q],
           Distinct(job'[r].ref), Distinct(job'[r].all),
           r.key \notin raced' /\ job'[r].pc \in {"put", "update"} =>
               job'[r].all = Merged(ListOf(r.key, uploads), r.shards)
    PROVE  OrderInv'
  <1>1. ASSUME NEW q \in Requests
        PROVE  Distinct(job'[q].ref) /\ Distinct(job'[q].all) /\ InOrder(q)'
    <2>1. CASE q = r
      BY <2>1 DEF InOrder
    <2>2. CASE q # r
      BY <2>2 DEF OrderInv, InOrder
    <2>3. QED
      BY <2>1, <2>2
  <1>2. QED
    BY <1>1 DEF OrderInv

(* A step that changes the item of an upload is of the one request about it *)
(* that is under way.                                                       *)
LEMMA OrderOfItem ==
    ASSUME UploadsTyped, OrderInv, NEW r \in Requests, r \in UnderWay, raced' = raced,
           \A k \in Key : \A v \in versions'[k] : Distinct(v.ref),
           r.key \notin raced => Alone(r.key),
           DOMAIN uploads' \subseteq DOMAIN uploads \union {r.key},
           \A o \in DOMAIN uploads : o # r.key => o \in DOMAIN uploads' /\ uploads'[o] = uploads[o],
           r.key \in DOMAIN uploads' => Distinct(uploads'[r.key].ref),
           \A q \in Requests : q # r => job'[q] = job[q],
           Distinct(job'[r].ref), Distinct(job'[r].all), job'[r].pc \notin {"put", "update"}
    PROVE  OrderInv'
  <1>1. IsFiniteSet(DOMAIN uploads')
    <2>1. IsFiniteSet(DOMAIN uploads \union {r.key})
      BY FS_AddElement DEF OrderInv
    <2>2. QED
      BY <2>1, FS_Subset
  <1>2. \A k \in DOMAIN uploads' : Distinct(uploads'[k].ref)
    BY DEF OrderInv
  <1>3. ASSUME NEW q \in Requests
        PROVE  Distinct(job'[q].ref) /\ Distinct(job'[q].all) /\ InOrder(q)'
    <2>1. CASE q = r
      BY <2>1 DEF InOrder
    <2>2. CASE q # r /\ q.key # r.key
      <3>1. Distinct(job[q].ref) /\ Distinct(job[q].all) /\ InOrder(q) /\ job'[q] = job[q]
        BY <2>2 DEF OrderInv
      <3>2. ListOf(q.key, uploads') = ListOf(q.key, uploads)
        BY <2>2 DEF ListOf
      <3>3. QED
        BY <3>1, <3>2 DEF InOrder
    <2>3. CASE q # r /\ q.key = r.key
      <3>1. Distinct(job[q].ref) /\ Distinct(job[q].all) /\ job'[q] = job[q]
        BY <2>3 DEF OrderInv
      <3>2. q.key \in raced \/ q \notin UnderWay
        BY <2>3 DEF Alone
      <3>3. QED
        BY <3>1, <3>2 DEF InOrder, UnderWay, Answer
    <2>4. QED
      BY <2>1, <2>2, <2>3
  <1>4. QED
    BY <1>1, <1>2, <1>3 DEF OrderInv

LEMMA EndsEmpty ==
    ASSUME UploadsTyped, NEW r \in Requests, NEW step \in Pc, End(r, step)
    PROVE  /\ job'[r].pc = step /\ job'[r].ref = NoRef /\ job'[r].all = NoRef
           /\ \A q \in Requests : q # r => job'[q] = job[q]
  <1> DEFINE new == [job[r] EXCEPT !.pc = step, !.ref = NoRef, !.all = NoRef]
  <1>1. job \in [Requests -> Progress] /\ job[r] \in Progress
    BY DEF UploadsTyped
  <1>2. new.pc = step /\ new.ref = NoRef /\ new.all = NoRef
    BY <1>1 DEF Progress
  <1>3. job' = [job EXCEPT ![r] = new]
    BY <1>1 DEF End
  <1> HIDE DEF new
  <1>4. QED
    BY <1>1, <1>2, <1>3

(* A request that ends, or has only itself left to count.                   *)
LEMMA EndOrders ==
    ASSUME UploadsTyped, OrderInv, NEW r \in Requests, NEW step \in Answer \union {"count"}, End(r, step),
           UNCHANGED <<uploads, versions>>, raced \subseteq raced'
    PROVE  OrderInv'
  <1>1. step \in Pc /\ step \notin {"put", "update"}
    BY DEF Pc, Answer
  <1>2. /\ job'[r].pc = step /\ job'[r].ref = NoRef /\ job'[r].all = NoRef
        /\ \A q \in Requests : q # r => job'[q] = job[q]
    BY <1>1, EndsEmpty
  <1>3. QED
    BY <1>1, <1>2, NoRefIs, OrderKept

LEMMA MergeOrders ==
    ASSUME UploadsTyped, OrderInv, NEW r \in Requests, r.op = "add",
           NEW existing, existing \in Seq(Shard), NEW ref, ref \in Seq(Shard), Merge(r, existing, ref),
           Distinct(existing), Distinct(ref),
           r.key \notin raced' => existing = ListOf(r.key, uploads),
           UNCHANGED <<uploads, versions>>, raced \subseteq raced'
    PROVE  OrderInv'
  <1>1. /\ Moves(r, IF Len(job'[r].all) >= Threshold THEN "put" ELSE "update")
        /\ job'[r].all = Merged(existing, r.shards) /\ job'[r].ref = ref
        /\ r.shards \in Seq(Shard)
    BY MergeIs
  <1>2. Distinct(Merged(existing, r.shards))
    BY <1>1, MergedIs
  <1>3. QED
    BY <1>1, <1>2, OrderKept DEF Moves

LEMMA BeginOrders ==
    ASSUME UploadsTyped, OrderInv, NEW r \in Requests, Begin(r)
    PROVE  OrderInv'
  <1> DEFINE step == IF r.op = "add" THEN "get" ELSE "delete"
             new == [job[r] EXCEPT !.pc = step, !.at = now]
  <1>1. job \in [Requests -> Progress] /\ job[r] \in Progress
    BY DEF UploadsTyped
  <1>2. job' = [job EXCEPT ![r] = new]
    BY <1>1 DEF Begin
  <1>3. new.pc = step /\ new.ref = job[r].ref /\ new.all = job[r].all
    BY <1>1 DEF Progress
  <1>4. step \notin {"put", "update"}
    OBVIOUS
  <1> HIDE DEF new, step
  <1>5. /\ job'[r] = new /\ \A q \in Requests : q # r => job'[q] = job[q]
    BY <1>1, <1>2
  <1>6. UNCHANGED <<uploads, versions>> /\ raced \subseteq raced'
    BY DEF Begin, tables
  <1>7. Distinct(new.ref) /\ Distinct(new.all)
    BY <1>3 DEF OrderInv
  <1>8. QED
    BY <1>3, <1>4, <1>5, <1>6, <1>7, OrderKept

LEMMA GetOrders ==
    ASSUME ShardsInv, OrderInv, NEW r \in Requests, GetItem(r)
    PROVE  OrderInv'
  <1> DEFINE k == r.key
  <1>1. job[r].pc = "get" /\ UNCHANGED <<uploads, versions>> /\ UploadsTyped
    BY DEF GetItem, tables, ShardsInv
  <1>2. r.op = "add" /\ k \in Key
    BY <1>1, UploadAssumption DEF UploadsTyped
  <1>3. PICK item \in versions[k] :
          /\ IF item.ref = NoRef
             THEN Merge(r, Ascending(item.shards), NoRef)
             ELSE job' = [job EXCEPT ![r].pc = "fetch", ![r].ref = item.ref]
          /\ raced' = raced \union {x \in {k} : item # Held(x)}
    BY DEF GetItem
  <1>4. item.shards \in SUBSET Shard /\ Distinct(item.ref)
    BY <1>1, <1>2 DEF UploadsTyped, OldItem, OrderInv
  <1>5. raced \subseteq raced' /\ (k \notin raced' => item = Held(k))
    BY <1>3
  <1>6. CASE item.ref = NoRef
    <2> DEFINE list == Ascending(item.shards)
    <2>1. Merge(r, list, NoRef)
      BY <1>3, <1>6
    <2>2. IsFiniteSet(item.shards) /\ item.shards \in SUBSET Nat
      BY <1>4, ShardsFinite
    <2>3. list \in Seq(item.shards) /\ ToSet(list) = item.shards /\ Distinct(list)
      BY <2>2, AscendingIs
    <2>4. list \in Seq(Shard)
      BY <1>4, <2>3
    <2>5. ASSUME k \notin raced' PROVE list = ListOf(k, uploads)
      <3>1. CASE Exists(k)
        BY <1>5, <1>6, <2>5, <3>1 DEF Held, Exists, ListOf
      <3>2. CASE ~Exists(k)
        <4>1. item.shards = {} /\ ListOf(k, uploads) = <<>>
          BY <1>5, <2>5, <3>2 DEF Held, Exists, NoItem, ListOf
        <4>2. list \in Seq({})
          BY <2>3, <4>1
        <4> HIDE DEF list
        <4>3. list = <<>>
          BY <4>2
        <4>4. QED
          BY <4>1, <4>3
      <3>3. QED
        BY <3>1, <3>2
    <2> HIDE DEF list
    <2>6. QED
      BY <1>1, <1>2, <1>5, <2>1, <2>3, <2>4, <2>5, MergeOrders, NoRefIs
  <1>7. CASE item.ref # NoRef
    <2> DEFINE new == [job[r] EXCEPT !.pc = "fetch", !.ref = item.ref]
    <2>1. job' = [job EXCEPT ![r].pc = "fetch", ![r].ref = item.ref]
      BY <1>3, <1>7
    <2>2. job \in [Requests -> Progress] /\ job[r] \in Progress
      BY <1>1 DEF UploadsTyped
    <2>3. job' = [job EXCEPT ![r] = new]
      BY <2>1, <2>2
    <2>4. new.pc = "fetch" /\ new.ref = item.ref /\ new.all = job[r].all
      BY <2>2 DEF Progress
    <2> HIDE DEF new
    <2>5. job'[r] = new /\ \A q \in Requests : q # r => job'[q] = job[q]
      BY <2>2, <2>3
    <2>6. Distinct(new.ref) /\ Distinct(new.all)
      BY <1>4, <2>4 DEF OrderInv
    <2>7. QED
      BY <1>1, <1>5, <2>4, <2>5, <2>6, OrderKept
  <1>8. QED
    BY <1>6, <1>7

LEMMA FetchOrders ==
    ASSUME ShardsInv, OrderInv, NEW r \in Requests, FetchShards(r)
    PROVE  OrderInv'
  <1> DEFINE k == r.key
             ref == job[r].ref
  <1>1. job[r].pc = "fetch" /\ UNCHANGED <<uploads, versions>> /\ raced' = raced /\ UploadsTyped
    BY DEF FetchShards, tables, history, ShardsInv
  <1>2. r.op = "add" /\ k \in Key /\ UploadKept(k)
    BY <1>1, UploadAssumption DEF UploadsTyped, ShardsInv
  <1>3. CASE ObjectOf(k, ref) \notin objects
    <2>1. End(r, "error")
      BY <1>3 DEF FetchShards
    <2>2. QED
      BY <1>1, <2>1, EndOrders DEF Answer
  <1>4. CASE ObjectOf(k, ref) \in objects
    <2>1. Merge(r, ref, ref)
      BY <1>4 DEF FetchShards
    <2>2. ref \in Seq(Shard) /\ Distinct(ref)
      BY <1>1 DEF UploadsTyped, Progress, OrderInv
    <2>3. ASSUME k \notin raced PROVE ref = ListOf(k, uploads)
      <3>1. Knows(r)
        BY <1>2, <2>3 DEF UploadKept, Undisturbed
      <3>2. QED
        BY <1>1, <3>1 DEF Knows, ListOf
    <2>4. QED
      BY <1>1, <1>2, <2>1, <2>2, <2>3, MergeOrders
  <1>5. QED
    BY <1>3, <1>4

LEMMA StoreOrders ==
    ASSUME ShardsInv, OrderInv, NEW r \in Requests, StoreShards(r)
    PROVE  OrderInv'
  <1>1. job[r].pc = "put" /\ UNCHANGED <<uploads, versions>> /\ raced' = raced /\ UploadsTyped /\ GoTo(r, "update")
    BY DEF StoreShards, history, ShardsInv
  <1>2. Moves(r, "update") /\ job'[r].ref = job[r].ref /\ job'[r].all = job[r].all
    BY <1>1, GoToIs DEF Pc
  <1>3. Distinct(job[r].ref) /\ Distinct(job[r].all) /\ InOrder(r)
    BY DEF OrderInv
  <1>4. QED
    BY <1>1, <1>2, <1>3, OrderKept DEF Moves, InOrder

LEMMA UpdateOrders ==
    ASSUME ShardsInv, OrderInv, NEW r \in Requests, UpdateItem(r)
    PROVE  OrderInv'
  <1> DEFINE k == r.key
             item == Updated(r)
             step == IF IsNew(item) THEN "count" ELSE "ok"
  <1>1. /\ job[r].pc = "update" /\ raced' = raced /\ UploadsTyped
        /\ uploads' = [o \in DOMAIN uploads \union {k} |-> IF o = k THEN item ELSE uploads[o]]
        /\ versions' = [versions EXCEPT ![k] = @ \union {Held(k)'}]
        /\ End(r, step)
    BY DEF UpdateItem, ShardsInv
  <1>2. r \in UnderWay /\ r.op = "add" /\ k \in Key /\ UploadKept(k)
    BY <1>1, UploadAssumption DEF UnderWay, Answer, UploadsTyped, ShardsInv
  <1>3. step \in {"count", "ok"}
    OBVIOUS
  <1>4. Distinct(item.ref)
    <2>1. /\ Len(job[r].all) >= Threshold => item.ref = job[r].all
          /\ ~(Len(job[r].all) >= Threshold) => item.ref \in {NoRef, Old(r).ref}
      BY <1>1, <1>2, UpdatedIs
    <2>2. Distinct(job[r].all) /\ Distinct(Old(r).ref)
      BY NoRefIs DEF OrderInv, Old, Exists
    <2>3. QED
      BY <2>1, <2>2, NoRefIs
  <1> HIDE DEF item, step
  <1>5. /\ DOMAIN uploads' = DOMAIN uploads \union {k} /\ uploads'[k] = item
        /\ \A o \in DOMAIN uploads : o # k => o \in DOMAIN uploads' /\ uploads'[o] = uploads[o]
    BY <1>1
  <1>6. /\ job'[r].pc = step /\ job'[r].ref = NoRef /\ job'[r].all = NoRef
        /\ \A q \in Requests : q # r => job'[q] = job[q]
    BY <1>1, <1>3, EndsEmpty DEF Pc, Answer
  <1>7. k \notin raced => Alone(k)
    BY <1>2 DEF UploadKept, Undisturbed
  <1>8. job'[r].pc \notin {"put", "update"}
    BY <1>3, <1>6
  <1>9. \A o \in Key : \A v \in versions'[o] : Distinct(v.ref)
    <2>1. Held(k)'.ref = item.ref
      BY <1>5 DEF Held, Exists
    <2>2. \A o \in Key : \A v \in versions'[o] : v \in versions[o] \/ v = Held(k)'
      BY <1>1, <1>2 DEF UploadsTyped
    <2>3. QED
      BY <1>4, <2>1, <2>2 DEF OrderInv
  <1>10. QED
    BY <1>1, <1>2, <1>4, <1>5, <1>6, <1>7, <1>8, <1>9, NoRefIs, OrderOfItem

LEMMA DeleteOrders ==
    ASSUME ShardsInv, OrderInv, NEW r \in Requests, DeleteItem(r)
    PROVE  OrderInv'
  <1> DEFINE k == r.key
  <1>1. job[r].pc = "delete" /\ raced' = raced /\ versions' = versions /\ UploadsTyped
    BY DEF DeleteItem, ShardsInv
  <1>2. r \in UnderWay /\ k \in Key /\ UploadKept(k)
    BY <1>1, UploadAssumption DEF UnderWay, Answer, ShardsInv
  <1>3. CASE ~Exists(k)
    <2>1. End(r, "notFound") /\ uploads' = uploads
      BY <1>3 DEF DeleteItem
    <2>2. QED
      BY <1>1, <2>1, EndOrders DEF Answer
  <1>4. CASE Exists(k)
    <2> DEFINE ref == uploads[k].ref
               step == IF ref = NoRef THEN "count" ELSE "object"
               new == [job[r] EXCEPT !.ref = ref, !.pc = step]
    <2>1. /\ k \in DOMAIN uploads
          /\ uploads' = [o \in DOMAIN uploads \ {k} |-> uploads[o]]
          /\ job' = [job EXCEPT ![r].ref = ref, ![r].pc = step]
      BY <1>4 DEF DeleteItem, Exists
    <2>2. job \in [Requests -> Progress] /\ job[r] \in Progress
      BY <1>1 DEF UploadsTyped
    <2>3. step \notin {"put", "update"}
      OBVIOUS
    <2>4. job' = [job EXCEPT ![r] = new]
      BY <2>1, <2>2
    <2> HIDE DEF step
    <2>5. new.pc = step /\ new.ref = ref /\ new.all = job[r].all
      BY <2>2 DEF Progress
    <2> HIDE DEF new
    <2>6. job'[r] = new /\ \A q \in Requests : q # r => job'[q] = job[q]
      BY <2>2, <2>4
    <2>7. Distinct(new.ref) /\ Distinct(new.all)
      BY <2>1, <2>5 DEF OrderInv
    <2>8. /\ DOMAIN uploads' \subseteq DOMAIN uploads \union {k} /\ k \notin DOMAIN uploads'
          /\ \A o \in DOMAIN uploads : o # k => o \in DOMAIN uploads' /\ uploads'[o] = uploads[o]
      BY <2>1
    <2>9. k \notin raced => Alone(k)
      BY <1>2 DEF UploadKept, Undisturbed
    <2>10. job'[r].pc \notin {"put", "update"} /\ Distinct(job'[r].ref) /\ Distinct(job'[r].all)
      BY <2>3, <2>5, <2>6, <2>7
    <2>11. \A o \in Key : \A v \in versions'[o] : Distinct(v.ref)
      BY <1>1 DEF OrderInv
    <2>12. QED
      BY <1>1, <1>2, <2>6, <2>8, <2>9, <2>10, <2>11, OrderOfItem
  <1>5. QED
    BY <1>3, <1>4

LEMMA OrderStays ==
    ASSUME OrderInv, UNCHANGED <<uploads, versions, job, raced>>
    PROVE  OrderInv'
  BY DEF OrderInv, InOrder

LEMMA OrderStep ==
    ASSUME ShardsInv, OrderInv, [ContentNext]_<<vars, index>>
    PROVE  OrderInv'
  <1>1. ASSUME UNCHANGED vars PROVE OrderInv'
    BY <1>1, OrderStays DEF vars, tables, history
  <1>2. ASSUME Listing \/ Tick PROVE OrderInv'
    <2>1. UNCHANGED <<uploads, versions, job, raced>>
      BY <1>2 DEF Listing, OpenListing, ListShards, ListUploads, Tick, tables, history
    <2>2. QED
      BY <2>1, OrderStays
  <1>3. ASSUME NEW r \in Requests, Begin(r) \/ Upsert(r) \/ DeleteItem(r) PROVE OrderInv'
    BY <1>3, BeginOrders, GetOrders, FetchOrders, StoreOrders, UpdateOrders, DeleteOrders
       DEF Upsert, ShardsInv
  <1>4. ASSUME NEW r \in Requests, DeleteShards(r) \/ Count(r) \/ CountFails(r) \/ Stop(r)
        PROVE  OrderInv'
    <2>1. /\ UNCHANGED <<uploads, versions>> /\ raced \subseteq raced'
          /\ End(r, "ok") \/ End(r, "error") \/ End(r, "count")
      BY <1>4 DEF DeleteShards, Count, CountFails, Stop, tables, history
    <2>2. QED
      BY <2>1, EndOrders DEF Answer, ShardsInv
  <1>5. CASE ContentNext
    BY <1>1, <1>2, <1>3, <1>4, <1>5 DEF ContentNext, Next, Removal
  <1>6. CASE UNCHANGED <<vars, index>>
    BY <1>1, <1>6
  <1>7. QED
    BY <1>5, <1>6

LEMMA OrderStart == ASSUME Init PROVE OrderInv
  <1>1. DOMAIN uploads = {} /\ IsFiniteSet(DOMAIN uploads)
    BY FS_EmptySet DEF Init
  <1>2. \A r \in Requests : job[r].pc = "new" /\ job[r].ref = NoRef /\ job[r].all = NoRef
    BY DEF Init
  <1>3. \A k \in Key : \A v \in versions[k] : v.ref = NoRef
    BY DEF Init, NoItem
  <1>4. QED
    BY <1>1, <1>2, <1>3, NoRefIs DEF OrderInv, InOrder

LEMMA EmptyGrows == ASSUME NEW m PROVE Grows(<<>>, m)
  <1>1. DOMAIN (<<>>) = {}
    OBVIOUS
  <1>2. QED
    BY <1>1 DEF Grows, Before, ToSet

(* What happens to the list of an upload that is not raced.                 *)
LEMMA UpdateGrows ==
    ASSUME ShardsInv, OrderInv, NEW r \in Requests, UpdateItem(r), r.key \notin raced
    PROVE  Grows(ListOf(r.key, uploads), ListOf(r.key, uploads'))
  <1> DEFINE k == r.key
             all == job[r].all
             item == Updated(r)
             list == ListOf(k, uploads)
  <1>1. /\ job[r].pc = "update" /\ UploadsTyped
        /\ uploads' = [o \in DOMAIN uploads \union {k} |-> IF o = k THEN item ELSE uploads[o]]
    BY DEF UpdateItem, ShardsInv
  <1>2. r \in UnderWay /\ r.op = "add" /\ k \in Key /\ UploadKept(k)
    BY <1>1, UploadAssumption DEF UnderWay, Answer, UploadsTyped, ShardsInv
  <1>3. /\ item \in UploadItem
        /\ Len(all) >= Threshold => item.ref = all
        /\ ~(Len(all) >= Threshold) =>
             /\ item.shards = Old(r).shards \union ToSet(r.shards)
             /\ item.ref \in {NoRef, Old(r).ref}
    BY <1>1, <1>2, UpdatedIs
  <1> HIDE DEF item
  <1>4. k \in DOMAIN uploads' /\ uploads'[k] = item
    BY <1>1
  <1>5. ListOf(k, uploads') = IF item.ref = NoRef THEN Ascending(item.shards) ELSE item.ref
    BY <1>4 DEF ListOf
  <1>6. all \in Seq(Shard) /\ Len(all) \in Nat /\ Threshold \in Nat \ {0}
    <2>1. all \in Seq(Shard)
      BY <1>1 DEF UploadsTyped, Progress
    <2>2. QED
      BY <2>1, UploadAssumption
  <1>7. CASE Len(all) >= Threshold
    <2>1. all # NoRef
      BY <1>6, <1>7 DEF NoRef
    <2>2. all = Merged(list, r.shards)
      BY <1>1 DEF OrderInv, InOrder
    <2>3. ListOf(k, uploads') = all
      BY <1>3, <1>5, <1>7, <2>1
    <2>4. list \in Seq(Shard) /\ r.shards \in Seq(Shard)
      BY <1>1, <1>2, ListIs, UploadAssumption
    <2> HIDE DEF list
    <2>5. Grows(list, Merged(list, r.shards))
      BY <2>4, MergedGrows
    <2>6. QED
      BY <2>2, <2>3, <2>5 DEF list
  <1>8. CASE ~(Len(all) >= Threshold)
    <2>1. Len(all) < Threshold
      BY <1>6, <1>8
    <2>2. k \in DOMAIN uploads => uploads[k].ref = NoRef
      BY <1>1, <1>2, <2>1 DEF UploadKept, Undisturbed, Knows
    <2>3. Old(r).ref = NoRef
      BY <2>2 DEF Old, Exists
    <2>4. item.ref = NoRef
      BY <1>3, <1>8, <2>3
    <2>5. ListOf(k, uploads') = Ascending(item.shards)
      BY <1>5, <2>4
    <2>6. CASE k \notin DOMAIN uploads
      <3>1. list = <<>>
        BY <2>6 DEF ListOf
      <3>2. QED
        BY <3>1, EmptyGrows
    <2>7. CASE k \in DOMAIN uploads
      <3>1. list = Ascending(uploads[k].shards) /\ Old(r).shards = uploads[k].shards
        BY <2>2, <2>7 DEF ListOf, Old, Exists
      <3>2. item.shards \in SUBSET Shard /\ uploads[k].shards \subseteq item.shards
        BY <1>3, <1>8, <3>1 DEF UploadItem
      <3>3. IsFiniteSet(item.shards) /\ item.shards \in SUBSET Nat
        BY <3>2, ShardsFinite
      <3>4. Grows(Ascending(uploads[k].shards), Ascending(item.shards))
        BY <3>2, <3>3, AscendingGrows
      <3>5. QED
        BY <2>5, <3>1, <3>4
    <2>8. QED
      BY <2>6, <2>7
  <1>9. QED
    BY <1>7, <1>8

LEMMA OtherItems ==
    ASSUME NEW r \in Requests, UpdateItem(r) \/ DeleteItem(r), NEW k, k # r.key
    PROVE  ListOf(k, uploads') = ListOf(k, uploads)
  <1>1. /\ k \in DOMAIN uploads' <=> k \in DOMAIN uploads
        /\ k \in DOMAIN uploads => uploads'[k] = uploads[k]
    BY DEF UpdateItem, DeleteItem, Exists
  <1>2. QED
    BY <1>1 DEF ListOf

LEMMA DeleteEmpties ==
    ASSUME NEW r \in Requests, DeleteItem(r)
    PROVE  ListOf(r.key, uploads') = <<>>
  <1>1. r.key \notin DOMAIN uploads'
    BY DEF DeleteItem, Exists
  <1>2. QED
    BY <1>1 DEF ListOf

LEMMA GrowsItself == ASSUME NEW l PROVE Grows(l, l)
  BY DEF Grows

-----------------------------------------------------------------------------
(***************************************************************************)
(* The pages of an upload's shards. What was seen comes before the cursor; *)
(* what was there all along and was not seen is the cursor or comes after. *)
(***************************************************************************)
ShardPages(list, cursor, seen, watch, gone) ==
    /\ watch \subseteq ToSet(list)
    /\ gone => watch = {}
    /\ ~gone /\ cursor = 0 => seen = <<>>
    /\ ~gone /\ cursor # 0 =>
         /\ IsInjective(seen)
         /\ cursor \in ToSet(list)
         /\ \A x \in ToSet(seen) : Before(list, x, cursor)
         /\ \A x \in watch : x \in ToSet(seen) \/ x = cursor \/ Before(list, cursor, x)

LEMMA ShardPagesGrow ==
    ASSUME NEW list, NEW more, NEW cursor, NEW seen, NEW watch, NEW gone, NEW went,
           ShardPages(list, cursor, seen, watch, gone), Grows(list, more) \/ more = <<>>,
           went <=> gone \/ ~(ToSet(list) \subseteq ToSet(more))
    PROVE  ShardPages(more, cursor, seen, watch \intersect ToSet(more), went)
  <1>1. CASE Grows(list, more)
    <2>1. /\ ToSet(list) \subseteq ToSet(more) /\ watch \intersect ToSet(more) = watch
          /\ \A x, y : Before(list, x, y) => Before(more, x, y)
      BY <1>1 DEF Grows, ShardPages
    <2>2. went <=> gone
      BY <2>1
    <2>3. QED
      BY <2>1, <2>2 DEF ShardPages
  <1>2. CASE more = <<>>
    <2>1. ToSet(more) = {}
      BY <1>2 DEF ToSet
    <2>2. ToSet(list) \subseteq ToSet(more) => ToSet(list) = {}
      BY <2>1
    <2>3. QED
      BY <2>1, <2>2 DEF ShardPages
  <1>3. QED
    BY <1>1, <1>2

LEMMA AppendedDistinct ==
    ASSUME NEW S, NEW s \in Seq(S), NEW t \in Seq(S), IsInjective(s), IsInjective(t),
           ToSet(s) \intersect ToSet(t) = {}
    PROVE  IsInjective(s \o t)
  <1>1. Distinct(s) /\ Distinct(t)
    BY DistinctIs
  <1>2. /\ s \o t \in Seq(S) /\ ToSet(s \o t) = ToSet(s) \union ToSet(t)
        /\ Len(s \o t) = Len(s) + Len(t) /\ Len(s) \in Nat /\ Len(t) \in Nat
    BY Appended
  <1>3. /\ IsFiniteSet(ToSet(s) \union ToSet(t))
        /\ Cardinality(ToSet(s) \union ToSet(t)) = Cardinality(ToSet(s)) + Cardinality(ToSet(t)) - Cardinality({})
    BY <1>1, FS_Union DEF Distinct
  <1>4. Cardinality({}) = 0
    BY FS_EmptySet
  <1>5. Distinct(s \o t)
    BY <1>1, <1>2, <1>3, <1>4 DEF Distinct
  <1>6. QED
    BY <1>2, <1>5, DistinctIs

\* The next page begins at the place at: what was seen is before it.
BeginsAt(list, at, seen, watch) ==
    /\ IsInjective(seen)
    /\ \A x \in ToSet(seen) : \E i \in 1..(at - 1) : i \in DOMAIN list /\ list[i] = x
    /\ \A x \in watch : x \in ToSet(seen) \/ \E j \in at..Len(list) : list[j] = x

LEMMA NextBegins ==
    ASSUME NEW list \in Seq(Shard), IsInjective(list), NEW cursor \in Nat, NEW seen, NEW watch,
           ShardPages(list, cursor, seen, watch, FALSE)
    PROVE  \E at \in 1..(Len(list) + 1) :
             From(list, cursor) = SubSeq(list, at, Len(list)) /\ BeginsAt(list, at, seen, watch)
  <1>1. DOMAIN list = 1..Len(list) /\ Len(list) \in Nat /\ \A i \in DOMAIN list : list[i] \in Shard
    OBVIOUS
  <1>2. 0 \notin Shard
    BY UploadAssumption
  <1> DEFINE places == {i \in DOMAIN list : list[i] = cursor}
  <1>3. CASE cursor = 0
    <2>1. places = {}
      BY <1>1, <1>2, <1>3
    <2>2. From(list, cursor) = list
      BY <2>1 DEF From
    <2>3. SubSeq(list, 1, Len(list)) = list
      OBVIOUS
    <2>4. seen = <<>> /\ watch \subseteq ToSet(list)
      BY <1>3 DEF ShardPages
    <2>5. IsInjective(seen) /\ ToSet(seen) = {}
      BY <2>4 DEF IsInjective, ToSet
    <2>6. \A x \in watch : \E j \in 1..Len(list) : list[j] = x
      BY <1>1, <2>4 DEF ToSet
    <2>7. BeginsAt(list, 1, seen, watch)
      BY <2>5, <2>6 DEF BeginsAt
    <2>8. QED
      BY <1>1, <2>2, <2>3, <2>7
  <1>4. CASE cursor # 0
    <2>1. /\ IsInjective(seen) /\ cursor \in ToSet(list)
          /\ \A x \in ToSet(seen) : Before(list, x, cursor)
          /\ \A x \in watch : x \in ToSet(seen) \/ x = cursor \/ Before(list, cursor, x)
      BY <1>4 DEF ShardPages
    <2>2. PICK p \in DOMAIN list : list[p] = cursor
      BY <2>1 DEF ToSet
    <2>3. \A i \in DOMAIN list : list[i] = cursor => i = p
      BY <2>2 DEF IsInjective
    <2>4. places = {p} /\ p \in 1..Len(list)
      BY <1>1, <2>2, <2>3
    <2>5. Min({p}) = p
      BY <2>4 DEF Min
    <2>6. From(list, cursor) = SubSeq(list, p, Len(list))
      BY <2>4, <2>5 DEF From
    <2>7. ASSUME NEW x \in ToSet(seen) PROVE \E i \in 1..(p - 1) : i \in DOMAIN list /\ list[i] = x
      <3>1. PICK i \in DOMAIN list, j \in DOMAIN list : i < j /\ list[i] = x /\ list[j] = cursor
        BY <2>1 DEF Before
      <3>2. j = p
        BY <2>3, <3>1
      <3>3. i \in 1..(p - 1)
        BY <1>1, <2>4, <3>1, <3>2
      <3>4. QED
        BY <3>1, <3>3
    <2>8. ASSUME NEW x \in watch PROVE x \in ToSet(seen) \/ \E j \in p..Len(list) : list[j] = x
      <3>1. CASE x = cursor
        BY <2>2, <2>4, <3>1
      <3>2. CASE Before(list, cursor, x)
        <4>1. PICK i \in DOMAIN list, j \in DOMAIN list : i < j /\ list[i] = cursor /\ list[j] = x
          BY <3>2 DEF Before
        <4>2. i = p
          BY <2>3, <4>1
        <4>3. j \in p..Len(list)
          BY <1>1, <2>4, <4>1, <4>2
        <4>4. QED
          BY <4>1, <4>3
      <3>3. QED
        BY <2>1, <3>1, <3>2
    <2>9. BeginsAt(list, p, seen, watch)
      BY <2>1, <2>7, <2>8 DEF BeginsAt
    <2>10. QED
      BY <1>1, <2>4, <2>6, <2>9
  <1>5. QED
    BY <1>3, <1>4

\* A page of m shards from the place at.
LEMMA PageOf ==
    ASSUME NEW list \in Seq(Shard), IsInjective(list), NEW seen \in Seq(Nat), NEW watch,
           NEW at \in 1..(Len(list) + 1), BeginsAt(list, at, seen, watch),
           NEW page \in Seq(Nat), at + Len(page) - 1 <= Len(list),
           \A i \in 1..Len(page) : page[i] = list[at + i - 1]
    PROVE  BeginsAt(list, at + Len(page), seen \o page, watch)
  <1> DEFINE m == Len(page)
             end == at + m
  <1>1. /\ DOMAIN list = 1..Len(list) /\ Len(list) \in Nat /\ DOMAIN page = 1..m /\ m \in Nat
        /\ at \in Nat /\ at >= 1
    OBVIOUS
  <1>2. seen \o page \in Seq(Nat) /\ ToSet(seen \o page) = ToSet(seen) \union ToSet(page)
    BY Appended
  <1>3. \A i \in 1..m : at + i - 1 \in DOMAIN list
    BY <1>1
  <1>4. IsInjective(page)
    <2> SUFFICES ASSUME NEW i \in 1..m, NEW j \in 1..m, page[i] = page[j] PROVE i = j
      BY <1>1 DEF IsInjective
    <2>1. list[at + i - 1] = list[at + j - 1]
      OBVIOUS
    <2>2. at + i - 1 = at + j - 1
      BY <1>3, <2>1 DEF IsInjective
    <2>3. QED
      BY <1>1, <2>2
  <1>5. ToSet(seen) \intersect ToSet(page) = {}
    <2> SUFFICES ASSUME NEW x \in ToSet(seen), NEW j \in 1..m, page[j] = x PROVE FALSE
      BY <1>1 DEF ToSet
    <2>1. PICK i \in 1..(at - 1) : i \in DOMAIN list /\ list[i] = x
      BY DEF BeginsAt
    <2>2. list[at + j - 1] = x /\ at + j - 1 \in DOMAIN list
      BY <1>3
    <2>3. i = at + j - 1
      BY <2>1, <2>2 DEF IsInjective
    <2>4. QED
      BY <1>1, <2>1, <2>3
  <1>6. IsInjective(seen \o page)
    <2>1. IsInjective(seen)
      BY DEF BeginsAt
    <2>2. QED
      BY <1>4, <1>5, <2>1, AppendedDistinct
  <1>7. ASSUME NEW x \in ToSet(seen \o page)
        PROVE  \E i \in 1..(end - 1) : i \in DOMAIN list /\ list[i] = x
    <2>1. CASE x \in ToSet(seen)
      <3>1. PICK i \in 1..(at - 1) : i \in DOMAIN list /\ list[i] = x
        BY <2>1 DEF BeginsAt
      <3>2. i \in 1..(end - 1)
        BY <1>1, <3>1
      <3>3. QED
        BY <3>1, <3>2
    <2>2. CASE x \in ToSet(page)
      <3>1. PICK j \in 1..m : page[j] = x
        BY <1>1, <2>2 DEF ToSet
      <3>2. at + j - 1 \in 1..(end - 1) /\ at + j - 1 \in DOMAIN list /\ list[at + j - 1] = x
        BY <1>1, <1>3, <3>1
      <3>3. QED
        BY <3>2
    <2>3. QED
      BY <1>2, <2>1, <2>2
  <1>8. ASSUME NEW x \in watch
        PROVE  x \in ToSet(seen \o page) \/ \E j \in end..Len(list) : list[j] = x
    <2>1. CASE x \in ToSet(seen)
      BY <1>2, <2>1
    <2>2. ASSUME NEW j \in at..Len(list), list[j] = x
          PROVE  x \in ToSet(seen \o page) \/ \E i \in end..Len(list) : list[i] = x
      <3>1. CASE j < end
        <4>1. j - at + 1 \in 1..m /\ at + (j - at + 1) - 1 = j
          BY <1>1, <2>2, <3>1
        <4>2. page[j - at + 1] = x
          BY <2>2, <4>1
        <4>3. x \in ToSet(page)
          BY <1>1, <4>1, <4>2 DEF ToSet
        <4>4. QED
          BY <1>2, <4>3
      <3>2. CASE j >= end
        <4>1. j \in end..Len(list)
          BY <1>1, <2>2, <3>2
        <4>2. QED
          BY <2>2, <4>1
      <3>3. QED
        BY <1>1, <2>2, <3>1, <3>2
    <2>3. QED
      BY <2>1, <2>2 DEF BeginsAt
  <1>9. QED
    BY <1>6, <1>7, <1>8 DEF BeginsAt

LEMMA ShardPagesNext ==
    ASSUME NEW list \in Seq(Shard), IsInjective(list), NEW cursor \in Nat, NEW seen \in Seq(Nat), NEW watch,
           NEW gone \in BOOLEAN, ShardPages(list, cursor, seen, watch, gone), NEW size \in Nat \ {0}
    PROVE  LET rest == From(list, cursor)
           IN  IF Len(rest) > size
               THEN ShardPages(list, rest[size + 1], seen \o SubSeq(rest, 1, size), watch, gone)
               ELSE watch \subseteq ToSet(seen \o rest) /\ (gone \/ IsInjective(seen \o rest))
  <1> DEFINE rest == From(list, cursor)
  <1>1. CASE gone
    <2>1. watch = {}
      BY <1>1 DEF ShardPages
    <2>2. QED
      BY <1>1, <2>1 DEF ShardPages
  <1>2. CASE ~gone
    <2>1. ShardPages(list, cursor, seen, watch, FALSE)
      BY <1>2 DEF ShardPages
    <2>2. PICK at \in 1..(Len(list) + 1) :
             rest = SubSeq(list, at, Len(list)) /\ BeginsAt(list, at, seen, watch)
      BY <2>1, NextBegins
    <2>3. Len(list) \in Nat /\ DOMAIN list = 1..Len(list) /\ at \in Nat /\ at >= 1 /\ at <= Len(list) + 1
          /\ Shard \subseteq Nat \ {0}
      BY UploadAssumption
    <2>4. /\ rest \in Seq(Shard) /\ Len(rest) = Len(list) - at + 1
          /\ \A i \in 1..Len(rest) : rest[i] = list[at + i - 1]
      BY <2>2, <2>3
    <2> HIDE DEF rest
    <2>5. rest \in Seq(Nat)
      <3>1. \A x \in Shard : x \in Nat
        BY <2>3
      <3>2. rest \in [1..Len(rest) -> Shard] /\ Len(rest) \in Nat
        BY <2>4
      <3>3. rest \in [1..Len(rest) -> Nat]
        BY <3>1, <3>2
      <3>4. QED
        BY <3>2, <3>3
    <2>6. CASE Len(rest) > size
      <3> DEFINE page == SubSeq(rest, 1, size)
      <3>1. /\ page \in Seq(Nat) /\ Len(page) = size
            /\ \A i \in 1..size : page[i] = rest[i]
        BY <2>5, <2>6
      <3>2. \A i \in 1..Len(page) : page[i] = list[at + i - 1]
        BY <2>4, <2>6, <3>1
      <3>3. at + Len(page) - 1 <= Len(list)
        BY <2>3, <2>4, <2>6, <3>1
      <3> HIDE DEF page
      <3>4. BeginsAt(list, at + size, seen \o page, watch)
        BY <2>2, <3>1, <3>2, <3>3, PageOf
      <3> DEFINE next == rest[size + 1]
                 p == at + size
      <3>5. p \in DOMAIN list /\ next = list[p]
        <4>1. size + 1 \in 1..Len(rest) /\ at + (size + 1) - 1 = p
          BY <2>3, <2>4, <2>6
        <4>2. next = list[at + (size + 1) - 1]
          BY <2>4, <4>1
        <4>3. p \in 1..Len(list)
          BY <2>3, <2>4, <2>6
        <4>4. QED
          BY <2>3, <4>1, <4>2, <4>3
      <3>6. next \in Shard /\ next # 0
        BY <2>3, <3>5
      <3> HIDE DEF next
      <3>7. \A x \in ToSet(seen \o page) : Before(list, x, next)
        <4> SUFFICES ASSUME NEW x \in ToSet(seen \o page) PROVE Before(list, x, next)
          OBVIOUS
        <4>1. PICK i \in 1..(p - 1) : i \in DOMAIN list /\ list[i] = x
          BY <3>4 DEF BeginsAt
        <4>2. i < p
          BY <2>3, <4>1
        <4>3. QED
          BY <3>5, <4>1, <4>2 DEF Before
      <3>8. \A x \in watch : x \in ToSet(seen \o page) \/ x = next \/ Before(list, next, x)
        <4> SUFFICES ASSUME NEW x \in watch, x \notin ToSet(seen \o page), x # next
                     PROVE  Before(list, next, x)
          OBVIOUS
        <4>1. PICK j \in p..Len(list) : list[j] = x
          BY <3>4 DEF BeginsAt
        <4>2. j # p
          BY <3>5, <4>1
        <4>3. j \in DOMAIN list /\ p < j
          BY <2>3, <4>2
        <4>4. QED
          BY <3>5, <4>1, <4>3 DEF Before
      <3>9. next \in ToSet(list)
        BY <3>5 DEF ToSet
      <3>10. watch \subseteq ToSet(list) /\ IsInjective(seen \o page)
        BY <2>1, <3>4 DEF ShardPages, BeginsAt
      <3>11. ShardPages(list, next, seen \o page, watch, gone)
        BY <1>2, <3>6, <3>7, <3>8, <3>9, <3>10 DEF ShardPages
      <3>12. QED
        BY <2>6, <3>11 DEF rest, next, page
    <2>7. CASE ~(Len(rest) > size)
      <3>1. at + Len(rest) - 1 <= Len(list) /\ at + Len(rest) = Len(list) + 1
        BY <2>3, <2>4
      <3>2. BeginsAt(list, at + Len(rest), seen \o rest, watch)
        BY <2>2, <2>4, <2>5, <3>1, PageOf
      <3>3. (at + Len(rest))..Len(list) = {}
        BY <2>3, <3>1
      <3>4. watch \subseteq ToSet(seen \o rest) /\ IsInjective(seen \o rest)
        BY <3>2, <3>3 DEF BeginsAt
      <3>5. QED
        BY <2>7, <3>4 DEF rest
    <2>8. QED
      BY <2>6, <2>7 DEF rest
  <1>3. QED
    BY <1>1, <1>2

(***************************************************************************)
(* The pages of a space's uploads. A page goes on past the cursor, in the  *)
(* direction of the listing; what was there all along and is not past was  *)
(* seen.                                                                   *)
(***************************************************************************)
Reached(pre, cursor, x) == cursor # 0 /\ (IF pre THEN x >= cursor ELSE x <= cursor)

RootPages(pre, cursor, seen, watch, roots) ==
    /\ watch \subseteq roots
    /\ IsInjective(seen)
    /\ \A x \in ToSet(seen) : Reached(pre, cursor, x)
    /\ \A x \in watch : Reached(pre, cursor, x) => x \in ToSet(seen)

\* A list in the direction of the listing.
Along(pre, rest) ==
    \A i, j \in 1..Len(rest) : Reached(pre, rest[j], rest[i]) <=> i <= j

LEMMA RestAlong ==
    ASSUME NEW S \in SUBSET (Nat \ {0}), IsFiniteSet(S), NEW pre \in BOOLEAN, NEW rest,
           rest = IF pre THEN Reverse(Ascending(S)) ELSE Ascending(S)
    PROVE  rest \in Seq(S) /\ ToSet(rest) = S /\ Along(pre, rest)
  <1> DEFINE l == Ascending(S)
             n == Len(l)
  <1>1. S \in SUBSET Nat
    OBVIOUS
  <1>2. l \in Seq(S) /\ ToSet(l) = S
    BY <1>1, AscendingIs
  <1>3. \A i, j \in DOMAIN l : i < j => l[i] < l[j]
    BY <1>1, AscendingSorted
  <1> HIDE DEF l
  <1>4. n \in Nat /\ DOMAIN l = 1..n /\ \A i \in 1..n : l[i] \in S /\ l[i] \in Nat /\ l[i] # 0
    <2>1. n \in Nat /\ DOMAIN l = 1..n /\ \A i \in 1..n : l[i] \in S
      BY <1>2
    <2>2. \A x \in S : x \in Nat /\ x # 0
      OBVIOUS
    <2>3. QED
      BY <2>1, <2>2
  <1>5. \A i, j \in 1..n : l[i] <= l[j] <=> i <= j
    <2> SUFFICES ASSUME NEW i \in 1..n, NEW j \in 1..n PROVE l[i] <= l[j] <=> i <= j
      OBVIOUS
    <2>1. i < j => l[i] < l[j]
      BY <1>3, <1>4
    <2>2. j < i => l[j] < l[i]
      BY <1>3, <1>4
    <2>3. l[i] \in Nat /\ l[j] \in Nat /\ i \in Nat /\ j \in Nat
      BY <1>4
    <2>4. i = j => l[i] = l[j]
      OBVIOUS
    <2>5. QED
      BY <2>1, <2>2, <2>3, <2>4
  <1>6. CASE ~pre
    <2>1. rest = l
      BY <1>6 DEF l
    <2>2. \A i, j \in 1..n : Reached(pre, l[j], l[i]) <=> i <= j
      BY <1>4, <1>5, <1>6 DEF Reached
    <2>3. QED
      BY <1>2, <2>1, <2>2 DEF Along
  <1>7. CASE pre
    <2>1. rest = [i \in 1..n |-> l[(n - i) + 1]]
      BY <1>7 DEF l, Reverse
    <2> HIDE DEF n
    <2>2. \A i \in 1..n : (n - i) + 1 \in 1..n
      BY <1>4
    <2>3. \A i \in 1..n : rest[i] = l[(n - i) + 1] /\ rest[i] \in S
      BY <1>4, <2>1, <2>2
    <2>4. rest \in [1..n -> S]
      BY <2>1, <2>3
    <2>5. rest \in Seq(S) /\ Len(rest) = n
      BY <1>4, <2>4
    <2>6. ToSet(rest) = S
      <3>1. ToSet(rest) \subseteq S
        BY <2>3, <2>4 DEF ToSet
      <3>2. ASSUME NEW x \in S PROVE x \in ToSet(rest)
        <4>1. PICK i \in 1..n : l[i] = x
          BY <1>2, <1>4 DEF ToSet
        <4>2. (n - i) + 1 \in 1..n /\ (n - ((n - i) + 1)) + 1 = i
          BY <1>4
        <4>3. rest[(n - i) + 1] = x
          BY <2>3, <4>1, <4>2
        <4>4. QED
          BY <2>4, <4>2, <4>3 DEF ToSet
      <3>3. QED
        BY <3>1, <3>2
    <2>7. \A i, j \in 1..n : Reached(pre, rest[j], rest[i]) <=> i <= j
      <3> SUFFICES ASSUME NEW i \in 1..n, NEW j \in 1..n
                   PROVE  Reached(pre, rest[j], rest[i]) <=> i <= j
        OBVIOUS
      <3> DEFINE a == (n - i) + 1
                 b == (n - j) + 1
      <3>1. a \in 1..n /\ b \in 1..n /\ (b <= a <=> i <= j)
        BY <1>4
      <3>2. rest[i] = l[a] /\ rest[j] = l[b]
        BY <2>3
      <3> HIDE DEF a, b
      <3>3. l[a] \in Nat /\ l[b] \in Nat /\ l[b] # 0 /\ (l[b] <= l[a] <=> b <= a)
        BY <1>4, <1>5, <3>1
      <3>4. QED
        BY <1>7, <3>1, <3>2, <3>3 DEF Reached
    <2>8. QED
      BY <2>5, <2>6, <2>7 DEF Along
  <1>8. QED
    BY <1>6, <1>7

\* What is left to list, in the direction of the listing.
Rest(pre, cursor, seen, watch, roots, rest) ==
    /\ roots \in SUBSET (Nat \ {0}) /\ pre \in BOOLEAN /\ cursor \in Nat /\ seen \in Seq(Nat)
    /\ RootPages(pre, cursor, seen, watch, roots)
    /\ rest \in Seq(Nat) /\ Along(pre, rest)
    /\ \A x : x \in ToSet(rest) <=> x \in roots /\ ~Reached(pre, cursor, x)

(* A page of what is left, up to the place m.                               *)
LEMMA RootsSeen ==
    ASSUME NEW pre, NEW cursor, NEW seen, NEW watch, NEW roots, NEW rest,
           Rest(pre, cursor, seen, watch, roots, rest), NEW m, m \in Nat, m <= Len(rest),
           NEW page, page = SubSeq(rest, 1, m)
    PROVE  /\ page \in Seq(Nat) /\ IsInjective(seen \o page)
           /\ m # 0 => RootPages(pre, rest[m], seen \o page, watch, roots)
           /\ m = Len(rest) => watch \subseteq ToSet(seen \o page)
  <1> USE DEF Rest
  <1>1. DOMAIN rest = 1..Len(rest) /\ Len(rest) \in Nat
    OBVIOUS
  <1>2. page \in Seq(Nat) /\ Len(page) = m /\ DOMAIN page = 1..m /\ \A i \in 1..m : page[i] = rest[i]
    OBVIOUS
  <1>3. \A i \in 1..Len(rest) : /\ rest[i] \in roots /\ rest[i] \in Nat /\ rest[i] # 0
                                /\ ~Reached(pre, cursor, rest[i])
    BY <1>1 DEF ToSet
  <1>4. \A i \in 1..m : i \in 1..Len(rest)
    BY <1>1
  <1>5. IsInjective(page)
    <2> SUFFICES ASSUME NEW i \in 1..m, NEW j \in 1..m, page[i] = page[j] PROVE i = j
      BY <1>2 DEF IsInjective
    <2>1. rest[i] = rest[j] /\ i \in 1..Len(rest) /\ j \in 1..Len(rest)
      BY <1>2, <1>4
    <2>2. (i <= j <=> Reached(pre, rest[j], rest[i])) /\ (j <= i <=> Reached(pre, rest[i], rest[j]))
      BY <2>1 DEF Along
    <2>3. i <= j <=> j <= i
      BY <2>1, <2>2
    <2>4. QED
      BY <2>3
  <1>6. \A x \in ToSet(page) : x \notin ToSet(seen)
    BY <1>2, <1>3, <1>4 DEF ToSet, RootPages
  <1>7. ToSet(seen) \intersect ToSet(page) = {}
    BY <1>6
  <1>8. seen \o page \in Seq(Nat) /\ ToSet(seen \o page) = ToSet(seen) \union ToSet(page)
    <2>1. seen \in Seq(Nat) /\ page \in Seq(Nat)
      BY <1>2
    <2>2. QED
      BY ONLY <2>1, Appended
  <1>9. IsInjective(seen \o page)
    <2>1. IsInjective(seen)
      BY DEF RootPages
    <2>2. QED
      BY <1>2, <1>5, <1>7, <2>1, AppendedDistinct
  <1>10. \A x \in watch : x \in roots /\ (Reached(pre, cursor, x) => x \in ToSet(seen))
    BY DEF RootPages
  <1>11. ASSUME m # 0 PROVE RootPages(pre, rest[m], seen \o page, watch, roots)
    <2>1. m \in 1..Len(rest)
      BY <1>1, <1>11
    <2>2. ASSUME NEW x \in ToSet(seen \o page) PROVE Reached(pre, rest[m], x)
      <3>1. CASE x \in ToSet(seen)
        <4>1. x \in Nat
          BY <3>1 DEF ToSet
        <4>2. Reached(pre, cursor, x) /\ ~Reached(pre, cursor, rest[m]) /\ rest[m] \in Nat /\ rest[m] # 0
          BY <1>3, <2>1, <3>1 DEF RootPages
        <4>3. QED
          BY <4>1, <4>2 DEF Reached
      <3>2. CASE x \in ToSet(page)
        <4>1. PICK i \in 1..m : x = rest[i]
          BY <1>2, <3>2 DEF ToSet
        <4>2. i \in 1..Len(rest) /\ i <= m
          BY <1>4
        <4>3. QED
          BY <2>1, <4>1, <4>2 DEF Along
      <3>3. QED
        BY <1>8, <2>2, <3>1, <3>2
    <2>3. ASSUME NEW x \in watch, Reached(pre, rest[m], x) PROVE x \in ToSet(seen \o page)
      <3>1. CASE Reached(pre, cursor, x)
        BY <1>8, <1>10, <3>1
      <3>2. CASE ~Reached(pre, cursor, x)
        <4>1. PICK i \in 1..Len(rest) : rest[i] = x
          BY <1>1, <1>10, <3>2 DEF ToSet
        <4>2. i <= m
          BY <2>1, <2>3, <4>1 DEF Along
        <4>3. i \in 1..m /\ page[i] = x
          BY <1>2, <4>1, <4>2
        <4>4. x \in ToSet(page)
          BY <1>2, <4>3 DEF ToSet
        <4>5. QED
          BY <1>8, <4>4
      <3>3. QED
        BY <3>1, <3>2
    <2>4. QED
      BY <1>9, <1>10, <2>2, <2>3 DEF RootPages
  <1>12. ASSUME m = Len(rest), NEW x \in watch PROVE x \in ToSet(seen \o page)
    <2>1. CASE Reached(pre, cursor, x)
      BY <1>8, <1>10, <2>1
    <2>2. CASE ~Reached(pre, cursor, x)
      <3>1. PICK i \in 1..Len(rest) : rest[i] = x
        BY <1>1, <1>10, <1>12, <2>2 DEF ToSet
      <3>2. page[i] = x /\ i \in DOMAIN page
        BY <1>2, <1>12, <3>1
      <3>3. x \in ToSet(page)
        BY <3>2 DEF ToSet
      <3>4. QED
        BY <1>8, <3>3
    <2>3. QED
      BY <2>1, <2>2
  <1>13. QED
    BY <1>2, <1>9, <1>11, <1>12

(***************************************************************************)
(* The listing.                                                            *)
(***************************************************************************)
ListingRecord ==
    [state : {"open", "done", "failed"}, of : {"shards", "uploads"}, key : Key, pre : BOOLEAN,
     size : Nat, cursor : Nat, seen : Seq(Nat), gone : BOOLEAN, watch : SUBSET Nat]

PagesKept(l, up, known) ==
    /\ l.state = "open" /\ l.of = "uploads" =>
         RootPages(l.pre, l.cursor, l.seen, l.watch, RootsOf(l.key[1], up))
    /\ l.state = "open" /\ l.of = "shards" /\ l.key \notin known =>
         ShardPages(ListOf(l.key, up), l.cursor, l.seen, l.watch, l.gone)
    /\ l.state = "done" /\ (l.of = "uploads" \/ l.key \notin known) =>
         l.watch \subseteq ToSet(l.seen) /\ (l.gone \/ IsInjective(l.seen))

ListingInv == listing = NoListing \/ (listing \in ListingRecord /\ PagesKept(listing, uploads, raced))

LEMMA RootsAre ==
    ASSUME NEW up, IsFiniteSet(DOMAIN up), DOMAIN up \subseteq Key, NEW s
    PROVE  RootsOf(s, up) \in SUBSET (Nat \ {0}) /\ IsFiniteSet(RootsOf(s, up))
  <1> DEFINE K == {k \in DOMAIN up : k[1] = s}
             f == [k \in K |-> k[2]]
             T == RootsOf(s, up)
  <1>1. IsFiniteSet(K)
    BY FS_Subset
  <1>2. T = {k[2] : k \in K}
    BY DEF RootsOf
  <1>3. f \in Surjection(K, T)
    <2>1. \A k \in K : f[k] = k[2]
      OBVIOUS
    <2>2. DOMAIN f = K
      OBVIOUS
    <2> HIDE DEF f, K
    <2>3. T = {f[k] : k \in K}
      BY <1>2, <2>1
    <2> HIDE DEF T
    <2>4. f \in [K -> T]
      <3>1. f = [k \in K |-> f[k]]
        BY <2>2 DEF f
      <3>2. \A k \in K : f[k] \in T
        BY <2>3
      <3>3. QED
        BY <3>1, <3>2
    <2>5. QED
      BY <2>3, <2>4 DEF Surjection
  <1>4. IsFiniteSet(T)
    <2> HIDE DEF f, K, T
    <2>1. QED
      BY <1>1, <1>3, FS_Surjection
  <1>5. \A k \in K : k[2] \in Nat \ {0}
    BY UploadAssumption DEF Key
  <1>6. T \in SUBSET (Nat \ {0})
    BY <1>2, <1>5
  <1>7. QED
    BY <1>4, <1>6

LEMMA ListedRoots ==
    ASSUME NEW up, IsFiniteSet(DOMAIN up), DOMAIN up \subseteq Key, NEW obj,
           NEW l, l.of = "uploads"
    PROVE  ToSet(ItemsOf(l, up, obj)) = RootsOf(l.key[1], up)
  <1> DEFINE R == RootsOf(l.key[1], up)
  <1>1. R \in SUBSET (Nat \ {0}) /\ IsFiniteSet(R)
    BY RootsAre
  <1>2. R \in SUBSET Nat
    BY <1>1
  <1>3. ItemsOf(l, up, obj) = Ascending(R)
    BY DEF ItemsOf
  <1> HIDE DEF R
  <1>4. ToSet(Ascending(R)) = R
    BY <1>1, <1>2, AscendingIs
  <1>5. QED
    BY <1>3, <1>4 DEF R

LEMMA ListedShards ==
    ASSUME NEW up, NEW obj, NEW l, l.of = "shards",
           l.key \in DOMAIN up => up[l.key].ref = NoRef \/ ObjectOf(l.key, up[l.key].ref) \in obj
    PROVE  ItemsOf(l, up, obj) = ListOf(l.key, up)
  BY DEF ItemsOf, ListOf

LEMMA ListedNumbers ==
    ASSUME UploadsTyped, OrderInv, NEW l, l.of \in {"shards", "uploads"}, l.key \in Key
    PROVE  ToSet(ItemsOf(l, uploads, objects)) \subseteq Nat
  <1>1. CASE l.of = "uploads"
    <2>1. IsFiniteSet(DOMAIN uploads) /\ DOMAIN uploads \subseteq Key
      BY DEF UploadsTyped, OrderInv
    <2>2. ToSet(ItemsOf(l, uploads, objects)) = RootsOf(l.key[1], uploads)
      BY <1>1, <2>1, ListedRoots
    <2>3. RootsOf(l.key[1], uploads) \in SUBSET (Nat \ {0})
      BY <2>1, RootsAre
    <2>4. QED
      BY <2>2, <2>3
  <1>2. CASE l.of = "shards"
    <2>1. ItemsOf(l, uploads, objects) \in {<<>>, ListOf(l.key, uploads)}
      BY <1>2 DEF ItemsOf, ListOf
    <2>2. ListOf(l.key, uploads) \in Seq(Shard) /\ ToSet(<<>>) = {}
      BY ListIs, NoRefIs DEF NoRef
    <2>3. ToSet(ListOf(l.key, uploads)) \subseteq Shard
      BY <2>2 DEF ToSet
    <2>4. Shard \subseteq Nat
      BY UploadAssumption
    <2>5. QED
      BY <2>1, <2>2, <2>3, <2>4
  <1>3. QED
    BY <1>1, <1>2

LEMMA NoListingIs == NoListing.state = "none"
  BY DEF NoListing

(* What a step changes in the tables.                                       *)
LEMMA WatchedKeeps ==
    ASSUME ShardsInv, ShardsInv', OrderInv, OrderInv', ListingInv, Watched, raced \subseteq raced',
           \A k \in Key : k \notin raced' =>
               Grows(ListOf(k, uploads), ListOf(k, uploads')) \/ ListOf(k, uploads') = <<>>
    PROVE  ListingInv'
  <1>1. CASE listing.state # "open"
    <2>1. listing' = listing
      BY <1>1 DEF Watched
    <2>2. QED
      BY <1>1, <2>1 DEF ListingInv, PagesKept
  <1>2. CASE listing.state = "open"
    <2>1. listing \in ListingRecord /\ PagesKept(listing, uploads, raced)
      BY <1>2, NoListingIs DEF ListingInv
    <2> DEFINE before == ToSet(ItemsOf(listing, uploads, objects))
               after == ToSet(ItemsOf(listing, uploads', objects'))
               watch == listing.watch \intersect after
               gone == listing.gone \/ ~(before \subseteq after)
    <2>2. listing' = [listing EXCEPT !.watch = watch, !.gone = gone]
      BY <1>2, <2>1 DEF Watched, ListingRecord
    <2>3. watch \in SUBSET Nat /\ gone \in BOOLEAN
      BY <2>1 DEF ListingRecord
    <2> HIDE DEF watch, gone
    <2>4. /\ listing' \in ListingRecord /\ listing'.state = "open"
          /\ listing'.of = listing.of /\ listing'.key = listing.key /\ listing'.pre = listing.pre
          /\ listing'.cursor = listing.cursor /\ listing'.seen = listing.seen
          /\ listing'.watch = watch /\ listing'.gone = gone
      BY <1>2, <2>1, <2>2, <2>3 DEF ListingRecord
    <2> DEFINE k == listing.key
    <2>5. k \in Key /\ listing.of \in {"shards", "uploads"} /\ listing.gone \in BOOLEAN
      BY <2>1 DEF ListingRecord
    <2>6. CASE listing.of = "uploads"
      <3>1. IsFiniteSet(DOMAIN uploads') /\ DOMAIN uploads' \subseteq Key
        BY DEF OrderInv, ShardsInv, UploadsTyped
      <3>2. after = RootsOf(k[1], uploads')
        BY <2>6, <3>1, ListedRoots
      <3>3. RootPages(listing.pre, listing.cursor, listing.seen, listing.watch, RootsOf(k[1], uploads))
        BY <1>2, <2>1, <2>6 DEF PagesKept
      <3>4. RootPages(listing.pre, listing.cursor, listing.seen, watch, RootsOf(k[1], uploads'))
        BY <3>2, <3>3 DEF RootPages, watch
      <3>5. PagesKept(listing', uploads', raced')
        BY <2>4, <2>6, <3>4 DEF PagesKept
      <3>6. QED
        BY <2>4, <3>5 DEF ListingInv
    <2>7. CASE listing.of = "shards"
      <3>1. ASSUME k \notin raced'
            PROVE  ShardPages(ListOf(k, uploads'), listing.cursor, listing.seen, watch, gone)
        <4>1. k \notin raced
          BY <3>1
        <4>2. /\ k \in DOMAIN uploads => uploads[k].ref = NoRef \/ ObjectOf(k, uploads[k].ref) \in objects
              /\ k \in DOMAIN uploads' => uploads'[k].ref = NoRef \/ ObjectOf(k, uploads'[k].ref) \in objects'
          <5>1. PICK o \in Key : o = k
            BY <2>5
          <5>2. UploadKept(o) /\ UploadKept(o)' /\ o \notin raced /\ o \notin raced'
            BY <3>1, <5>1 DEF ShardsInv
          <5>3. /\ o \in DOMAIN uploads => uploads[o].ref = NoRef \/ ObjectOf(o, uploads[o].ref) \in objects
                /\ o \in DOMAIN uploads' => uploads'[o].ref = NoRef \/ ObjectOf(o, uploads'[o].ref) \in objects'
            BY <5>2 DEF UploadKept, Undisturbed, Readable
          <5>4. QED
            BY <5>1, <5>3
        <4>3. before = ToSet(ListOf(k, uploads)) /\ after = ToSet(ListOf(k, uploads'))
          <5>1. ItemsOf(listing, uploads, objects) = ListOf(k, uploads)
            BY <2>7, <4>2, ListedShards
          <5>2. ItemsOf(listing, uploads', objects') = ListOf(k, uploads')
            BY <2>7, <4>2, ListedShards
          <5>3. QED
            BY <5>1, <5>2
        <4>4. ShardPages(ListOf(k, uploads), listing.cursor, listing.seen, listing.watch, listing.gone)
          BY <1>2, <2>1, <2>7, <4>1 DEF PagesKept
        <4>5. Grows(ListOf(k, uploads), ListOf(k, uploads')) \/ ListOf(k, uploads') = <<>>
          BY <2>5, <3>1
        <4>6. gone <=> listing.gone \/ ~(ToSet(ListOf(k, uploads)) \subseteq ToSet(ListOf(k, uploads')))
          BY <4>3 DEF gone
        <4>7. ShardPages(ListOf(k, uploads'), listing.cursor, listing.seen,
                         listing.watch \intersect ToSet(ListOf(k, uploads')), gone)
          BY <4>4, <4>5, <4>6, ShardPagesGrow
        <4>8. QED
          BY <4>3, <4>7 DEF watch
      <3>2. PagesKept(listing', uploads', raced')
        BY <2>4, <2>7, <3>1 DEF PagesKept
      <3>3. QED
        BY <2>4, <3>2 DEF ListingInv
    <2>8. QED
      BY <2>5, <2>6, <2>7
  <1>3. QED
    BY <1>1, <1>2

LEMMA ListingStays ==
    ASSUME ListingInv, UNCHANGED <<listing, uploads>>, raced \subseteq raced'
    PROVE  ListingInv'
  BY DEF ListingInv, PagesKept

LEMMA OpenKeeps ==
    ASSUME ShardsInv, OrderInv, NEW l \in Listings, OpenListing(l)
    PROVE  ListingInv'
  <1> DEFINE items == ItemsOf(l, uploads, objects)
             watch == ToSet(items)
  <1>1. /\ l.key \in Key /\ l.of \in {"shards", "uploads"} /\ l.pre \in BOOLEAN /\ l.size \in Nat
        /\ UploadsTyped /\ uploads' = uploads /\ raced' = raced
    BY UploadAssumption DEF OpenListing, tables, history, ShardsInv
  <1>2. watch \in SUBSET Nat
    BY <1>1, ListedNumbers
  <1>3. listing' = [state |-> "open", of |-> l.of, key |-> l.key, pre |-> l.pre, size |-> l.size,
                    cursor |-> 0, seen |-> <<>>, gone |-> FALSE, watch |-> watch]
    BY DEF OpenListing
  <1> HIDE DEF watch
  <1>4. listing' \in ListingRecord
    <2>1. <<>> \in Seq(Nat) /\ 0 \in Nat
      OBVIOUS
    <2>2. QED
      BY <1>1, <1>2, <1>3, <2>1 DEF ListingRecord
  <1>5. /\ listing'.of = l.of /\ listing'.key = l.key /\ listing'.pre = l.pre /\ listing'.state = "open"
        /\ listing'.cursor = 0 /\ listing'.seen = <<>> /\ listing'.gone = FALSE /\ listing'.watch = watch
    BY <1>3
  <1>6. ToSet(<<>>) = {} /\ IsInjective(<<>>)
    BY DEF ToSet, IsInjective
  <1>7. CASE l.of = "uploads"
    <2>1. IsFiniteSet(DOMAIN uploads) /\ DOMAIN uploads \subseteq Key
      BY <1>1 DEF OrderInv, UploadsTyped
    <2>2. watch = RootsOf(l.key[1], uploads)
      BY <1>7, <2>1, ListedRoots DEF watch
    <2>3. RootPages(l.pre, 0, <<>>, watch, RootsOf(l.key[1], uploads))
      BY <1>6, <2>2 DEF RootPages, Reached
    <2>4. QED
      BY <1>1, <1>4, <1>5, <1>7, <2>3 DEF ListingInv, PagesKept
  <1>8. CASE l.of = "shards"
    <2>1. ASSUME l.key \notin raced PROVE ShardPages(ListOf(l.key, uploads), 0, <<>>, watch, FALSE)
      <3>1. UploadKept(l.key)
        BY <1>1 DEF ShardsInv
      <3>2. l.key \in DOMAIN uploads =>
              uploads[l.key].ref = NoRef \/ ObjectOf(l.key, uploads[l.key].ref) \in objects
        BY <2>1, <3>1 DEF UploadKept, Undisturbed, Readable
      <3>3. items = ListOf(l.key, uploads)
        BY <1>8, <3>2, ListedShards
      <3>4. QED
        BY <3>3 DEF ShardPages, watch
    <2>2. QED
      BY <1>1, <1>4, <1>5, <1>8, <2>1 DEF ListingInv, PagesKept
  <1>9. QED
    BY <1>1, <1>7, <1>8

LEMMA PageThenIs ==
    ASSUME listing \in ListingRecord, listing.state = "open",
           NEW page, page \in Seq(Nat), NEW cursor, cursor \in Nat, PageThen(page, cursor)
    PROVE  /\ listing' \in ListingRecord
           /\ listing'.state = IF cursor = 0 THEN "done" ELSE "open"
           /\ listing'.of = listing.of /\ listing'.key = listing.key /\ listing'.pre = listing.pre
           /\ listing'.cursor = cursor /\ listing'.seen = listing.seen \o page
           /\ listing'.watch = listing.watch /\ listing'.gone = listing.gone
  <1> DEFINE seen == listing.seen \o page
             state == IF cursor = 0 THEN "done" ELSE "open"
  <1>1. listing' = [listing EXCEPT !.seen = seen, !.cursor = cursor, !.state = state]
    BY DEF PageThen, ListingRecord
  <1>2. seen \in Seq(Nat)
    <2>1. listing.seen \in Seq(Nat)
      BY DEF ListingRecord
    <2>2. QED
      BY <2>1
  <1>3. state \in {"open", "done", "failed"}
    OBVIOUS
  <1> HIDE DEF seen, state
  <1>4. /\ listing' \in ListingRecord
        /\ listing'.state = state
        /\ listing'.of = listing.of /\ listing'.key = listing.key /\ listing'.pre = listing.pre
        /\ listing'.cursor = cursor /\ listing'.seen = seen
        /\ listing'.watch = listing.watch /\ listing'.gone = listing.gone
    BY <1>1, <1>2, <1>3 DEF ListingRecord
  <1>5. QED
    BY <1>4 DEF seen, state

LEMMA FromIs ==
    ASSUME NEW list \in Seq(Shard), IsInjective(list), NEW cursor
    PROVE  From(list, cursor) \in Seq(Nat) /\ From(list, cursor) \in Seq(Shard)
  <1> DEFINE at == {i \in DOMAIN list : list[i] = cursor}
             rest == From(list, cursor)
  <1>1. DOMAIN list = 1..Len(list) /\ Len(list) \in Nat
    OBVIOUS
  <1>2. rest \in Seq(Shard)
    <2>1. CASE at = {}
      BY <2>1 DEF From
    <2>2. CASE at # {}
      <3>1. PICK p \in DOMAIN list : list[p] = cursor
        BY <2>2
      <3>2. \A i \in DOMAIN list : list[i] = cursor => i = p
        BY <3>1 DEF IsInjective
      <3>3. at = {p} /\ p \in 1..Len(list)
        BY <1>1, <3>1, <3>2
      <3>4. Min({p}) = p
        BY <3>3 DEF Min
      <3>5. From(list, cursor) = SubSeq(list, p, Len(list))
        BY <3>3, <3>4 DEF From
      <3>6. SubSeq(list, p, Len(list)) \in Seq(Shard)
        BY <1>1, <3>3
      <3>7. QED
        BY <3>5, <3>6
    <2>3. QED
      BY <2>1, <2>2
  <1> HIDE DEF rest
  <1>3. \A x \in Shard : x \in Nat
    BY UploadAssumption
  <1>4. rest \in [1..Len(rest) -> Shard] /\ Len(rest) \in Nat
    BY <1>2
  <1>5. rest \in [1..Len(rest) -> Nat]
    BY <1>3, <1>4
  <1>6. rest \in Seq(Nat)
    BY <1>4, <1>5
  <1>7. QED
    BY <1>2, <1>6 DEF rest

LEMMA ListShardsKeeps ==
    ASSUME ShardsInv, OrderInv, ListingInv, ListShards
    PROVE  ListingInv'
  <1> DEFINE k == listing.key
             list == ListOf(k, uploads)
             rest == From(list, listing.cursor)
             size == Clamped(listing.size)
  <1>1. /\ listing.state = "open" /\ listing.of = "shards"
        /\ uploads' = uploads /\ raced' = raced /\ UploadsTyped
    BY DEF ListShards, tables, history, ShardsInv
  <1>2. listing \in ListingRecord /\ PagesKept(listing, uploads, raced)
    BY <1>1, NoListingIs DEF ListingInv
  <1>3. /\ k \in Key /\ listing.cursor \in Nat /\ listing.size \in Nat /\ listing.seen \in Seq(Nat)
        /\ listing.gone \in BOOLEAN
    BY <1>2 DEF ListingRecord
  <1>4. CASE listing' = [listing EXCEPT !.state = "failed"]
    <2>1. listing' \in ListingRecord /\ listing'.state = "failed"
      BY <1>2, <1>4 DEF ListingRecord
    <2>2. QED
      BY <2>1 DEF ListingInv, PagesKept
  <1>5. CASE listing' # [listing EXCEPT !.state = "failed"]
    <2>1. /\ k \in DOMAIN uploads
          /\ uploads[k].ref = NoRef \/ ObjectOf(k, uploads[k].ref) \in objects
      BY <1>5 DEF ListShards
    <2>2. ItemsOf(listing, uploads, objects) = list
      BY <1>1, <2>1, ListedShards
    <2>3. IF Len(rest) > size THEN PageThen(SubSeq(rest, 1, size), rest[size + 1]) ELSE PageThen(rest, 0)
      BY <1>5, <2>1, <2>2 DEF ListShards
    <2>4. list \in Seq(Shard) /\ IsInjective(list)
      <3>1. list \in Seq(Shard) /\ Distinct(list)
        BY <1>1, <1>3, ListIs
      <3>2. QED
        BY <3>1, DistinctIs
    <2>5. size \in Nat \ {0}
      BY <1>3, UploadAssumption DEF Clamped
    <2> HIDE DEF size
    <2>6. ASSUME k \notin raced
          PROVE  IF Len(rest) > size
                 THEN ShardPages(list, rest[size + 1], listing.seen \o SubSeq(rest, 1, size),
                                 listing.watch, listing.gone)
                 ELSE /\ listing.watch \subseteq ToSet(listing.seen \o rest)
                      /\ listing.gone \/ IsInjective(listing.seen \o rest)
      <3>1. ShardPages(list, listing.cursor, listing.seen, listing.watch, listing.gone)
        BY <1>1, <1>2, <2>6 DEF PagesKept
      <3> HIDE DEF list
      <3>2. QED
        BY <1>3, <2>4, <2>5, <3>1, ShardPagesNext
    <2>7. rest \in Seq(Nat) /\ rest \in Seq(Shard)
      <3> HIDE DEF list
      <3>1. QED
        BY <2>4, FromIs
    <2> HIDE DEF rest, list
    <2>8. CASE Len(rest) > size
      <3> DEFINE page == SubSeq(rest, 1, size)
                 next == rest[size + 1]
      <3>1. page \in Seq(Nat)
        BY <2>5, <2>7, <2>8
      <3>2. next \in Shard
        BY <2>5, <2>7, <2>8
      <3>3. next \in Nat /\ next # 0
        BY <3>2, UploadAssumption
      <3>4. PageThen(page, next)
        BY <2>3, <2>8
      <3> HIDE DEF page, next
      <3>5. /\ listing' \in ListingRecord /\ listing'.state = "open"
            /\ listing'.of = listing.of /\ listing'.key = k
            /\ listing'.cursor = next /\ listing'.seen = listing.seen \o page
            /\ listing'.watch = listing.watch /\ listing'.gone = listing.gone
        BY <1>1, <1>2, <3>1, <3>3, <3>4, PageThenIs
      <3>6. k \notin raced => ShardPages(list, next, listing.seen \o page, listing.watch, listing.gone)
        BY <2>6, <2>8 DEF page, next
      <3>7. PagesKept(listing', uploads', raced')
        BY <1>1, <3>5, <3>6 DEF PagesKept, list
      <3>8. QED
        BY <3>5, <3>7 DEF ListingInv
    <2>9. CASE ~(Len(rest) > size)
      <3>1. PageThen(rest, 0) /\ 0 \in Nat
        BY <2>3, <2>9
      <3>2. /\ listing' \in ListingRecord /\ listing'.state = "done"
            /\ listing'.of = listing.of /\ listing'.key = k /\ listing'.seen = listing.seen \o rest
            /\ listing'.watch = listing.watch /\ listing'.gone = listing.gone
        BY <1>1, <1>2, <2>7, <3>1, PageThenIs
      <3>3. PagesKept(listing', uploads', raced')
        BY <1>1, <2>6, <2>9, <3>2 DEF PagesKept
      <3>4. QED
        BY <3>2, <3>3 DEF ListingInv
    <2>10. QED
      BY <2>8, <2>9
  <1>6. QED
    BY <1>4, <1>5

LEMMA ListUploadsKeeps ==
    ASSUME ShardsInv, OrderInv, ListingInv, ListUploads
    PROVE  ListingInv'
  <1> DEFINE roots == RootsOf(listing.key[1], uploads)
             left == IF listing.pre THEN {t \in roots : listing.cursor = 0 \/ t < listing.cursor}
                                    ELSE {t \in roots : t > listing.cursor}
             rest == IF listing.pre THEN Reverse(Ascending(left)) ELSE Ascending(left)
             size == IF listing.size = 0 THEN DefaultPage ELSE listing.size
  <1>1. /\ listing.state = "open" /\ listing.of = "uploads"
        /\ uploads' = uploads /\ raced' = raced /\ UploadsTyped
    BY DEF ListUploads, tables, history, ShardsInv
  <1>2. listing \in ListingRecord /\ PagesKept(listing, uploads, raced)
    BY <1>1, NoListingIs DEF ListingInv
  <1>3. /\ listing.cursor \in Nat /\ listing.size \in Nat /\ listing.seen \in Seq(Nat)
        /\ listing.gone \in BOOLEAN /\ listing.pre \in BOOLEAN
    BY <1>2 DEF ListingRecord
  <1>4. IF Len(rest) >= size THEN PageThen(SubSeq(rest, 1, size), rest[size]) ELSE PageThen(rest, 0)
    <2>1. CASE listing.pre
      BY <2>1 DEF ListUploads
    <2>2. CASE ~listing.pre
      BY <2>2 DEF ListUploads
    <2>3. QED
      BY <2>1, <2>2
  <1>5. roots \in SUBSET (Nat \ {0}) /\ IsFiniteSet(roots)
    <2>1. IsFiniteSet(DOMAIN uploads) /\ DOMAIN uploads \subseteq Key
      BY <1>1 DEF OrderInv, UploadsTyped
    <2>2. QED
      BY <2>1, RootsAre
  <1>6. RootPages(listing.pre, listing.cursor, listing.seen, listing.watch, roots)
    BY <1>1, <1>2 DEF PagesKept
  <1>7. size \in Nat \ {0}
    BY <1>3, UploadAssumption
  <1> HIDE DEF roots, size
  <1>8. left = {x \in roots : ~Reached(listing.pre, listing.cursor, x)}
    <2>1. ASSUME NEW x \in roots PROVE x \in left <=> ~Reached(listing.pre, listing.cursor, x)
      <3>1. x \in Nat /\ x # 0
        BY <1>5
      <3>2. CASE listing.pre
        BY <1>3, <3>1, <3>2 DEF Reached
      <3>3. CASE ~listing.pre
        BY <1>3, <3>1, <3>3 DEF Reached
      <3>4. QED
        BY <3>2, <3>3
    <2>2. left \subseteq roots
      OBVIOUS
    <2> HIDE DEF left
    <2>3. QED
      BY <2>1, <2>2
  <1>9. left \in SUBSET (Nat \ {0}) /\ IsFiniteSet(left)
    <2>1. left \in SUBSET roots
      BY <1>8
    <2> HIDE DEF left
    <2>2. QED
      BY <1>5, <2>1, FS_Subset
  <1> HIDE DEF left
  <1>10. rest \in Seq(left) /\ ToSet(rest) = left /\ Along(listing.pre, rest)
    BY <1>3, <1>9, RestAlong
  <1> HIDE DEF rest
  <1>11. rest \in Seq(Nat) /\ Len(rest) \in Nat /\ \A i \in 1..Len(rest) : rest[i] \in Nat \ {0}
    <2>1. rest \in [1..Len(rest) -> left] /\ Len(rest) \in Nat
      BY <1>10
    <2>2. \A x \in left : x \in Nat \ {0}
      BY <1>9
    <2>3. rest \in [1..Len(rest) -> Nat] /\ \A i \in 1..Len(rest) : rest[i] \in Nat \ {0}
      BY <2>1, <2>2
    <2>4. QED
      BY <2>1, <2>3
  <1>12. ASSUME NEW m, m \in Nat, m <= Len(rest), NEW page, page = SubSeq(rest, 1, m)
         PROVE  /\ page \in Seq(Nat) /\ IsInjective(listing.seen \o page)
                /\ m # 0 => RootPages(listing.pre, rest[m], listing.seen \o page, listing.watch, roots)
                /\ m = Len(rest) => listing.watch \subseteq ToSet(listing.seen \o page)
    <2>1. \A x : x \in ToSet(rest) <=> x \in roots /\ ~Reached(listing.pre, listing.cursor, x)
      BY <1>8, <1>10
    <2>2. rest \in Seq(Nat) /\ Along(listing.pre, rest)
      BY <1>10, <1>11
    <2>3. Rest(listing.pre, listing.cursor, listing.seen, listing.watch, roots, rest)
      BY <1>3, <1>5, <1>6, <2>1, <2>2 DEF Rest
    <2>4. QED
      BY <1>12, <2>3, RootsSeen
  <1>13. CASE Len(rest) >= size
    <2> DEFINE page == SubSeq(rest, 1, size)
               next == rest[size]
    <2>1. size \in Nat /\ size <= Len(rest) /\ size # 0
      BY <1>7, <1>11, <1>13
    <2>2. /\ page \in Seq(Nat)
          /\ RootPages(listing.pre, next, listing.seen \o page, listing.watch, roots)
      BY <1>11, <1>12, <2>1
    <2>3. next \in Nat /\ next # 0
      BY <1>11, <2>1
    <2>4. PageThen(page, next)
      BY <1>4, <1>13
    <2> HIDE DEF page, next
    <2>5. /\ listing' \in ListingRecord /\ listing'.state = "open"
          /\ listing'.of = listing.of /\ listing'.key = listing.key /\ listing'.pre = listing.pre
          /\ listing'.cursor = next /\ listing'.seen = listing.seen \o page
          /\ listing'.watch = listing.watch
      BY <1>1, <1>2, <2>2, <2>3, <2>4, PageThenIs
    <2>6. PagesKept(listing', uploads', raced')
      BY <1>1, <2>2, <2>5 DEF PagesKept, roots
    <2>7. QED
      BY <2>5, <2>6 DEF ListingInv
  <1>14. CASE ~(Len(rest) >= size)
    <2>1. SubSeq(rest, 1, Len(rest)) = rest /\ Len(rest) <= Len(rest)
      BY <1>11
    <2>2. /\ IsInjective(listing.seen \o rest)
          /\ listing.watch \subseteq ToSet(listing.seen \o rest)
      BY <1>11, <1>12, <2>1
    <2>3. PageThen(rest, 0) /\ 0 \in Nat
      BY <1>4, <1>14
    <2>4. /\ listing' \in ListingRecord /\ listing'.state = "done" /\ listing'.of = listing.of
          /\ listing'.seen = listing.seen \o rest /\ listing'.watch = listing.watch
      BY <1>1, <1>2, <1>11, <2>3, PageThenIs
    <2>5. PagesKept(listing', uploads', raced')
      BY <1>1, <2>2, <2>4 DEF PagesKept
    <2>6. QED
      BY <2>4, <2>5 DEF ListingInv
  <1>15. QED
    BY <1>13, <1>14

LEMMA ListingStep ==
    ASSUME ShardsInv, ShardsInv', OrderInv, OrderInv', ListingInv, [ContentNext]_<<vars, index>>
    PROVE  ListingInv'
  <1>1. ASSUME UNCHANGED vars PROVE ListingInv'
    BY <1>1, ListingStays DEF vars, tables, history
  <1>2. ASSUME Listing PROVE ListingInv'
    BY <1>2, OpenKeeps, ListShardsKeeps, ListUploadsKeeps DEF Listing
  <1>3. ASSUME Tick PROVE ListingInv'
    BY <1>3, ListingStays DEF Tick, tables, history
  <1>4. ASSUME NEW r \in Requests,
               Begin(r) \/ GetItem(r) \/ FetchShards(r) \/ Count(r) \/ CountFails(r) \/ Stop(r)
        PROVE  ListingInv'
    <2>1. UNCHANGED <<listing, uploads>> /\ raced \subseteq raced'
      BY <1>4 DEF Begin, GetItem, FetchShards, Count, CountFails, Stop, tables, history
    <2>2. QED
      BY <2>1, ListingStays
  <1>5. ASSUME NEW r \in Requests, StoreShards(r) \/ DeleteShards(r) PROVE ListingInv'
    <2>1. uploads' = uploads /\ raced \subseteq raced' /\ Watched
      BY <1>5 DEF StoreShards, DeleteShards, history
    <2>2. \A k \in Key : Grows(ListOf(k, uploads), ListOf(k, uploads'))
      BY <2>1, GrowsItself
    <2>3. QED
      BY <2>1, <2>2, WatchedKeeps
  <1>6. ASSUME NEW r \in Requests, UpdateItem(r) \/ DeleteItem(r) PROVE ListingInv'
    <2>1. raced' = raced /\ Watched
      BY <1>6 DEF UpdateItem, DeleteItem
    <2>2. ASSUME NEW k \in Key, k \notin raced'
          PROVE  Grows(ListOf(k, uploads), ListOf(k, uploads')) \/ ListOf(k, uploads') = <<>>
      <3>1. CASE k # r.key
        <4>1. ListOf(k, uploads') = ListOf(k, uploads)
          BY <1>6, <3>1, OtherItems
        <4>2. QED
          BY <4>1, GrowsItself
      <3>2. CASE k = r.key /\ UpdateItem(r)
        BY <2>1, <2>2, <3>2, UpdateGrows
      <3>3. CASE k = r.key /\ DeleteItem(r)
        BY <3>3, DeleteEmpties
      <3>4. QED
        BY <1>6, <3>1, <3>2, <3>3
    <2>3. QED
      BY <2>1, <2>2, WatchedKeeps
  <1>7. CASE ContentNext
    BY <1>1, <1>2, <1>3, <1>4, <1>5, <1>6, <1>7 DEF ContentNext, Next, Upsert, Removal
  <1>8. CASE UNCHANGED <<vars, index>>
    BY <1>1, <1>8
  <1>9. QED
    BY <1>7, <1>8

LEMMA ListingSafe == ASSUME ListingInv PROVE ListingsComplete
  BY NoListingIs DEF ListingInv, PagesKept, ListingsComplete

(***************************************************************************)
(* For any requests at once, failures, sizes of pages and order of the     *)
(* listing: a client that follows the cursors to the end has seen all that *)
(* was there all along, and nothing twice unless something was removed     *)
(* meanwhile; the roots of a space always, the shards of an upload when no *)
(* two requests were about it at once (list and listShards of              *)
(* tables/upload.js).                                                      *)
(***************************************************************************)
THEOREM ListingsShowAll == ContentSpec => []ListingsComplete
  <1> DEFINE Inv == ShardsInv /\ OrderInv /\ ListingInv
  <1>1. ContentInit => Inv
    BY ShardsStart, OrderStart DEF ContentInit, Init, ListingInv
  <1>2. Inv /\ [ContentNext]_<<vars, index>> => Inv'
    BY ShardsStep, OrderStep, ListingStep
  <1>3. Inv => ListingsComplete
    BY ListingSafe
  <1>4. QED
    BY <1>1, <1>2, <1>3, PTL DEF ContentSpec
=============================================================================
