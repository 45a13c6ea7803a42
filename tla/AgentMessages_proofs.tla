------------------------- MODULE AgentMessages_proofs -------------------------
(***************************************************************************)
(* What is proved of the agent messages, for any tasks, messages, batches  *)
(* and failures: what was answered can be read and is on the stream,       *)
(* receipts are billed once, and totals repeat what failures pay for.      *)
(***************************************************************************)
EXTENDS AgentMessagesProperties, SequenceTheorems, DataLemmas

(***************************************************************************)
(* The writes, as records: a step of one changes its own.                  *)
(***************************************************************************)
Phase == {"new", "open", "ok", "error"}
LogPhase == {"none", "find", "read", "done", "failed"}
Command == [to : {"bucket"}, task : {0}] \union [to : {"in", "out"}, task : Task]
Lefts == SUBSET Command
Finds == SUBSET Task

Job == [pc : Phase, left : Lefts, broken : BOOLEAN, log : LogPhase, find : Finds, entry : Nat]

JobsTyped == job \in [Sendings -> Job]

\* The write of w becomes j.
Becomes(w, j) ==
    /\ JobsTyped'
    /\ \A v \in Sendings \ {w} : job'[v] = job[v]
    /\ job'[w].pc = j.pc /\ job'[w].left = j.left /\ job'[w].broken = j.broken
    /\ job'[w].log = j.log /\ job'[w].find = j.find

WriteOf(pc, left, broken, log, find) ==
    [pc |-> pc, left |-> left, broken |-> broken, log |-> log, find |-> find]

LEMMA CommandsTyped == ASSUME NEW w \in Sendings PROVE Commands(w) \in Lefts /\ {r.task : r \in w.out} \in Finds
  BY AgentAssumption DEF Commands, Command, Lefts, Finds

LEMMA Become ==
    ASSUME JobsTyped, NEW w \in Sendings, NEW j \in Job, job' = [job EXCEPT ![w] = j]
    PROVE  Becomes(w, WriteOf(j.pc, j.left, j.broken, j.log, j.find))
  BY DEF JobsTyped, Becomes, WriteOf

(***************************************************************************)
(* What each step does to the write it is about.                           *)
(***************************************************************************)
LEMMA MinIsThere == ASSUME NEW S \in SUBSET Nat, S # {} PROVE Min(S) \in S
  <1>1. PICK n \in S : \A k \in S : n <= k
    BY LeastNatural
  <1>2. QED
    BY <1>1 DEF Min

LEMMA WriteMoves ==
    ASSUME JobsTyped, NEW w \in Sendings, Write(w)
    PROVE  Becomes(w, WriteOf("open", Commands(w), job[w].broken, "find", {r.task : r \in w.out} \ w.in))
  <1> DEFINE x == job[w]
  <1>1. x \in Job /\ "open" \in Phase /\ "find" \in LogPhase /\ Commands(w) \in Lefts
        /\ ({r.task : r \in w.out} \ w.in) \in Finds
    BY CommandsTyped DEF JobsTyped, Phase, LogPhase, Finds
  <1>2. PICK j : /\ j = [x EXCEPT !.pc = "open", !.left = Commands(w), !.log = "find",
                                  !.find = {r.task : r \in w.out} \ w.in]
                 /\ job' = [job EXCEPT ![w] = j]
    BY DEF Write
  <1> HIDE DEF x
  <1> DEFINE left == Commands(w)
             find == {r.task : r \in w.out} \ w.in
  <1> HIDE DEF left, find
  <1>3. j \in Job /\ j.pc = "open" /\ j.left = left /\ j.broken = x.broken /\ j.log = "find" /\ j.find = find
    BY <1>1, <1>2 DEF Job, left, find
  <1>4. Becomes(w, WriteOf("open", left, x.broken, "find", find))
    BY <1>2, <1>3, Become
  <1>5. QED
    BY <1>4 DEF left, find, x

LEMMA CommandMoves ==
    ASSUME JobsTyped, NEW w \in Sendings, NEW c \in job[w].left
    PROVE  /\ job' = [job EXCEPT ![w].left = @ \ {c}] =>
                Becomes(w, WriteOf(job[w].pc, job[w].left \ {c}, job[w].broken, job[w].log, job[w].find))
           /\ job' = [job EXCEPT ![w].left = @ \ {c}, ![w].broken = TRUE] =>
                Becomes(w, WriteOf(job[w].pc, job[w].left \ {c}, TRUE, job[w].log, job[w].find))
  <1> DEFINE x == job[w]
             left == job[w].left \ {c}
  <1>1. x \in Job /\ left \in Lefts
    BY DEF JobsTyped, Job, Lefts
  <1>2. ASSUME job' = [job EXCEPT ![w].left = @ \ {c}]
        PROVE  Becomes(w, WriteOf(x.pc, left, x.broken, x.log, x.find))
    <2>1. PICK j : j = [x EXCEPT !.left = left] /\ job' = [job EXCEPT ![w] = j]
      BY <1>2
    <2> HIDE DEF x, left
    <2>2. j \in Job /\ j.pc = x.pc /\ j.left = left /\ j.broken = x.broken /\ j.log = x.log /\ j.find = x.find
      BY <1>1, <2>1 DEF Job
    <2>3. QED
      BY <2>1, <2>2, Become
  <1>3. ASSUME job' = [job EXCEPT ![w].left = @ \ {c}, ![w].broken = TRUE]
        PROVE  Becomes(w, WriteOf(x.pc, left, TRUE, x.log, x.find))
    <2>1. PICK j : j = [x EXCEPT !.left = left, !.broken = TRUE] /\ job' = [job EXCEPT ![w] = j]
      BY <1>3
    <2> HIDE DEF x, left
    <2>2. j \in Job /\ j.pc = x.pc /\ j.left = left /\ j.broken = TRUE /\ j.log = x.log /\ j.find = x.find
      BY <1>1, <2>1 DEF Job
    <2>3. QED
      BY <2>1, <2>2, Become
  <1>4. QED
    BY <1>2, <1>3

LEMMA LogMoves ==
    ASSUME JobsTyped, NEW w \in Sendings, NEW entry \in Nat, NEW log \in LogPhase, NEW find \in Finds
    PROVE  /\ job' = [job EXCEPT ![w].entry = entry, ![w].log = log] =>
                Becomes(w, WriteOf(job[w].pc, job[w].left, job[w].broken, log, job[w].find))
           /\ job' = [job EXCEPT ![w].entry = entry, ![w].log = log, ![w].find = find] =>
                Becomes(w, WriteOf(job[w].pc, job[w].left, job[w].broken, log, find))
           /\ job' = [job EXCEPT ![w].log = log] =>
                Becomes(w, WriteOf(job[w].pc, job[w].left, job[w].broken, log, job[w].find))
  <1> DEFINE x == job[w]
  <1>1. x \in Job
    BY DEF JobsTyped
  <1>2. ASSUME job' = [job EXCEPT ![w].entry = entry, ![w].log = log]
        PROVE  Becomes(w, WriteOf(x.pc, x.left, x.broken, log, x.find))
    <2>1. PICK j : j = [x EXCEPT !.entry = entry, !.log = log] /\ job' = [job EXCEPT ![w] = j]
      BY <1>2
    <2> HIDE DEF x
    <2>2. j \in Job /\ j.pc = x.pc /\ j.left = x.left /\ j.broken = x.broken /\ j.log = log /\ j.find = x.find
      BY <1>1, <2>1 DEF Job
    <2>3. QED
      BY <2>1, <2>2, Become
  <1>3. ASSUME job' = [job EXCEPT ![w].entry = entry, ![w].log = log, ![w].find = find]
        PROVE  Becomes(w, WriteOf(x.pc, x.left, x.broken, log, find))
    <2>1. PICK j : j = [x EXCEPT !.entry = entry, !.log = log, !.find = find] /\ job' = [job EXCEPT ![w] = j]
      BY <1>3
    <2> HIDE DEF x
    <2>2. j \in Job /\ j.pc = x.pc /\ j.left = x.left /\ j.broken = x.broken /\ j.log = log /\ j.find = find
      BY <1>1, <2>1 DEF Job
    <2>3. QED
      BY <2>1, <2>2, Become
  <1>4. ASSUME job' = [job EXCEPT ![w].log = log]
        PROVE  Becomes(w, WriteOf(x.pc, x.left, x.broken, log, x.find))
    <2>1. PICK j : j = [x EXCEPT !.log = log] /\ job' = [job EXCEPT ![w] = j]
      BY <1>4
    <2> HIDE DEF x
    <2>2. j \in Job /\ j.pc = x.pc /\ j.left = x.left /\ j.broken = x.broken /\ j.log = log /\ j.find = x.find
      BY <1>1, <2>1 DEF Job
    <2>3. QED
      BY <2>1, <2>2, Become
  <1>5. QED
    BY <1>2, <1>3, <1>4

LEMMA AnswerMoves ==
    ASSUME JobsTyped, NEW w \in Sendings, AnswerWrite(w)
    PROVE  \E pc \in {"ok", "error"} :
             /\ Becomes(w, WriteOf(pc, job[w].left, job[w].broken, job[w].log, job[w].find))
             /\ pc = "ok" => ~job[w].broken /\ job[w].left = {} /\ job[w].log = "done"
  <1> DEFINE x == job[w]
             pc == IF job[w].broken \/ job[w].log = "failed" THEN "error" ELSE "ok"
  <1>1. x \in Job /\ pc \in {"ok", "error"} /\ pc \in Phase
    BY DEF JobsTyped, Phase
  <1>2. PICK j : j = [x EXCEPT !.pc = pc] /\ job' = [job EXCEPT ![w] = j]
    BY DEF AnswerWrite
  <1>3. pc = "ok" => ~x.broken /\ x.left = {} /\ x.log = "done"
    BY DEF AnswerWrite, Settled
  <1> HIDE DEF x, pc
  <1>4. j \in Job /\ j.pc = pc /\ j.left = x.left /\ j.broken = x.broken /\ j.log = x.log /\ j.find = x.find
    BY <1>1, <1>2 DEF Job
  <1>5. Becomes(w, WriteOf(pc, x.left, x.broken, x.log, x.find))
    BY <1>2, <1>4, Become
  <1>6. QED
    BY <1>1, <1>3, <1>5 DEF x

LEMMA DieMoves ==
    ASSUME JobsTyped, NEW w \in Sendings, Die(w)
    PROVE  Becomes(w, WriteOf("error", {}, job[w].broken, IF job[w].log = "done" THEN "done" ELSE "failed", {}))
  <1> DEFINE x == job[w]
             log == IF x.log = "done" THEN "done" ELSE "failed"
  <1>1. x \in Job /\ "error" \in Phase /\ log \in LogPhase /\ {} \in Lefts /\ {} \in Finds
    BY DEF JobsTyped, Phase, LogPhase, Lefts, Finds
  <1>2. PICK j : /\ j = [x EXCEPT !.pc = "error", !.left = {}, !.find = {}, !.entry = 0, !.log = log]
                 /\ job' = [job EXCEPT ![w] = j]
    BY DEF Die
  <1> HIDE DEF x, log
  <1>3. j \in Job /\ j.pc = "error" /\ j.left = {} /\ j.broken = x.broken /\ j.log = log /\ j.find = {}
    BY <1>1, <1>2 DEF Job
  <1>4. Becomes(w, WriteOf("error", {}, x.broken, log, {}))
    BY <1>2, <1>3, Become
  <1>5. QED
    BY <1>4 DEF x, log

(***************************************************************************)
(* The invariant of a write: but for the commands that are left, and for   *)
(* one that failed, what it puts is in the store; an answer that is good   *)
(* comes after all of it; and the invocation of each receipt is in the     *)
(* message, still looked for, or was found in the index.                   *)
(***************************************************************************)
Stored(w, c) ==
    IF c.to = "bucket" THEN w.id \in bucket
    ELSE [kind |-> c.to, task |-> c.task, message |-> w.id] \in index

Indexed(t) == \E i \in index : i.kind = "in" /\ i.task = t

StoreInv(w) ==
    /\ job[w].pc \in {"open", "ok"} /\ ~job[w].broken => \A c \in Commands(w) \ job[w].left : Stored(w, c)
    /\ job[w].pc = "ok" => ~job[w].broken /\ job[w].left = {} /\ job[w].log = "done"
    /\ job[w].left \subseteq Commands(w)

LogInv(w) ==
    /\ job[w].log \in {"find", "read", "done"} =>
         \A r \in w.out : r.task \in w.in \/ r.task \in job[w].find \/ Indexed(r.task)
    /\ job[w].log = "read" => Indexed(Min(job[w].find))
    /\ job[w].log = "done" => job[w].find = {} /\ RecordsOf(w) \subseteq ToSet(stream) \union rejected

IndexItem == [kind : {"in", "out"}, task : Task, message : Nat \ {0}]

MessageInv ==
    /\ index \subseteq IndexItem
    /\ \A w \in Sendings : StoreInv(w) /\ LogInv(w)

\* Nothing is taken from the store or the stream.
Grows ==
    /\ bucket \subseteq bucket' /\ index \subseteq index'
    /\ ToSet(stream) \subseteq ToSet(stream)' /\ rejected \subseteq rejected'

LEMMA RestKeeps ==
    ASSUME Grows, NEW w \in Sendings, job'[w] = job[w], StoreInv(w) /\ LogInv(w)
    PROVE  (StoreInv(w) /\ LogInv(w))'
  BY DEF Grows, StoreInv, LogInv, Stored, Indexed

LEMMA StepKeeps ==
    ASSUME MessageInv, Grows, NEW w \in Sendings, NEW j, Becomes(w, j),
           (index \subseteq IndexItem)', (StoreInv(w) /\ LogInv(w))'
    PROVE  MessageInv'
  BY RestKeeps DEF MessageInv, Becomes

\* The store and the stream as they were.
LEMMA SameGrows == ASSUME UNCHANGED <<store, stream, rejected>> PROVE Grows
  BY DEF Grows, store

LEMMA WriteKeeps ==
    ASSUME JobsTyped, MessageInv, NEW w \in Sendings, Write(w)
    PROVE  MessageInv'
  <1>1. Becomes(w, WriteOf("open", Commands(w), job[w].broken, "find", {r.task : r \in w.out} \ w.in))
    BY WriteMoves
  <1>2. UNCHANGED <<store, stream, rejected>>
    BY DEF Write
  <1>3. /\ job'[w].pc = "open" /\ job'[w].left = Commands(w) /\ job'[w].log = "find"
        /\ job'[w].find = {r.task : r \in w.out} \ w.in
    BY <1>1 DEF Becomes, WriteOf
  <1>4. StoreInv(w)' /\ LogInv(w)'
    BY <1>3 DEF StoreInv, LogInv
  <1>5. QED
    BY <1>1, <1>2, <1>4, SameGrows, StepKeeps DEF MessageInv, store

LEMMA PutKeeps ==
    ASSUME JobsTyped, MessageInv, NEW w \in Sendings, Put(w)
    PROVE  MessageInv'
  <1>1. PICK c \in job[w].left :
          /\ job' = [job EXCEPT ![w].left = @ \ {c}]
          /\ IF c.to = "bucket" THEN bucket' = bucket \union {w.id} /\ UNCHANGED index
             ELSE /\ index' = index \union {[kind |-> c.to, task |-> c.task, message |-> w.id]}
                  /\ UNCHANGED bucket
    BY DEF Put
  <1>2. Becomes(w, WriteOf(job[w].pc, job[w].left \ {c}, job[w].broken, job[w].log, job[w].find))
    BY <1>1, CommandMoves
  <1>3. c \in Command
    BY DEF JobsTyped, Job, Lefts
  <1>4. UNCHANGED <<stream, rejected>>
    BY DEF Put
  <1>5. Grows
    BY <1>1, <1>4 DEF Grows
  <1>6. (index \subseteq IndexItem)'
    <2>1. CASE c.to = "bucket"
      BY <1>1, <2>1 DEF MessageInv
    <2>2. CASE c.to # "bucket"
      <3>1. c.to \in {"in", "out"} /\ c.task \in Task
        BY <1>3, <2>2 DEF Command
      <3>2. [kind |-> c.to, task |-> c.task, message |-> w.id] \in IndexItem
        BY <3>1, AgentAssumption DEF IndexItem
      <3>3. QED
        BY <1>1, <2>2, <3>2 DEF MessageInv
    <2>3. QED
      BY <2>1, <2>2
  <1>7. /\ job'[w].pc = job[w].pc /\ job'[w].left = job[w].left \ {c} /\ job'[w].broken = job[w].broken
        /\ job'[w].log = job[w].log /\ job'[w].find = job[w].find
    BY <1>2 DEF Becomes, WriteOf
  <1>8. Stored(w, c)'
    BY <1>1 DEF Stored
  <1>9. \A d \in Commands(w) : Stored(w, d) => Stored(w, d)'
    BY <1>5 DEF Stored, Grows
  <1>10. StoreInv(w)'
    BY <1>7, <1>8, <1>9 DEF MessageInv, StoreInv
  <1>11. LogInv(w)'
    BY <1>5, <1>7 DEF MessageInv, LogInv, Grows, Indexed
  <1>12. QED
    BY <1>2, <1>5, <1>6, <1>10, <1>11, StepKeeps

LEMMA PutFailsKeeps ==
    ASSUME JobsTyped, MessageInv, NEW w \in Sendings, PutFails(w)
    PROVE  MessageInv'
  <1>1. PICK c \in job[w].left : job' = [job EXCEPT ![w].left = @ \ {c}, ![w].broken = TRUE]
    BY DEF PutFails
  <1>2. Becomes(w, WriteOf(job[w].pc, job[w].left \ {c}, TRUE, job[w].log, job[w].find))
    BY <1>1, CommandMoves
  <1>3. UNCHANGED <<store, stream, rejected>>
    BY DEF PutFails
  <1>4. /\ job'[w].pc = job[w].pc /\ job'[w].left = job[w].left \ {c} /\ job'[w].broken = TRUE
        /\ job'[w].log = job[w].log /\ job'[w].find = job[w].find
    BY <1>2 DEF Becomes, WriteOf
  <1>5. StoreInv(w)'
    BY <1>4 DEF MessageInv, StoreInv
  <1>6. LogInv(w)'
    BY <1>3, <1>4 DEF MessageInv, LogInv, Indexed, store
  <1>7. QED
    BY <1>2, <1>3, <1>5, <1>6, SameGrows, StepKeeps DEF MessageInv, store

(***************************************************************************)
(* What is looked for is found in the index when there is an item of it.   *)
(***************************************************************************)
LEMMA FirstIsThere ==
    ASSUME NEW items, items \subseteq IndexItem, NEW kind, NEW t
    PROVE  /\ FirstOf(items, kind, t) # 0 => \E i \in items : i.kind = kind /\ i.task = t
           /\ (\E i \in items : i.kind = kind /\ i.task = t) =>
                /\ FirstOf(items, kind, t) # 0
                /\ \E i \in items : i.kind = kind /\ i.task = t /\ i.message = FirstOf(items, kind, t)
           /\ FirstOf(items, kind, t) \in Nat
  <1> DEFINE found == {i \in items : i.kind = kind /\ i.task = t}
             messages == {i.message : i \in found}
  <1>1. FirstOf(items, kind, t) = IF found = {} THEN 0 ELSE Min(messages)
    BY DEF FirstOf
  <1>2. messages \subseteq Nat \ {0}
    BY DEF IndexItem
  <1>3. found # {} => Min(messages) \in messages
    <2>1. found # {} => messages # {}
      OBVIOUS
    <2> HIDE DEF messages, found
    <2>2. messages \in SUBSET Nat
      BY <1>2
    <2>3. QED
      BY <2>1, <2>2, MinIsThere
  <1>4. CASE found = {}
    BY <1>1, <1>4
  <1>5. CASE found # {}
    <2>1. FirstOf(items, kind, t) \in messages
      BY <1>1, <1>3, <1>5
    <2>2. PICK i \in found : i.message = FirstOf(items, kind, t)
      BY <2>1
    <2>3. FirstOf(items, kind, t) # 0 /\ FirstOf(items, kind, t) \in Nat
      BY <1>2, <2>1
    <2>4. QED
      BY <2>2, <2>3
  <1>6. QED
    BY <1>4, <1>5

LEMMA FirstIsIndexed ==
    ASSUME index \subseteq IndexItem, NEW kind, NEW t
    PROVE  /\ First(kind, t) # 0 => \E i \in index : i.kind = kind /\ i.task = t
           /\ (\E i \in index : i.kind = kind /\ i.task = t) =>
                /\ First(kind, t) # 0
                /\ \E i \in index : i.kind = kind /\ i.task = t /\ i.message = First(kind, t)
           /\ First(kind, t) \in Nat
  BY FirstIsThere DEF First

LEMMA LookUpKeeps ==
    ASSUME JobsTyped, MessageInv, NEW w \in Sendings,
           NEW items \in SUBSET index, LookUp(w, items)
    PROVE  MessageInv'
  <1> DEFINE entry == FirstOf(items, "in", Min(job[w].find))
             log == IF entry = 0 THEN "failed" ELSE "read"
  <1>1. job[w].log = "find" /\ job' = [job EXCEPT ![w].entry = entry, ![w].log = log]
        /\ UNCHANGED <<store, stream, rejected>>
    BY DEF LookUp
  <1>2. entry \in Nat /\ (entry # 0 => Indexed(Min(job[w].find)))
    BY FirstIsThere DEF MessageInv, Indexed
  <1>3. log \in LogPhase
    BY DEF LogPhase
  <1>4. Becomes(w, WriteOf(job[w].pc, job[w].left, job[w].broken, log, job[w].find))
    <2> job[w].find \in Finds
      BY DEF JobsTyped, Job
    <2> HIDE DEF entry, log
    <2>1. QED
      BY <1>1, <1>2, <1>3, LogMoves
  <1>5. /\ job'[w].pc = job[w].pc /\ job'[w].left = job[w].left /\ job'[w].broken = job[w].broken
        /\ job'[w].log = log /\ job'[w].find = job[w].find
    BY <1>4 DEF Becomes, WriteOf
  <1>6. StoreInv(w)'
    BY <1>1, <1>5 DEF MessageInv, StoreInv, Stored, store
  <1>7. LogInv(w)'
    <2>1. \A t : Indexed(t)' <=> Indexed(t)
      BY <1>1 DEF Indexed, store
    <2>2. job'[w].log = "read" => Indexed(Min(job[w].find))'
      <3>1. Min(job'[w].find) = Min(job[w].find)
        BY <1>5
      <3>2. job'[w].log = "read" => Indexed(Min(job[w].find))
        BY <1>2, <1>5
      <3>3. QED
        BY <1>1, <3>1, <3>2 DEF Indexed, store
    <2>3. \A r \in w.out : r.task \in w.in \/ r.task \in job'[w].find \/ Indexed(r.task)'
      BY <1>1, <1>5, <2>1 DEF MessageInv, LogInv
    <2>4. job'[w].log # "done"
      BY <1>5
    <2>5. QED
      BY <2>2, <2>3, <2>4 DEF LogInv
  <1>8. QED
    BY <1>1, <1>4, <1>6, <1>7, SameGrows, StepKeeps DEF MessageInv, store

LEMMA ReadMessageKeeps ==
    ASSUME JobsTyped, MessageInv, NEW w \in Sendings, ReadMessage(w)
    PROVE  MessageInv'
  <1> DEFINE log == IF job[w].entry \in bucket THEN "find" ELSE "failed"
             find == job[w].find \ {Min(job[w].find)}
  <1>1. job[w].log = "read" /\ job' = [job EXCEPT ![w].entry = 0, ![w].log = log, ![w].find = find]
        /\ UNCHANGED <<store, stream, rejected>>
    BY DEF ReadMessage
  <1>2. log \in LogPhase /\ find \in Finds
    BY DEF LogPhase, JobsTyped, Job, Finds
  <1>3. Becomes(w, WriteOf(job[w].pc, job[w].left, job[w].broken, log, find))
    <2> HIDE DEF log, find
    <2>1. QED
      BY <1>1, <1>2, LogMoves
  <1>4. /\ job'[w].pc = job[w].pc /\ job'[w].left = job[w].left /\ job'[w].broken = job[w].broken
        /\ job'[w].log = log /\ job'[w].find = find
    BY <1>3 DEF Becomes, WriteOf
  <1>5. StoreInv(w)'
    BY <1>1, <1>4 DEF MessageInv, StoreInv, Stored, store
  <1>6. LogInv(w)'
    <2>1. \A t : Indexed(t)' <=> Indexed(t)
      BY <1>1 DEF Indexed, store
    <2>2. Indexed(Min(job[w].find)) /\ \A r \in w.out : r.task \in w.in \/ r.task \in job[w].find \/ Indexed(r.task)
      BY <1>1 DEF MessageInv, LogInv
    <2>3. \A r \in w.out : r.task \in w.in \/ r.task \in job'[w].find \/ Indexed(r.task)'
      BY <1>4, <2>1, <2>2
    <2>4. job'[w].log \notin {"read", "done"}
      BY <1>4
    <2>5. QED
      BY <2>3, <2>4 DEF LogInv
  <1>7. QED
    BY <1>1, <1>3, <1>5, <1>6, SameGrows, StepKeeps DEF MessageInv, store

(***************************************************************************)
(* The records of a message are few, and one after the other on the        *)
(* stream, all of them.                                                    *)
(***************************************************************************)
LEMMA RecordsFinite == ASSUME NEW w \in Sendings PROVE IsFiniteSet(RecordsOf(w)) /\ RecordsOf(w) \subseteq Record
  <1> DEFINE workflow(t) == [type |-> "workflow", task |-> t, ok |-> FALSE, message |-> w.id, ts |-> w.nth]
             receipt(r) == [type |-> "receipt", task |-> r.task, ok |-> r.ok, message |-> w.id, ts |-> w.nth]
             workflows == {workflow(t) : t \in w.in}
             receipts == {receipt(r) : r \in w.out}
             f == [t \in w.in |-> workflow(t)]
             g == [r \in w.out |-> receipt(r)]
  <1>1. IsFiniteSet(w.in) /\ IsFiniteSet(w.out)
    BY AgentAssumption
  <1>2. Entries(w) = workflows \union receipts
    BY DEF Entries
  <1> HIDE DEF workflow, receipt
  <1>3. f \in Surjection(w.in, workflows) /\ g \in Surjection(w.out, receipts)
    BY DEF Surjection
  <1> HIDE DEF workflows, receipts, f, g
  <1>4. IsFiniteSet(workflows) /\ IsFiniteSet(receipts)
    BY <1>1, <1>3, FS_Surjection
  <1>5. IsFiniteSet(Entries(w)) /\ RecordsOf(w) \subseteq Entries(w)
    BY <1>2, <1>4, FS_Union DEF RecordsOf
  <1>6. QED
    BY <1>5, FS_Subset DEF Record

LEMMA SeqsAreAll ==
    ASSUME NEW S, IsFiniteSet(S), NEW s \in SetToSeqs(S)
    PROVE  s \in Seq(S) /\ ToSet(s) = S
  <1> DEFINE n == Cardinality(S)
             taken == {s[i] : i \in 1..n}
  <1>1. n \in Nat
    BY FS_CardinalityType
  <1>2. s \in [1..n -> S] /\ \A i, j \in 1..n : i # j => s[i] # s[j]
    BY DEF SetToSeqs
  <1>3. s \in Seq(S) /\ DOMAIN s = 1..n
    BY <1>1, <1>2
  <1>4. ExistsBijection(1..n, taken)
    <2>1. s \in Bijection(1..n, taken)
      BY <1>2 DEF Bijection, Injection, Surjection, IsInjective
    <2>2. QED
      BY <2>1 DEF ExistsBijection
  <1>5. IsFiniteSet(taken) /\ Cardinality(taken) = n
    <2>1. IsFiniteSet(1..n)
      BY <1>1, FS_Interval
    <2> HIDE DEF taken, n
    <2>2. Cardinality(taken) = n
      BY <1>1, <1>4, FS_CountingElements
    <2>3. QED
      BY <1>4, <2>1, <2>2, FS_Bijection
  <1>6. taken \subseteq S
    BY <1>2
  <1>7. taken = S
    <2> HIDE DEF taken
    <2>1. QED
      BY <1>5, <1>6, FS_Subset
  <1>8. QED
    BY <1>3, <1>7 DEF ToSet

StreamTyped == stream \in Seq(Record)

LEMMA Appended ==
    ASSUME NEW S, NEW s \in Seq(S), NEW t \in Seq(S)
    PROVE  /\ s \o t \in Seq(S) /\ Len(s \o t) = Len(s) + Len(t)
           /\ ToSet(s \o t) = ToSet(s) \union ToSet(t)
           /\ \A i \in 1..Len(s) : (s \o t)[i] = s[i]
  <1>1. s \o t \in Seq(S) /\ Len(s \o t) = Len(s) + Len(t) /\ Len(s) \in Nat /\ Len(t) \in Nat
    OBVIOUS
  <1>2. \A i \in 1..Len(s) : (s \o t)[i] = s[i]
    OBVIOUS
  <1>3. \A i \in 1..Len(t) : (s \o t)[Len(s) + i] = t[i]
    OBVIOUS
  <1>4. ToSet(s \o t) \subseteq ToSet(s) \union ToSet(t)
    <2> SUFFICES ASSUME NEW i \in 1..(Len(s) + Len(t)) PROVE (s \o t)[i] \in ToSet(s) \union ToSet(t)
      BY <1>1 DEF ToSet
    <2>1. CASE i <= Len(s)
      BY <1>1, <1>2, <2>1 DEF ToSet
    <2>2. CASE i > Len(s)
      <3>1. i - Len(s) \in 1..Len(t) /\ i = Len(s) + (i - Len(s))
        BY <1>1, <2>2
      <3>2. (s \o t)[i] = t[i - Len(s)]
        BY <1>3, <3>1
      <3>3. QED
        BY <3>1, <3>2 DEF ToSet
    <2>3. QED
      BY <1>1, <2>1, <2>2
  <1>5. ToSet(s) \subseteq ToSet(s \o t)
    BY <1>1, <1>2 DEF ToSet
  <1>6. ToSet(t) \subseteq ToSet(s \o t)
    <2> SUFFICES ASSUME NEW i \in 1..Len(t) PROVE t[i] \in ToSet(s \o t)
      BY DEF ToSet
    <2>1. Len(s) + i \in DOMAIN (s \o t)
      BY <1>1
    <2>2. QED
      BY <1>3, <2>1 DEF ToSet
  <1>7. QED
    BY <1>1, <1>2, <1>4, <1>5, <1>6

\* A step puts records on the stream, if any.
Extends == \E s \in Seq(Record) : stream' = stream \o s

LEMMA LoggedExtends ==
    ASSUME StreamTyped, NEW w \in Sendings, NEW lost \in SUBSET RecordsOf(w), Logged(w, lost)
    PROVE  /\ Extends
           /\ ToSet(stream') = ToSet(stream) \union (RecordsOf(w) \ lost)
  <1>1. PICK s \in SetToSeqs(RecordsOf(w) \ lost) : stream' = stream \o s
    BY DEF Logged
  <1>2. IsFiniteSet(RecordsOf(w) \ lost) /\ (RecordsOf(w) \ lost) \subseteq Record
    BY RecordsFinite, FS_Subset
  <1>3. s \in Seq(RecordsOf(w) \ lost) /\ ToSet(s) = RecordsOf(w) \ lost
    BY <1>2, SeqsAreAll
  <1>4. s \in Seq(Record)
    BY <1>2, <1>3
  <1>5. ToSet(stream \o s) = ToSet(stream) \union ToSet(s)
    <2>1. stream \in Seq(Record)
      BY DEF StreamTyped
    <2>2. QED
      BY <1>4, <2>1, Appended, Zenon
  <1>6. QED
    BY <1>1, <1>3, <1>4, <1>5 DEF Extends

LEMMA LoggedKeeps ==
    ASSUME JobsTyped, StreamTyped, MessageInv, NEW w \in Sendings, NEW lost \in SUBSET RecordsOf(w),
           Logging(w), Logged(w, lost)
    PROVE  MessageInv'
  <1>1. /\ job[w].log = "find" /\ job[w].find = {} /\ job' = [job EXCEPT ![w].log = "done"]
        /\ UNCHANGED store /\ rejected' = rejected \union lost
    BY DEF Logging, Logged
  <1>2. Becomes(w, WriteOf(job[w].pc, job[w].left, job[w].broken, "done", job[w].find))
    <2> "done" \in LogPhase /\ 0 \in Nat /\ job[w].find \in Finds
      BY DEF LogPhase, JobsTyped, Job
    <2>1. QED
      BY <1>1, LogMoves
  <1>3. /\ job'[w].pc = job[w].pc /\ job'[w].left = job[w].left /\ job'[w].broken = job[w].broken
        /\ job'[w].log = "done" /\ job'[w].find = {}
    BY <1>1, <1>2 DEF Becomes, WriteOf
  <1>4. ToSet(stream') = ToSet(stream) \union (RecordsOf(w) \ lost)
    BY LoggedExtends
  <1>5. Grows
    BY <1>1, <1>4 DEF Grows, store
  <1>6. StoreInv(w)'
    BY <1>1, <1>3 DEF MessageInv, StoreInv, Stored, store
  <1>7. LogInv(w)'
    <2>1. \A r \in w.out : r.task \in w.in \/ Indexed(r.task)'
      BY <1>1 DEF MessageInv, LogInv, Indexed, store
    <2>2. RecordsOf(w) \subseteq ToSet(stream') \union rejected'
      BY <1>1, <1>4
    <2>3. QED
      BY <1>3, <2>1, <2>2 DEF LogInv
  <1>8. QED
    BY <1>1, <1>2, <1>5, <1>6, <1>7, StepKeeps DEF MessageInv, store

LEMMA EndKeeps ==
    ASSUME JobsTyped, MessageInv, NEW w \in Sendings, PutRecordsFails(w) \/ AnswerWrite(w) \/ Die(w)
    PROVE  MessageInv'
  <1>1. UNCHANGED <<store, stream, rejected>>
    BY DEF PutRecordsFails, AnswerWrite, Die
  <1>2. CASE PutRecordsFails(w)
    <2>1. Becomes(w, WriteOf(job[w].pc, job[w].left, job[w].broken, "failed", job[w].find))
      <3> "failed" \in LogPhase /\ 0 \in Nat /\ job[w].find \in Finds
        BY DEF LogPhase, JobsTyped, Job
      <3>1. QED
        BY <1>2, LogMoves DEF PutRecordsFails
    <2>2. /\ job'[w].pc = job[w].pc /\ job'[w].left = job[w].left /\ job'[w].broken = job[w].broken
          /\ job'[w].log = "failed" /\ job[w].log = "find"
      BY <1>2, <2>1 DEF Becomes, WriteOf, PutRecordsFails, Logging
    <2>3. StoreInv(w)' /\ LogInv(w)'
      BY <1>1, <2>2 DEF MessageInv, StoreInv, LogInv, Stored, store
    <2>4. QED
      BY <1>1, <2>1, <2>3, SameGrows, StepKeeps DEF MessageInv, store
  <1>3. CASE AnswerWrite(w)
    <2>1. PICK pc \in {"ok", "error"} :
            /\ Becomes(w, WriteOf(pc, job[w].left, job[w].broken, job[w].log, job[w].find))
            /\ pc = "ok" => ~job[w].broken /\ job[w].left = {} /\ job[w].log = "done"
      BY <1>3, AnswerMoves
    <2>2. /\ job'[w].pc = pc /\ job'[w].left = job[w].left /\ job'[w].broken = job[w].broken
          /\ job'[w].log = job[w].log /\ job'[w].find = job[w].find /\ job[w].pc = "open"
      BY <1>3, <2>1 DEF Becomes, WriteOf, AnswerWrite
    <2>3. StoreInv(w)'
      BY <1>1, <2>1, <2>2 DEF MessageInv, StoreInv, Stored, store
    <2>4. LogInv(w)'
      BY <1>1, <2>2 DEF MessageInv, LogInv, Indexed, store
    <2>5. QED
      BY <1>1, <2>1, <2>3, <2>4, SameGrows, StepKeeps DEF MessageInv, store
  <1>4. CASE Die(w)
    <2>1. Becomes(w, WriteOf("error", {}, job[w].broken, IF job[w].log = "done" THEN "done" ELSE "failed", {}))
      BY <1>4, DieMoves
    <2>2. /\ job'[w].pc = "error" /\ job'[w].left = {} /\ job'[w].find = {}
          /\ job'[w].log = IF job[w].log = "done" THEN "done" ELSE "failed"
      BY <2>1 DEF Becomes, WriteOf
    <2>3. StoreInv(w)'
      BY <2>2 DEF StoreInv
    <2>4. LogInv(w)'
      BY <1>1, <2>2 DEF MessageInv, LogInv, Indexed, store
    <2>5. QED
      BY <1>1, <2>1, <2>3, <2>4, SameGrows, StepKeeps DEF MessageInv, store
  <1>5. QED
    BY <1>2, <1>3, <1>4

(***************************************************************************)
(* The steps by kind: those of a write, and those of the consumers.        *)
(***************************************************************************)
ConsumersNext ==
    /\ TakeMetrics \/ CountAccepts \/ EndMetrics \/ OfferNotFound \/ MetricsFails
       \/ (\E items : OffersFrom(items) /\ (UNCHANGED faults \/ Fault))
       \/ PutDiffs \/ BillingFails
    /\ UNCHANGED <<store, stream, job, rejected>>

WriteNext(w) ==
    \/ Write(w) \/ Put(w) \/ PutFails(w) \/ ReadMessage(w)
    \/ \E items \in SUBSET index : LookUp(w, items)
    \/ PutRecordsFails(w) \/ AnswerWrite(w) \/ Die(w)
    \/ \E lost \in SUBSET RecordsOf(w) : Logging(w) /\ Logged(w, lost)

LEMMA NextSplit == Next => ConsumersNext \/ \E w \in Sendings : WriteNext(w)
  <1> SUFFICES ASSUME Next PROVE ConsumersNext \/ \E w \in Sendings : WriteNext(w)
    OBVIOUS
  <1>1. ASSUME NEW w \in Sendings, PutRecords(w) \/ RecordsRejected(w) \/ Resolve(w) \/ ResolveLate(w)
        PROVE  WriteNext(w)
    BY <1>1 DEF WriteNext, PutRecords, RecordsRejected, Resolve, ResolveLate
  <1>2. CASE TakeMetrics \/ CountAccepts \/ EndMetrics \/ OfferNotFound \/ MetricsFails
    BY <1>2 DEF ConsumersNext, TakeMetrics, CountAccepts, EndMetrics, OfferNotFound, MetricsFails
  <1>3. CASE PutDiffs \/ BillingFails
    BY <1>3 DEF ConsumersNext, PutDiffs, BillingFails
  <1>4. CASE CountOffers \/ CountOffersLate
    BY <1>4 DEF ConsumersNext, CountOffers, CountOffersLate, OffersFrom
  <1>5. QED
    BY <1>1, <1>2, <1>3, <1>4 DEF Next, Progress, Metrics, WriteNext

LEMMA StreamKept ==
    ASSUME StreamTyped, [Next]_vars
    PROVE  Extends
  <1>1. ASSUME NEW w \in Sendings, NEW lost \in SUBSET RecordsOf(w), Logged(w, lost) PROVE Extends
    BY <1>1, LoggedExtends
  <1>2. CASE UNCHANGED stream
    <2>1. <<>> \in Seq(Record) /\ stream \o <<>> = stream
      BY DEF StreamTyped
    <2>2. QED
      BY <1>2, <2>1 DEF Extends
  <1>3. ASSUME NEW w \in Sendings, WriteNext(w) PROVE Extends
    BY <1>1, <1>2, <1>3 DEF WriteNext, Write, Put, PutFails, LookUp, ReadMessage, PutRecordsFails, AnswerWrite, Die
  <1>4. QED
    BY <1>2, <1>3, NextSplit DEF ConsumersNext, vars

LEMMA ExtendsTyped == ASSUME StreamTyped, Extends PROVE StreamTyped'
  BY DEF StreamTyped, Extends

LEMMA JobsKept ==
    ASSUME JobsTyped, index \subseteq IndexItem, [Next]_vars
    PROVE  JobsTyped'
  <1>1. ASSUME NEW w \in Sendings, WriteNext(w) PROVE JobsTyped'
    <2>1. Write(w) \/ AnswerWrite(w) \/ Die(w) => JobsTyped'
      BY WriteMoves, AnswerMoves, DieMoves DEF Becomes
    <2>2. Put(w) \/ PutFails(w) => JobsTyped'
      BY CommandMoves DEF Put, PutFails, Becomes
    <2>3. job[w].find \in Finds /\ {"failed", "done", "read", "find"} \subseteq LogPhase /\ 0 \in Nat
          /\ job[w].find \ {Min(job[w].find)} \in Finds
      BY DEF JobsTyped, Job, LogPhase, Finds
    <2>4. PutRecordsFails(w) => JobsTyped'
      BY <2>3, LogMoves DEF PutRecordsFails, Becomes
    <2>5. ASSUME NEW lost \in SUBSET RecordsOf(w), Logged(w, lost) PROVE JobsTyped'
      BY <2>3, <2>5, LogMoves DEF Logged, Becomes
    <2>6. ASSUME NEW items \in SUBSET index, LookUp(w, items) PROVE JobsTyped'
      <3> DEFINE entry == FirstOf(items, "in", Min(job[w].find))
                 log == IF entry = 0 THEN "failed" ELSE "read"
      <3>1. job' = [job EXCEPT ![w].entry = entry, ![w].log = log]
        BY <2>6 DEF LookUp
      <3>2. log \in LogPhase /\ entry \in Nat
        BY <2>3, FirstIsThere
      <3> HIDE DEF entry, log
      <3>3. QED
        BY <2>3, <3>1, <3>2, LogMoves DEF Becomes
    <2>7. ASSUME ReadMessage(w) PROVE JobsTyped'
      <3> DEFINE log == IF job[w].entry \in bucket THEN "find" ELSE "failed"
                 find == job[w].find \ {Min(job[w].find)}
      <3>1. job' = [job EXCEPT ![w].entry = 0, ![w].log = log, ![w].find = find]
        BY <2>7 DEF ReadMessage
      <3>2. log \in LogPhase /\ find \in Finds
        BY <2>3
      <3> HIDE DEF find, log
      <3>3. QED
        BY <2>3, <3>1, <3>2, LogMoves DEF Becomes
    <2>8. QED
      BY <1>1, <2>1, <2>2, <2>4, <2>5, <2>6, <2>7 DEF WriteNext
  <1>2. QED
    BY <1>1, NextSplit DEF ConsumersNext, vars, JobsTyped

(***************************************************************************)
(* An answered write is in the bucket and the index, so that each of its   *)
(* tasks has an item there; the first of them is of a message that is in   *)
(* the bucket, or was never answered. And its records are on the stream.   *)
(***************************************************************************)
WritesInv == JobsTyped /\ StreamTyped /\ MessageInv

LEMMA WritesBegin == Init => WritesInv
  <1> SUFFICES ASSUME Init PROVE WritesInv
    OBVIOUS
  <1>1. JobsTyped
    BY DEF Init, JobsTyped, Job, Phase, LogPhase, Lefts, Finds
  <1>2. StreamTyped /\ MessageInv
    BY DEF Init, StreamTyped, MessageInv, StoreInv, LogInv
  <1>3. QED
    BY <1>1, <1>2 DEF WritesInv

LEMMA WritesKept == WritesInv /\ [Next]_vars => WritesInv'
  <1> SUFFICES ASSUME WritesInv, [Next]_vars PROVE WritesInv'
    OBVIOUS
  <1> USE DEF WritesInv
  <1>1. JobsTyped' /\ StreamTyped'
    BY JobsKept, StreamKept, ExtendsTyped DEF MessageInv
  <1>2. ASSUME NEW w \in Sendings, WriteNext(w) PROVE MessageInv'
    BY <1>2, WriteKeeps, PutKeeps, PutFailsKeeps, LookUpKeeps, ReadMessageKeeps, LoggedKeeps, EndKeeps DEF WriteNext
  <1>3. CASE UNCHANGED <<store, stream, job, rejected>>
    <2>1. Grows /\ \A w \in Sendings : job'[w] = job[w]
      BY <1>3, SameGrows
    <2>2. ASSUME NEW w \in Sendings PROVE StoreInv(w)' /\ LogInv(w)'
      BY <2>1, RestKeeps DEF MessageInv
    <2>3. (index \subseteq IndexItem)'
      BY <1>3 DEF MessageInv, store
    <2>4. QED
      BY <1>1, <2>2, <2>3 DEF MessageInv
  <1>4. QED
    BY <1>1, <1>2, <1>3, NextSplit DEF ConsumersNext, vars

LEMMA AnsweredIsStored ==
    ASSUME WritesInv, NEW w \in Sendings, job[w].pc = "ok"
    PROVE  /\ w.id \in bucket
           /\ \A t \in w.in : [kind |-> "in", task |-> t, message |-> w.id] \in index
           /\ \A r \in w.out : [kind |-> "out", task |-> r.task, message |-> w.id] \in index
           /\ RecordsOf(w) \subseteq ToSet(stream) \union rejected
           /\ \A r \in w.out : r.task \in w.in \/ Indexed(r.task)
  <1>1. /\ \A c \in Commands(w) : Stored(w, c)
        /\ job[w].log = "done"
    BY DEF WritesInv, MessageInv, StoreInv
  <1>2. w.id \in bucket
    <2>1. [to |-> "bucket", task |-> 0] \in Commands(w)
      BY DEF Commands
    <2>2. QED
      BY <1>1, <2>1 DEF Stored
  <1>3. ASSUME NEW t \in w.in PROVE [kind |-> "in", task |-> t, message |-> w.id] \in index
    <2>1. [to |-> "in", task |-> t] \in Commands(w)
      BY DEF Commands
    <2>2. QED
      BY <1>1, <2>1 DEF Stored
  <1>4. ASSUME NEW r \in w.out PROVE [kind |-> "out", task |-> r.task, message |-> w.id] \in index
    <2>1. [to |-> "out", task |-> r.task] \in Commands(w)
      BY DEF Commands
    <2>2. QED
      BY <1>1, <2>1 DEF Stored
  <1>5. RecordsOf(w) \subseteq ToSet(stream) \union rejected /\ \A r \in w.out : r.task \in w.in \/ Indexed(r.task)
    BY <1>1 DEF WritesInv, MessageInv, LogInv
  <1>6. QED
    BY <1>2, <1>3, <1>4, <1>5

LEMMA FoundIsReadable ==
    ASSUME WritesInv, NEW kind, NEW t, NEW m, [kind |-> kind, task |-> t, message |-> m] \in index
    PROVE  Readable(kind, t) \/ Torn(First(kind, t))
  <1>1. First(kind, t) # 0
    BY FirstIsIndexed DEF WritesInv, MessageInv
  <1>2. Answered(First(kind, t)) => First(kind, t) \in bucket
    BY AnsweredIsStored DEF Answered
  <1>3. QED
    BY <1>1, <1>2 DEF Readable, Torn

(***************************************************************************)
(* What was answered can be read, by any task, the receipt of a task after *)
(* its invocation: the message that is found first for either is in the    *)
(* bucket, or its write never came to its answer.                          *)
(***************************************************************************)
THEOREM AnsweredCanBeRead == Spec => []AnsweredIsReadable
  <1>1. WritesInv => AnsweredIsReadable
    <2> SUFFICES ASSUME WritesInv, NEW w \in Sendings, job[w].pc = "ok"
                 PROVE  /\ \A t \in w.in : Readable("in", t) \/ Torn(First("in", t))
                        /\ \A r \in w.out :
                             \/ ReceiptReadable(r.task)
                             \/ Torn(First("in", r.task)) \/ Torn(First("out", r.task))
      BY DEF AnsweredIsReadable
    <2>1. \A t \in w.in : Readable("in", t) \/ Torn(First("in", t))
      BY AnsweredIsStored, FoundIsReadable
    <2>2. ASSUME NEW r \in w.out
          PROVE  ReceiptReadable(r.task) \/ Torn(First("in", r.task)) \/ Torn(First("out", r.task))
      <3>1. Readable("out", r.task) \/ Torn(First("out", r.task))
        BY AnsweredIsStored, FoundIsReadable
      <3>2. CASE r.task \in w.in
        BY <2>1, <3>1, <3>2 DEF ReceiptReadable
      <3>3. CASE Indexed(r.task)
        <4>1. PICK i \in index : i.kind = "in" /\ i.task = r.task
          BY <3>3 DEF Indexed
        <4>2. i = [kind |-> "in", task |-> r.task, message |-> i.message]
          BY <4>1 DEF WritesInv, MessageInv, IndexItem
        <4>3. Readable("in", r.task) \/ Torn(First("in", r.task))
          BY <4>1, <4>2, FoundIsReadable
        <4>4. QED
          BY <3>1, <4>3 DEF ReceiptReadable
      <3>4. QED
        BY <3>2, <3>3, AnsweredIsStored
    <2>3. QED
      BY <2>1, <2>2
  <1>2. QED
    BY <1>1, WritesBegin, WritesKept, PTL DEF Spec

(***************************************************************************)
(* What was answered is on the stream, was rejected there by name or is    *)
(* over the size of a record, and the invocation of each of its receipts   *)
(* is in the index, for any sizes.                                         *)
(***************************************************************************)
THEOREM AnsweredIsLogged == Spec => []AnsweredIsOnStream
  <1>1. WritesInv => AnsweredIsOnStream
    <2> SUFFICES ASSUME WritesInv, NEW w \in Sendings, job[w].pc = "ok"
                 PROVE  /\ \A x \in Entries(w) : x \in ToSet(stream) \/ x \in rejected \/ TooLarge(x)
                        /\ \A r \in w.out : r.task \in w.in \/ First("in", r.task) # 0
      BY DEF AnsweredIsOnStream
    <2>1. \A t : Indexed(t) => First("in", t) # 0
      BY FirstIsIndexed DEF WritesInv, MessageInv, Indexed
    <2>2. RecordsOf(w) \subseteq ToSet(stream) \union rejected
      BY AnsweredIsStored
    <2>3. \A x \in Entries(w) : x \in ToSet(stream) \/ x \in rejected \/ TooLarge(x)
      BY <2>2 DEF RecordsOf
    <2>4. QED
      BY <2>1, <2>3, AnsweredIsStored
  <1>2. QED
    BY <1>1, WritesBegin, WritesKept, PTL DEF Spec

(***************************************************************************)
(* Billing. What was passed has its diffs in the table, and the table has  *)
(* diffs of nothing but the stream; the key of a diff tells receipts apart.*)
(***************************************************************************)
BillInv ==
    /\ billed \in Nat /\ billed <= Len(stream)
    /\ DiffsOf(Upto(billed)) \subseteq diffs
    /\ diffs \subseteq DiffsOf(ToSet(stream))

LEMMA DiffsGrow ==
    ASSUME NEW S, NEW T, S \subseteq T
    PROVE  /\ DiffsOf(S) \subseteq DiffsOf(T)
           /\ OkReceipts(S, "store") \subseteq OkReceipts(T, "store")
  BY DEF DiffsOf, OkReceipts

LEMMA UptoKept ==
    ASSUME StreamTyped, Extends, NEW n \in Nat, n <= Len(stream)
    PROVE  /\ Upto(n)' = Upto(n) /\ n <= Len(stream') /\ ToSet(stream) \subseteq ToSet(stream')
  <1>1. PICK s \in Seq(Record) : stream' = stream \o s
    BY DEF Extends
  <1>2. /\ Len(stream') = Len(stream) + Len(s) /\ Len(s) \in Nat /\ Len(stream) \in Nat
        /\ \A i \in 1..Len(stream) : stream'[i] = stream[i]
    BY <1>1 DEF StreamTyped
  <1>3. \A i \in 1..n : i \in 1..Len(stream)
    BY <1>2
  <1>4. Upto(n)' = Upto(n)
    BY <1>2, <1>3 DEF Upto
  <1>5. n <= Len(stream')
    BY <1>2
  <1>6. ToSet(stream) \subseteq ToSet(stream')
    BY <1>1, Appended DEF StreamTyped
  <1>7. QED
    BY <1>4, <1>5, <1>6

\* A batch of the billing consumer: so many records, and no more, next in the stream.
LEMMA BatchTyped ==
    ASSUME StreamTyped, BillInv, NEW batch \in BillingBatch
    PROVE  \E e \in Nat : /\ billed < e /\ e <= Len(stream)
                          /\ Upto(e) = Upto(billed) \union batch
                          /\ batch \subseteq ToSet(stream)
                          /\ Cardinality(batch) \in Nat /\ billed + Cardinality(batch) <= e
  <1>1. PICK e \in billed + 1 .. Len(stream) : batch = {stream[i] : i \in billed + 1 .. e}
    BY DEF BillingBatch
  <1>2. billed \in Nat /\ e \in Nat /\ Len(stream) \in Nat /\ billed < e /\ e <= Len(stream) /\ DOMAIN stream = 1..Len(stream)
    BY <1>1 DEF BillInv, StreamTyped
  <1>3. Upto(e) = Upto(billed) \union batch
    <2>1. 1..e = (1..billed) \union (billed + 1 .. e)
      BY <1>2
    <2>2. QED
      BY <1>1, <2>1 DEF Upto
  <1>4. batch \subseteq ToSet(stream)
    BY <1>1, <1>2 DEF ToSet
  <1>5. Cardinality(batch) \in Nat /\ Cardinality(batch) <= e - billed
    <2> DEFINE places == billed + 1 .. e
               f == [i \in places |-> stream[i]]
    <2>1. IsFiniteSet(places) /\ Cardinality(places) = e - billed
      <3>1. billed + 1 \in Int /\ e \in Int /\ ~(billed + 1 > e) /\ e - (billed + 1) + 1 = e - billed
        BY <1>2
      <3>2. QED
        BY <3>1, FS_Interval
    <2>2. f \in Surjection(places, batch)
      BY <1>1 DEF Surjection
    <2> HIDE DEF places, f
    <2>3. IsFiniteSet(batch) /\ Cardinality(batch) <= Cardinality(places)
      BY <2>1, <2>2, FS_Surjection
    <2>4. QED
      BY <2>1, <2>3, FS_CardinalityType
  <1>6. QED
    BY <1>2, <1>3, <1>4, <1>5

LEMMA BillKept == StreamTyped /\ BillInv /\ [Next]_vars => BillInv'
  <1> SUFFICES ASSUME StreamTyped, BillInv, [Next]_vars PROVE BillInv'
    OBVIOUS
  <1>1. Extends
    BY StreamKept
  <1>2. CASE UNCHANGED <<billed, diffs>>
    <2>1. Upto(billed)' = Upto(billed) /\ billed <= Len(stream') /\ ToSet(stream) \subseteq ToSet(stream')
      <3>1. billed \in Nat /\ billed <= Len(stream)
        BY DEF BillInv
      <3>2. \A n \in Nat : n <= Len(stream) => {stream'[i] : i \in 1..n} = Upto(n)
        BY <1>1, UptoKept DEF Upto
      <3>3. QED
        BY <1>1, <1>2, <3>1, <3>2, UptoKept DEF Upto
    <2>2. DiffsOf(ToSet(stream)) \subseteq DiffsOf(ToSet(stream'))
      BY <2>1, DiffsGrow
    <2>3. QED
      BY <1>2, <2>1, <2>2 DEF BillInv
  <1>3. CASE PutDiffs
    <2>1. PICK batch \in BillingBatch : /\ diffs' = diffs \union DiffsOf(batch)
                                        /\ billed' = billed + Cardinality(batch) /\ UNCHANGED stream
      BY <1>3 DEF PutDiffs
    <2>2. PICK e \in Nat : /\ e <= Len(stream) /\ Upto(e) = Upto(billed) \union batch /\ batch \subseteq ToSet(stream)
                           /\ Cardinality(batch) \in Nat /\ billed + Cardinality(batch) <= e
      BY BatchTyped
    <2>3. billed' \in Nat /\ billed' <= e /\ billed' <= Len(stream')
      BY <2>1, <2>2 DEF BillInv, StreamTyped
    <2>4. {stream'[i] : i \in 1..billed'} \subseteq Upto(e)
      BY <2>1, <2>2, <2>3 DEF Upto
    <2>5. DiffsOf(Upto(billed)') \subseteq DiffsOf(Upto(billed)) \union DiffsOf(batch)
      <3>1. Upto(billed)' \subseteq Upto(billed) \union batch
        BY <2>2, <2>4 DEF Upto
      <3>2. QED
        BY <3>1 DEF DiffsOf, OkReceipts
    <2>6. DiffsOf(batch) \subseteq DiffsOf(ToSet(stream))
      BY <2>2, DiffsGrow
    <2>7. QED
      BY <2>1, <2>3, <2>5, <2>6 DEF BillInv
  <1>4. CASE BillingFails
    <2>1. PICK batch \in BillingBatch : /\ diffs \subseteq diffs' /\ diffs' \subseteq diffs \union DiffsOf(batch)
                                        /\ billed' = billed /\ UNCHANGED stream
      BY <1>4 DEF BillingFails
    <2>2. batch \subseteq ToSet(stream)
      BY BatchTyped
    <2>3. DiffsOf(batch) \subseteq DiffsOf(ToSet(stream))
      BY <2>2, DiffsGrow
    <2>4. QED
      BY <2>1, <2>3 DEF BillInv, Upto
  <1>5. QED
    <2>1. ASSUME NEW w \in Sendings, WriteNext(w) PROVE UNCHANGED <<billed, diffs>>
      BY <2>1 DEF WriteNext, Write, Put, PutFails, LookUp, ReadMessage, PutRecordsFails, AnswerWrite, Die,
                  Logged, consumers
    <2>2. TakeMetrics \/ (\E items : OffersFrom(items)) \/ CountAccepts \/ EndMetrics \/ OfferNotFound \/ MetricsFails
            => UNCHANGED <<billed, diffs>>
      BY DEF TakeMetrics, OffersFrom, CountAccepts, EndMetrics, OfferNotFound, MetricsFails
    <2>3. QED
      BY <1>2, <1>3, <1>4, <2>1, <2>2, NextSplit DEF ConsumersNext, vars, consumers

(***************************************************************************)
(* Each receipt that was passed has its own diff with each provider, and   *)
(* there are no more diffs than receipts.                                  *)
(***************************************************************************)
THEOREM ReceiptsAreBilledOnce == Spec => []ReceiptsBilledOnce
  <1>1. Init => StreamTyped /\ BillInv
    BY DEF Init, StreamTyped, BillInv, DiffsOf, OkReceipts, Upto, ToSet
  <1>2. StreamTyped /\ BillInv /\ [Next]_vars => (StreamTyped /\ BillInv)'
    BY BillKept, StreamKept, ExtendsTyped
  <1>3. StreamTyped /\ BillInv => ReceiptsBilledOnce
    <2> SUFFICES ASSUME StreamTyped, BillInv, NEW p \in Provider
                 PROVE  LET passed == OkReceipts(Upto(billed), "store")
                            taken == OkReceipts(ToSet(stream), "store")
                            bill == Cardinality({d \in diffs : d.provider = p})
                        IN  Cardinality(passed) <= bill /\ bill <= Cardinality(taken)
      BY DEF ReceiptsBilledOnce
    <2> DEFINE passed == OkReceipts(Upto(billed), "store")
               taken == OkReceipts(ToSet(stream), "store")
               bill == {d \in diffs : d.provider = p}
               all == {Diff(r, p) : r \in taken}
               f == [r \in passed |-> Diff(r, p)]
               g == [r \in taken |-> Diff(r, p)]
    <2>1. DOMAIN stream = 1..Len(stream) /\ Len(stream) \in Nat /\ billed \in Nat /\ billed <= Len(stream)
          /\ \A i \in 1..Len(stream) : stream[i] \in Record
      BY DEF StreamTyped, BillInv
    <2>2. IsFiniteSet(taken)
      <3> DEFINE h == [i \in 1..Len(stream) |-> stream[i]]
      <3>1. h \in Surjection(1..Len(stream), ToSet(stream)) /\ IsFiniteSet(1..Len(stream))
        <4>1. 1 \in Int /\ Len(stream) \in Int
          BY <2>1
        <4>2. IsFiniteSet(1..Len(stream))
          BY <4>1, FS_Interval
        <4>3. h \in Surjection(1..Len(stream), ToSet(stream))
          BY <2>1 DEF Surjection, ToSet
        <4>4. QED
          BY <4>2, <4>3
      <3> HIDE DEF h
      <3>2. IsFiniteSet(ToSet(stream))
        BY <3>1, FS_Surjection
      <3>3. QED
        BY <3>2, FS_Subset DEF OkReceipts
    <2>3. bill \subseteq all
      BY DEF BillInv, DiffsOf, Diff
    <2>4. f \in Injection(passed, bill)
      <3>1. \A r \in passed : Diff(r, p) \in bill
        BY DEF BillInv, DiffsOf, Diff
      <3>2. \A r \in passed : r = [type |-> "receipt", task |-> r.task, ok |-> TRUE, message |-> r.message, ts |-> r.ts]
        <4>1. \A r \in passed : r \in Record /\ r.type = "receipt" /\ r.ok
          BY <2>1 DEF Upto, OkReceipts
        <4>2. \A r \in Record : r.ok => r.ok = TRUE
          BY AgentAssumption DEF Record, RecordsOf, Entries
        <4>3. \A r \in Record : r = [type |-> r.type, task |-> r.task, ok |-> r.ok, message |-> r.message, ts |-> r.ts]
          BY DEF Record, RecordsOf, Entries
        <4>4. QED
          BY <4>1, <4>2, <4>3
      <3>3. \A r, q \in passed : Diff(r, p) = Diff(q, p) => r = q
        <4>1. \A r, q \in passed : Diff(r, p) = Diff(q, p) => r.task = q.task /\ r.message = q.message /\ r.ts = q.ts
          BY DEF Diff
        <4> HIDE DEF passed
        <4>2. QED
          BY <3>2, <4>1
      <3> HIDE DEF passed, bill
      <3>4. QED
        BY <3>1, <3>3 DEF Injection, IsInjective
    <2>5. g \in Surjection(taken, all)
      BY DEF Surjection
    <2> HIDE DEF passed, taken, bill, all, f, g
    <2>6. IsFiniteSet(all) /\ Cardinality(all) <= Cardinality(taken)
      BY <2>2, <2>5, FS_Surjection
    <2>7. IsFiniteSet(bill) /\ Cardinality(bill) <= Cardinality(all)
      BY <2>3, <2>6, FS_Subset
    <2>8. IsFiniteSet(passed) /\ Cardinality(passed) <= Cardinality(bill)
      BY <2>4, <2>7, FS_Injection
    <2>9. QED
      BY <2>2, <2>6, <2>7, <2>8, FS_CardinalityType DEF passed, taken, bill
  <1>4. QED
    BY <1>1, <1>2, <1>3, PTL DEF Spec

(***************************************************************************)
(* The totals. A batch of the metrics consumer begins at a and ends at e.  *)
(***************************************************************************)
Batch(a, e) == {stream[i] : i \in a + 1 .. e}

LEMMA CoveredBySum ==
    ASSUME NEW S, NEW T, NEW U, IsFiniteSet(S), IsFiniteSet(T), U \subseteq S \union T
    PROVE  /\ IsFiniteSet(U) /\ Cardinality(U) \in Nat /\ Cardinality(S) \in Nat /\ Cardinality(T) \in Nat
           /\ Cardinality(U) <= Cardinality(S) + Cardinality(T)
  <1>1. IsFiniteSet(S \union T) /\ Cardinality(S \union T) = Cardinality(S) + Cardinality(T) - Cardinality(S \intersect T)
    BY FS_Union
  <1>2. IsFiniteSet(U) /\ Cardinality(U) <= Cardinality(S \union T)
    BY <1>1, FS_Subset
  <1>3. Cardinality(S) \in Nat /\ Cardinality(T) \in Nat /\ Cardinality(S \intersect T) \in Nat
        /\ Cardinality(U) \in Nat /\ Cardinality(S \union T) \in Nat
    <2>1. IsFiniteSet(S \intersect T)
      BY FS_Subset
    <2>2. QED
      BY <1>1, <1>2, <2>1, FS_CardinalityType
  <1>4. QED
    BY <1>1, <1>2, <1>3

LEMMA PlacesFinite ==
    ASSUME NEW k, NEW n \in Nat
    PROVE  IsFiniteSet(Places(k, n)) /\ Cardinality(Places(k, n)) \in Nat /\ Places(k, n) \subseteq 1..n
  <1>1. IsFiniteSet(1..n)
    BY FS_Interval
  <1>2. Places(k, n) \in SUBSET (1..n)
    BY DEF Places
  <1>3. QED
    BY <1>1, <1>2, FS_Subset, FS_CardinalityType

\* A batch has as many good receipts as there are places of them, or less.
LEMMA ReceiptsOfBatch ==
    ASSUME NEW k, NEW a \in Nat, NEW e \in Nat, a <= e
    PROVE  /\ IsFiniteSet(OkReceipts(Batch(a, e), k)) /\ Cardinality(OkReceipts(Batch(a, e), k)) \in Nat
           /\ Cardinality(Places(k, a)) + Cardinality(OkReceipts(Batch(a, e), k)) <= Cardinality(Places(k, e))
  <1> DEFINE here == Places(k, e) \ Places(k, a)
             good == OkReceipts(Batch(a, e), k)
             f == [i \in here |-> stream[i]]
  <1>1. IsFiniteSet(here) /\ Cardinality(here) = Cardinality(Places(k, e)) - Cardinality(Places(k, a))
    <2>1. Places(k, a) \subseteq Places(k, e)
      BY DEF Places
    <2>2. IsFiniteSet(Places(k, e)) /\ IsFiniteSet(Places(k, a))
      BY PlacesFinite
    <2>3. Places(k, e) \intersect Places(k, a) = Places(k, a)
      BY <2>1
    <2>4. QED
      BY <2>2, <2>3, FS_Difference
  <1>2. f \in Surjection(here, good)
    <2>1. \A i \in here : i \in a + 1 .. e /\ stream[i] \in good
      BY DEF Places, OkReceipts, Batch
    <2>2. \A r \in good : \E i \in here : stream[i] = r
      <3> SUFFICES ASSUME NEW r \in good PROVE \E i \in here : stream[i] = r
        OBVIOUS
      <3>1. PICK i \in a + 1 .. e : stream[i] = r
        BY DEF Batch, OkReceipts
      <3>2. r \in OkReceipts({stream[i]}, k)
        BY <3>1 DEF OkReceipts
      <3>3. i \in 1..e /\ i \notin 1..a
        BY <3>1
      <3>4. i \in here
        BY <3>2, <3>3 DEF Places
      <3>5. QED
        BY <3>1, <3>4
    <2> HIDE DEF here, good
    <2>3. QED
      BY <2>1, <2>2 DEF Surjection
  <1> HIDE DEF here, f
  <1>3. IsFiniteSet(good) /\ Cardinality(good) <= Cardinality(here)
    BY <1>1, <1>2, FS_Surjection
  <1>4. Cardinality(good) \in Nat
    BY <1>3, FS_CardinalityType
  <1>5. Cardinality(Places(k, a)) \in Nat /\ Cardinality(Places(k, e)) \in Nat
    BY PlacesFinite
  <1>6. QED
    BY <1>1, <1>3, <1>4, <1>5

\* And no more places than records; one less of accepts when an offer is there.
LEMMA PlacesOfBatch ==
    ASSUME NEW k, NEW a \in Nat, NEW e \in Nat, a <= e
    PROVE  /\ Cardinality(Places(k, a)) <= Cardinality(Places(k, e))
           /\ Cardinality(Places(k, e)) <= Cardinality(Places(k, a)) + (e - a)
           /\ (\E i \in a + 1 .. e : i \notin Places(k, e)) =>
                Cardinality(Places(k, e)) < Cardinality(Places(k, a)) + (e - a)
  <1>1. IsFiniteSet(a + 1 .. e) /\ Cardinality(a + 1 .. e) = e - a
    <2>1. a + 1 \in Int /\ e \in Int /\ (a + 1 > e => e - a = 0) /\ e - (a + 1) + 1 = e - a
      OBVIOUS
    <2>2. QED
      BY <2>1, FS_Interval
  <1>2. /\ IsFiniteSet(Places(k, a)) /\ IsFiniteSet(Places(k, e))
        /\ Cardinality(Places(k, a)) \in Nat /\ Cardinality(Places(k, e)) \in Nat
    BY PlacesFinite
  <1>3. Places(k, a) \subseteq Places(k, e) /\ Places(k, e) \subseteq Places(k, a) \union (a + 1 .. e)
    BY DEF Places
  <1>4. Cardinality(Places(k, a)) <= Cardinality(Places(k, e))
    BY <1>2, <1>3, FS_Subset
  <1>5. Cardinality(Places(k, e)) <= Cardinality(Places(k, a)) + (e - a)
    BY <1>1, <1>2, <1>3, CoveredBySum
  <1>6. ASSUME NEW i \in a + 1 .. e, i \notin Places(k, e)
        PROVE  Cardinality(Places(k, e)) < Cardinality(Places(k, a)) + (e - a)
    <2> DEFINE rest == (a + 1 .. e) \ {i}
    <2>1. IsFiniteSet(rest) /\ Cardinality(rest) = e - a - 1
      BY <1>1, FS_RemoveElement
    <2>2. Places(k, e) \subseteq Places(k, a) \union rest
      BY <1>3, <1>6
    <2> HIDE DEF rest
    <2>3. Cardinality(Places(k, e)) <= Cardinality(Places(k, a)) + Cardinality(rest)
      BY <1>2, <2>1, <2>2, CoveredBySum
    <2>4. QED
      BY <1>2, <2>1, <2>3
  <1>7. QED
    BY <1>4, <1>5, <1>6

\* Each message with an offer has one that stands for all.
LEMMA OffersOfBatch ==
    ASSUME StreamTyped, NEW a \in Nat, NEW e \in Nat, a <= e, e <= Len(stream)
    PROVE  LET good == OkReceipts(Batch(a, e), "offer")
               offers == Offers(Batch(a, e))
           IN  /\ offers \subseteq good /\ IsFiniteSet(offers) /\ Cardinality(offers) \in Nat
               /\ Cardinality(offers) <= Cardinality(good)
               /\ IsFiniteSet(MessagesOf(good)) /\ Cardinality(MessagesOf(good)) <= Cardinality(offers)
  <1> DEFINE good == OkReceipts(Batch(a, e), "offer")
             offers == Offers(Batch(a, e))
             f == [r \in offers |-> r.message]
  <1>1. offers \subseteq good /\ offers = {r \in good : \A q \in good : q.message = r.message => q.task <= r.task}
    BY DEF Offers
  <1>2. IsFiniteSet(good) /\ Cardinality(good) \in Nat
    BY ReceiptsOfBatch
  <1>3. \A r \in good : r.task \in Nat /\ \E i \in a + 1 .. e : stream[i] = r
    <2>1. \A i \in a + 1 .. e : stream[i] \in Record
      BY DEF StreamTyped
    <2>2. \A r \in Record : r.task \in Nat
      <3>1. ASSUME NEW w \in Sendings, NEW r \in Entries(w) PROVE r.task \in Nat
        BY AgentAssumption DEF Entries
      <3>2. QED
        BY <3>1 DEF Record, RecordsOf
    <2>3. QED
      BY <2>1, <2>2 DEF OkReceipts, Batch
  <1>4. IsFiniteSet(offers) /\ Cardinality(offers) <= Cardinality(good) /\ Cardinality(offers) \in Nat
    BY <1>1, <1>2, FS_Subset, FS_CardinalityType
  <1>5. \A m \in MessagesOf(good) : \E r \in offers : r.message = m
    <2> SUFFICES ASSUME NEW s \in good PROVE \E r \in offers : r.message = s.message
      BY DEF MessagesOf
    <2> DEFINE same == {r \in good : r.message = s.message}
               bounds == {b \in Nat : \A r \in same : r.task <= b}
    <2> HIDE DEF good, offers
    <2>1. PICK b \in Nat : \A r \in same : r.task <= b
      <3>1. PICK g : g \in Bijection(1..Cardinality(good), good)
        BY <1>2, FS_CardinalityType DEF ExistsBijection
      <3> DEFINE P == {n \in Nat : n <= Cardinality(good) =>
                         \E b \in Nat : \A i \in 1..n : g[i].task <= b}
      <3>2. \A i \in 1..Cardinality(good) : g[i] \in good /\ g[i].task \in Nat
        BY <1>3, <3>1 DEF Bijection, Injection
      <3>3. 0 \in P
        OBVIOUS
      <3>4. ASSUME NEW n \in Nat, n \in P PROVE n + 1 \in P
        <4> SUFFICES ASSUME n + 1 <= Cardinality(good)
                     PROVE  \E b \in Nat : \A i \in 1..(n + 1) : g[i].task <= b
          BY <3>4
        <4>0. n <= Cardinality(good)
          BY <1>2
        <4>1. PICK b \in Nat : \A i \in 1..n : g[i].task <= b
          BY <3>4, <4>0, Zenon
        <4>2. n + 1 \in 1..Cardinality(good) /\ 1..n \subseteq 1..Cardinality(good)
          BY <1>2
        <4>3. g[n + 1].task \in Nat /\ b + g[n + 1].task \in Nat
          BY <3>2, <4>2
        <4>4. \A i \in 1..(n + 1) : g[i].task <= b + g[n + 1].task
          <5> SUFFICES ASSUME NEW i \in 1..(n + 1) PROVE g[i].task <= b + g[n + 1].task
            OBVIOUS
          <5>1. CASE i = n + 1
            BY <4>3, <5>1
          <5>2. CASE i \in 1..n
            BY <3>2, <4>1, <4>2, <4>3, <5>2
          <5>3. QED
            BY <5>1, <5>2
        <4>5. QED
          BY <4>3, <4>4
      <3> HIDE DEF P
      <3>5. P \in SUBSET Nat
        BY DEF P
      <3>6. P = Nat
        BY <3>3, <3>4, <3>5, Induction
      <3>7. PICK b \in Nat : \A i \in 1..Cardinality(good) : g[i].task <= b
        <4>1. Cardinality(good) \in P /\ Cardinality(good) <= Cardinality(good)
          BY <1>2, <3>6
        <4>2. QED
          BY <4>1, Zenon DEF P
      <3>8. \A r \in good : \E i \in 1..Cardinality(good) : g[i] = r
        BY <3>1 DEF Bijection, Surjection
      <3>9. QED
        BY <3>7, <3>8
    <2>2. bounds \in SUBSET Nat /\ bounds # {}
      BY <2>1
    <2>3. PICK least \in bounds : \A n \in bounds : least <= n
      BY <2>2, LeastNatural
    <2>4. \E r \in same : r.task = least
      <3> SUFFICES ASSUME \A r \in same : r.task # least PROVE FALSE
        OBVIOUS
      <3>1. s \in same /\ s.task \in Nat /\ s.task <= least
        BY <1>3, <2>3
      <3>2. least # 0
        BY <3>1
      <3>3. least - 1 \in Nat /\ \A r \in same : r.task <= least - 1
        BY <1>3, <2>3, <3>2
      <3>4. least - 1 \in bounds
        BY <3>3
      <3>5. QED
        BY <2>3, <3>4
    <2>5. PICK r \in same : r.task = least
      BY <2>4
    <2>6. \A q \in good : q.message = r.message => q.task <= r.task
      BY <2>3, <2>5
    <2>7. QED
      BY <1>1, <2>5, <2>6
  <1>6. f \in Surjection(offers, MessagesOf(good))
    <2>1. \A r \in offers : r.message \in MessagesOf(good)
      BY <1>1 DEF MessagesOf
    <2> HIDE DEF good, offers
    <2>2. QED
      BY <1>5, <2>1 DEF Surjection
  <1> HIDE DEF good, offers, f
  <1>7. IsFiniteSet(MessagesOf(good)) /\ Cardinality(MessagesOf(good)) <= Cardinality(offers)
    BY <1>4, <1>6, FS_Surjection
  <1>8. QED
    BY <1>1, <1>4, <1>7 DEF good, offers

(***************************************************************************)
(* The invariant of the totals, of a batch from a to e with what is left   *)
(* of it. A part that is left counts up to a, one that is done up to e.    *)
(* What was repeated of accepts is paid for, once an offer is ahead, place *)
(* by place: at a place that was left behind by the most that batches of   *)
(* halving length can hold besides the offer, and at the one under way by  *)
(* what halving has used up of it.                                         *)
(***************************************************************************)
Counted(part, a, e, left) == IF part \in left THEN a ELSE e

OffersAre(n, total, f) ==
    /\ Cardinality(MessagesOf(OkReceipts(Upto(n), "offer"))) <= total
    /\ total <= Cardinality(Places("offer", n)) + BatchSize * f

AcceptsAre(n, total, f, k) ==
    /\ Cardinality(OkReceipts(Upto(n), "accept")) <= total
    /\ total <= Cardinality(Places("accept", n)) + BatchSize * f + k

Left(a) == {x \in 0..a - 1 : OfferAhead(x)}

Price == 2 * (BatchSize - 1)

Repeats(a, e) ==
    Price * Cardinality(Left(a))
      + (IF a < e /\ OfferAhead(a) THEN Price - 2 * (e - a - 1) ELSE 0)

AggOf(a, e, left, offers, accepts, f) ==
    /\ a \in Nat /\ e \in Nat /\ left \in SUBSET Steps
    /\ offers \in Nat /\ accepts \in Nat /\ f \in Nat
    /\ a <= e /\ e <= a + BatchSize /\ e <= Len(stream)
    /\ OffersAre(Counted("offer", a, e, left), offers, f)
    /\ AcceptsAre(Counted("accept", a, e, left), accepts, f, Repeats(a, e))

LEMMA RepeatsType ==
    ASSUME NEW a \in Nat, NEW e \in Nat, a <= e, e <= a + BatchSize
    PROVE  /\ Price \in Nat /\ Repeats(a, e) \in Nat
           /\ IsFiniteSet(Left(a)) /\ Cardinality(Left(a)) \in Nat
           /\ Price * Cardinality(Left(a)) \in Nat
  <1>1. BatchSize \in Nat \ {0} /\ Price \in Nat
    BY AgentAssumption DEF Price
  <1>2. IsFiniteSet(Left(a)) /\ Cardinality(Left(a)) \in Nat
    <2>1. 0 \in Int /\ a - 1 \in Int
      OBVIOUS
    <2>2. IsFiniteSet(0..a - 1)
      BY <2>1, FS_Interval
    <2>3. QED
      BY <2>2, FS_Subset, FS_CardinalityType DEF Left
  <1>3. Price * Cardinality(Left(a)) \in Nat
    BY <1>1, <1>2
  <1>4. a < e => Price - 2 * (e - a - 1) \in Nat
    BY <1>1 DEF Price
  <1>5. QED
    BY <1>1, <1>2, <1>3, <1>4 DEF Repeats

\* What is counted, as numbers.
LEMMA CountsType ==
    ASSUME NEW n \in Nat
    PROVE  /\ \A k : IsFiniteSet(OkReceipts(Upto(n), k)) /\ Cardinality(OkReceipts(Upto(n), k)) \in Nat
                     /\ Cardinality(Places(k, n)) \in Nat
           /\ IsFiniteSet(MessagesOf(OkReceipts(Upto(n), "offer")))
           /\ Cardinality(MessagesOf(OkReceipts(Upto(n), "offer"))) \in Nat
  <1>1. ASSUME NEW k
        PROVE  IsFiniteSet(OkReceipts(Upto(n), k)) /\ Cardinality(OkReceipts(Upto(n), k)) \in Nat
               /\ Cardinality(Places(k, n)) \in Nat
    <2>1. Upto(n) = Batch(0, n)
      BY DEF Upto, Batch
    <2>2. 0 \in Nat /\ 0 <= n
      OBVIOUS
    <2>3. QED
      BY <2>1, <2>2, ReceiptsOfBatch, PlacesFinite
  <1>2. IsFiniteSet(MessagesOf(OkReceipts(Upto(n), "offer")))
    <2> DEFINE good == OkReceipts(Upto(n), "offer")
               f == [r \in good |-> r.message]
    <2>1. f \in Surjection(good, MessagesOf(good))
      BY DEF Surjection, MessagesOf
    <2>2. IsFiniteSet(good)
      BY <1>1
    <2> HIDE DEF f, good
    <2>3. IsFiniteSet(MessagesOf(good))
      BY <2>1, <2>2, FS_Surjection
    <2>4. QED
      BY <2>3 DEF good
  <1>3. QED
    BY <1>1, <1>2, FS_CardinalityType

\* The next records add at most what a batch of them has.
LEMMA CountsSplit ==
    ASSUME StreamTyped, NEW a \in Nat, NEW e \in Nat, a <= e, e <= Len(stream)
    PROVE  /\ Cardinality(OkReceipts(Upto(e), "accept"))
                <= Cardinality(OkReceipts(Upto(a), "accept")) + Cardinality(OkReceipts(Batch(a, e), "accept"))
           /\ Cardinality(OkReceipts(Upto(a), "accept")) <= Cardinality(OkReceipts(Upto(e), "accept"))
           /\ Cardinality(MessagesOf(OkReceipts(Upto(e), "offer")))
                <= Cardinality(MessagesOf(OkReceipts(Upto(a), "offer"))) + Cardinality(Offers(Batch(a, e)))
           /\ Cardinality(MessagesOf(OkReceipts(Upto(a), "offer")))
                <= Cardinality(MessagesOf(OkReceipts(Upto(e), "offer")))
  <1>1. Upto(e) = Upto(a) \union Batch(a, e)
    <2>1. 1..e = (1..a) \union (a + 1 .. e)
      OBVIOUS
    <2>2. QED
      BY <2>1 DEF Upto, Batch
  <1>2. \A k : OkReceipts(Upto(e), k) = OkReceipts(Upto(a), k) \union OkReceipts(Batch(a, e), k)
    BY <1>1 DEF OkReceipts
  <1>3. MessagesOf(OkReceipts(Upto(e), "offer"))
          = MessagesOf(OkReceipts(Upto(a), "offer")) \union MessagesOf(OkReceipts(Batch(a, e), "offer"))
    BY <1>2 DEF MessagesOf
  <1>4. Cardinality(OkReceipts(Upto(e), "accept"))
          <= Cardinality(OkReceipts(Upto(a), "accept")) + Cardinality(OkReceipts(Batch(a, e), "accept"))
    BY <1>2, CountsType, ReceiptsOfBatch, CoveredBySum
  <1>5. Cardinality(OkReceipts(Upto(a), "accept")) <= Cardinality(OkReceipts(Upto(e), "accept"))
    BY <1>2, CountsType, FS_Subset
  <1>6. Cardinality(MessagesOf(OkReceipts(Upto(e), "offer")))
          <= Cardinality(MessagesOf(OkReceipts(Upto(a), "offer"))) + Cardinality(Offers(Batch(a, e)))
    <2>1. /\ IsFiniteSet(MessagesOf(OkReceipts(Batch(a, e), "offer"))) /\ Cardinality(Offers(Batch(a, e))) \in Nat
          /\ Cardinality(MessagesOf(OkReceipts(Batch(a, e), "offer"))) <= Cardinality(Offers(Batch(a, e)))
      BY OffersOfBatch
    <2>2. IsFiniteSet(MessagesOf(OkReceipts(Upto(a), "offer")))
      BY CountsType
    <2> DEFINE A == MessagesOf(OkReceipts(Upto(a), "offer"))
               T == MessagesOf(OkReceipts(Batch(a, e), "offer"))
               U == MessagesOf(OkReceipts(Upto(e), "offer"))
    <2>3. U \subseteq A \union T /\ IsFiniteSet(A) /\ IsFiniteSet(T)
      BY <1>3, <2>1, <2>2
    <2> HIDE DEF A, T, U
    <2>4. Cardinality(U) <= Cardinality(A) + Cardinality(T)
          /\ Cardinality(U) \in Nat /\ Cardinality(A) \in Nat /\ Cardinality(T) \in Nat
      BY <2>3, CoveredBySum
    <2>5. QED
      BY <2>1, <2>4 DEF A, T, U
  <1>7. Cardinality(MessagesOf(OkReceipts(Upto(a), "offer"))) <= Cardinality(MessagesOf(OkReceipts(Upto(e), "offer")))
    BY <1>3, CountsType, FS_Subset
  <1>8. QED
    BY <1>4, <1>5, <1>6, <1>7

(***************************************************************************)
(* What each step does to the totals.                                      *)
(***************************************************************************)
LEMMA TakeCounts ==
    ASSUME NEW a, NEW left, NEW offers, NEW accepts, NEW f, AggOf(a, a, left, offers, accepts, f),
           NEW e \in a + 1 .. Len(stream), e <= a + BatchSize, StreamTyped
    PROVE  AggOf(a, e, Steps, offers, accepts, f)
  <1>1. a \in Nat /\ e \in Nat /\ a < e /\ e <= Len(stream) /\ BatchSize \in Nat
    BY AgentAssumption DEF AggOf
  <1>2. /\ Counted("offer", a, e, Steps) = a /\ Counted("accept", a, e, Steps) = a
        /\ Counted("offer", a, a, left) = a /\ Counted("accept", a, a, left) = a
    BY DEF Counted, Steps
  <1>3. Repeats(a, a) \in Nat /\ Repeats(a, e) \in Nat /\ Repeats(a, a) <= Repeats(a, e)
    <2>1. a <= a /\ a <= e /\ a <= a + BatchSize
      BY <1>1
    <2>2. Repeats(a, a) \in Nat /\ Repeats(a, e) \in Nat /\ Price * Cardinality(Left(a)) \in Nat /\ Price \in Nat
      BY <1>1, <2>1, RepeatsType
    <2>3. Repeats(a, a) = Price * Cardinality(Left(a))
      BY <1>1, <2>2 DEF Repeats
    <2>4. Price - 2 * (e - a - 1) >= 0
      BY <1>1 DEF Price
    <2>5. QED
      BY <1>1, <2>2, <2>3, <2>4 DEF Repeats
  <1>4. Cardinality(Places("accept", a)) \in Nat /\ f \in Nat /\ BatchSize * f \in Nat
    <2>1. Cardinality(Places("accept", a)) \in Nat
      BY <1>1, CountsType
    <2>2. f \in Nat
      BY DEF AggOf
    <2>3. QED
      BY <1>1, <2>1, <2>2
  <1>5. AcceptsAre(a, accepts, f, Repeats(a, e))
    BY <1>2, <1>3, <1>4 DEF AggOf, AcceptsAre
  <1>6. QED
    BY <1>1, <1>2, <1>5 DEF AggOf

LEMMA OffersCount ==
    ASSUME StreamTyped, NEW a, NEW e, NEW left, NEW offers, NEW accepts, NEW f,
           AggOf(a, e, left, offers, accepts, f), "offer" \in left
    PROVE  AggOf(a, e, left \ {"offer"}, offers + Cardinality(Offers(Batch(a, e))), accepts, f)
  <1> DEFINE more == Cardinality(Offers(Batch(a, e)))
  <1>1. a \in Nat /\ e \in Nat /\ a <= e /\ e <= Len(stream) /\ BatchSize \in Nat /\ f \in Nat /\ offers \in Nat
    BY AgentAssumption DEF AggOf
  <1>2. /\ Counted("offer", a, e, left) = a /\ Counted("offer", a, e, left \ {"offer"}) = e
        /\ Counted("accept", a, e, left \ {"offer"}) = Counted("accept", a, e, left)
    BY DEF Counted
  <1>3. /\ more \in Nat
        /\ Cardinality(MessagesOf(OkReceipts(Upto(e), "offer"))) <= Cardinality(MessagesOf(OkReceipts(Upto(a), "offer"))) + more
        /\ Cardinality(Places("offer", a)) + more <= Cardinality(Places("offer", e))
    <2>1. more \in Nat /\ more <= Cardinality(OkReceipts(Batch(a, e), "offer"))
      BY <1>1, OffersOfBatch
    <2>2. /\ Cardinality(OkReceipts(Batch(a, e), "offer")) \in Nat
          /\ Cardinality(Places("offer", a)) + Cardinality(OkReceipts(Batch(a, e), "offer")) <= Cardinality(Places("offer", e))
      BY <1>1, ReceiptsOfBatch
    <2>3. Cardinality(Places("offer", a)) \in Nat /\ Cardinality(Places("offer", e)) \in Nat
      BY <1>1, PlacesFinite
    <2>4. Cardinality(MessagesOf(OkReceipts(Upto(e), "offer"))) <= Cardinality(MessagesOf(OkReceipts(Upto(a), "offer"))) + more
      BY <1>1, CountsSplit
    <2> HIDE DEF more
    <2>5. QED
      BY <2>1, <2>2, <2>3, <2>4
  <1>4. /\ Cardinality(MessagesOf(OkReceipts(Upto(a), "offer"))) \in Nat
        /\ Cardinality(MessagesOf(OkReceipts(Upto(e), "offer"))) \in Nat
        /\ Cardinality(Places("offer", a)) \in Nat /\ Cardinality(Places("offer", e)) \in Nat /\ BatchSize * f \in Nat
    BY <1>1, CountsType
  <1>5. OffersAre(a, offers, f)
    BY <1>2 DEF AggOf
  <1> HIDE DEF more
  <1>6. OffersAre(e, offers + more, f)
    BY <1>1, <1>3, <1>4, <1>5 DEF OffersAre
  <1>7. offers + more \in Nat /\ left \ {"offer"} \in SUBSET Steps
    BY <1>1, <1>3 DEF AggOf
  <1>8. AggOf(a, e, left \ {"offer"}, offers + more, accepts, f)
    BY <1>2, <1>6, <1>7 DEF AggOf
  <1>9. QED
    BY <1>8 DEF more

LEMMA AcceptsCount ==
    ASSUME StreamTyped, NEW a, NEW e, NEW left, NEW offers, NEW accepts, NEW f,
           AggOf(a, e, left, offers, accepts, f), "accept" \in left
    PROVE  AggOf(a, e, left \ {"accept"}, offers, accepts + Cardinality(OkReceipts(Batch(a, e), "accept")), f)
  <1> DEFINE more == Cardinality(OkReceipts(Batch(a, e), "accept"))
  <1>1. /\ a \in Nat /\ e \in Nat /\ a <= e /\ e <= a + BatchSize /\ e <= Len(stream)
        /\ BatchSize \in Nat /\ f \in Nat /\ accepts \in Nat
    BY AgentAssumption DEF AggOf
  <1>2. /\ Counted("accept", a, e, left) = a /\ Counted("accept", a, e, left \ {"accept"}) = e
        /\ Counted("offer", a, e, left \ {"accept"}) = Counted("offer", a, e, left)
    BY DEF Counted
  <1>3. more \in Nat /\ Cardinality(Places("accept", a)) + more <= Cardinality(Places("accept", e))
    BY <1>1, ReceiptsOfBatch
  <1>4. Cardinality(OkReceipts(Upto(e), "accept")) <= Cardinality(OkReceipts(Upto(a), "accept")) + more
    BY <1>1, CountsSplit
  <1>5. /\ Cardinality(OkReceipts(Upto(a), "accept")) \in Nat /\ Cardinality(OkReceipts(Upto(e), "accept")) \in Nat
        /\ Cardinality(Places("accept", a)) \in Nat /\ Cardinality(Places("accept", e)) \in Nat
        /\ BatchSize * f \in Nat /\ Repeats(a, e) \in Nat
    <2>1. /\ Cardinality(OkReceipts(Upto(a), "accept")) \in Nat /\ Cardinality(OkReceipts(Upto(e), "accept")) \in Nat
          /\ Cardinality(Places("accept", a)) \in Nat /\ Cardinality(Places("accept", e)) \in Nat
      BY <1>1, CountsType
    <2>2. Repeats(a, e) \in Nat
      BY <1>1, RepeatsType
    <2>3. QED
      BY <1>1, <2>1, <2>2
  <1>6. AcceptsAre(a, accepts, f, Repeats(a, e))
    BY <1>2 DEF AggOf
  <1> HIDE DEF more
  <1>7. AcceptsAre(e, accepts + more, f, Repeats(a, e))
    <2> DEFINE k == Repeats(a, e)
               errors == BatchSize * f
    <2> HIDE DEF k, errors
    <2>1. /\ Cardinality(OkReceipts(Upto(a), "accept")) <= accepts
          /\ accepts <= Cardinality(Places("accept", a)) + errors + k
      BY <1>6 DEF AcceptsAre, k, errors
    <2>2. errors \in Nat /\ k \in Nat
      BY <1>5 DEF k, errors
    <2>3. Cardinality(OkReceipts(Upto(e), "accept")) <= accepts + more
      BY <1>1, <1>3, <1>4, <1>5, <2>1
    <2>4. accepts + more <= Cardinality(Places("accept", e)) + errors + k
      BY <1>1, <1>3, <1>5, <2>1, <2>2
    <2>5. QED
      BY <2>3, <2>4 DEF AcceptsAre, k, errors
  <1>8. accepts + more \in Nat /\ left \ {"accept"} \in SUBSET Steps
    BY <1>1, <1>3 DEF AggOf
  <1>9. AggOf(a, e, left \ {"accept"}, offers, accepts + more, f)
    BY <1>2, <1>7, <1>8 DEF AggOf
  <1>10. QED
    BY <1>9 DEF more

LEMMA EndCounts ==
    ASSUME NEW a, NEW e, NEW offers, NEW accepts, NEW f, AggOf(a, e, {}, offers, accepts, f), a < e
    PROVE  AggOf(e, e, {}, offers, accepts, f)
  <1>1. a \in Nat /\ e \in Nat /\ e <= a + BatchSize /\ BatchSize \in Nat /\ f \in Nat
    BY AgentAssumption DEF AggOf
  <1>2. \A part : Counted(part, a, e, {}) = e /\ Counted(part, e, e, {}) = e
    BY DEF Counted
  <1>3. Repeats(a, e) \in Nat /\ Repeats(e, e) \in Nat /\ Repeats(a, e) <= Repeats(e, e)
    <2>1. a <= e /\ e <= e /\ e <= e + BatchSize
      BY <1>1
    <2>2. /\ Repeats(a, e) \in Nat /\ Repeats(e, e) \in Nat /\ Price \in Nat
          /\ IsFiniteSet(Left(a)) /\ Cardinality(Left(a)) \in Nat /\ IsFiniteSet(Left(e)) /\ Cardinality(Left(e)) \in Nat
      BY <1>1, <2>1, RepeatsType
    <2>3. Repeats(e, e) = Price * Cardinality(Left(e))
      BY <1>1, <2>2 DEF Repeats
    <2>4. CASE OfferAhead(a)
      <3>1. Left(a) \union {a} \subseteq Left(e) /\ a \notin Left(a)
        BY <1>1, <2>4 DEF Left
      <3>2. IsFiniteSet(Left(a) \union {a}) /\ Cardinality(Left(a) \union {a}) = Cardinality(Left(a)) + 1
        BY <2>2, <3>1, FS_AddElement
      <3>3. Cardinality(Left(a)) + 1 <= Cardinality(Left(e))
        BY <2>2, <3>1, <3>2, FS_Subset
      <3> DEFINE m == Cardinality(Left(a))
                 n == Cardinality(Left(e))
      <3> HIDE DEF m, n
      <3>4. \A p \in Nat : p * (m + 1) <= p * n /\ p * (m + 1) = p * m + p
        <4>1. m \in Nat /\ n \in Nat /\ m + 1 <= n
          BY <2>2, <3>3 DEF m, n
        <4>2. \A p \in Nat : p * (m + 1) <= p * n
          BY <4>1
        <4>3. \A p \in Nat : p * (m + 1) = p * m + p
          BY <4>1
        <4>4. QED
          BY <4>2, <4>3
      <3>5. Price * m + Price <= Price * n
        BY <2>2, <3>4
      <3>6. Repeats(a, e) = Price * m + (Price - 2 * (e - a - 1))
        BY <2>4 DEF Repeats, m
      <3>7. QED
        BY <1>1, <2>2, <2>3, <3>5, <3>6 DEF m, n
    <2>5. CASE ~OfferAhead(a)
      <3>1. Left(a) \subseteq Left(e)
        BY <1>1 DEF Left
      <3>2. Cardinality(Left(a)) <= Cardinality(Left(e))
        BY <2>2, <3>1, FS_Subset
      <3> DEFINE m == Cardinality(Left(a))
                 n == Cardinality(Left(e))
      <3> HIDE DEF m, n
      <3>3. \A p \in Nat : p * m <= p * n
        BY <2>2, <3>2 DEF m, n
      <3>4. Repeats(a, e) = Price * m
        BY <2>2, <2>5 DEF Repeats, m
      <3>5. QED
        BY <2>2, <2>3, <3>3, <3>4 DEF n
    <2>6. QED
      BY <2>2, <2>4, <2>5
  <1>4. Cardinality(Places("accept", e)) \in Nat /\ BatchSize * f \in Nat
    BY <1>1, CountsType
  <1>5. AcceptsAre(e, accepts, f, Repeats(e, e))
    BY <1>2, <1>3, <1>4 DEF AggOf, AcceptsAre
  <1>6. e <= e + BatchSize
    BY <1>1
  <1>7. QED
    BY <1>2, <1>5, <1>6 DEF AggOf

\* The halves of a batch.
Half(a, e) == IF e - a > 1 THEN a + (e - a) \div 2 ELSE e

LEMMA HalfType ==
    ASSUME NEW a \in Nat, NEW e \in Nat, a <= e, e <= a + BatchSize
    PROVE  LET h == Half(a, e)
           IN  /\ h \in Nat /\ a <= h /\ h <= e /\ (a < e => a < h)
               /\ e - a > 1 => e - a <= 2 * (e - a) - 2 * (h - a)
               /\ Repeats(a, h) \in Nat /\ Repeats(a, e) \in Nat /\ Repeats(a, e) <= Repeats(a, h)
               /\ a < e /\ OfferAhead(a) => Repeats(a, e) + (e - a - 1) <= Repeats(a, h)
  <1> DEFINE h == Half(a, e)
  <1>1. /\ h \in Nat /\ a <= h /\ h <= e /\ (a < e => a < h)
        /\ e - a > 1 => e - a <= 2 * (e - a) - 2 * (h - a)
        /\ e - a = 1 => h = e
    BY DEF Half
  <1> HIDE DEF h
  <1>2. h <= a + BatchSize /\ BatchSize \in Nat
    BY <1>1, AgentAssumption
  <1>3. Repeats(a, h) \in Nat /\ Repeats(a, e) \in Nat /\ Price * Cardinality(Left(a)) \in Nat /\ Price \in Nat
    BY <1>1, <1>2, RepeatsType
  <1> DEFINE k == Price * Cardinality(Left(a))
  <1>4. /\ Repeats(a, e) = k + (IF a < e /\ OfferAhead(a) THEN Price - 2 * (e - a - 1) ELSE 0)
        /\ Repeats(a, h) = k + (IF a < h /\ OfferAhead(a) THEN Price - 2 * (h - a - 1) ELSE 0)
    BY DEF Repeats
  <1> HIDE DEF k
  <1>5. k \in Nat
    BY <1>3 DEF k
  <1>6. CASE a < e /\ OfferAhead(a)
    <2>1. Repeats(a, e) = k + (Price - 2 * (e - a - 1)) /\ Repeats(a, h) = k + (Price - 2 * (h - a - 1))
      BY <1>1, <1>4, <1>6
    <2>2. Repeats(a, e) + (e - a - 1) <= Repeats(a, h)
      BY <1>1, <1>3, <1>5, <1>6, <2>1
    <2>3. e - a - 1 >= 0
      BY <1>6
    <2>4. Repeats(a, e) <= Repeats(a, h)
      BY <1>3, <2>2, <2>3
    <2>5. QED
      BY <1>1, <1>3, <2>2, <2>4 DEF h
  <1>7. CASE ~(a < e /\ OfferAhead(a))
    <2>1. Repeats(a, e) = k /\ Repeats(a, h) = k
      BY <1>1, <1>4, <1>5, <1>7
    <2>2. QED
      BY <1>1, <1>3, <1>7, <2>1 DEF h
  <1>8. QED
    BY <1>6, <1>7

\* A batch that has an offer, and what accepts it has besides.
LEMMA OfferTakesPlace ==
    ASSUME StreamTyped, NEW a \in Nat, NEW e \in Nat, a <= e, e <= a + BatchSize, e <= Len(stream),
           Offers(Batch(a, e)) # {}
    PROVE  /\ a < e /\ OfferAhead(a)
           /\ Cardinality(Places("accept", e)) <= Cardinality(Places("accept", a)) + (e - a - 1)
  <1>1. PICK i \in a + 1 .. e : stream[i] \in OkReceipts(Batch(a, e), "offer")
    BY DEF Offers, OkReceipts, Batch
  <1>2. /\ stream[i] \in OkReceipts({stream[i]}, "offer") /\ OkReceipts({stream[i]}, "accept") = {}
    BY <1>1 DEF OkReceipts
  <1>3. i \in 1..Len(stream) /\ i \in Places("offer", Len(stream)) /\ i \notin Places("accept", e)
    <2>1. Len(stream) \in Nat
      BY DEF StreamTyped
    <2>2. i \in 1..Len(stream)
      BY <2>1
    <2>3. QED
      BY <1>2, <2>2 DEF Places
  <1>4. a < e /\ a < i /\ i <= a + BatchSize
    BY AgentAssumption
  <1>5. OfferAhead(a)
    BY <1>3, <1>4 DEF OfferAhead
  <1>6. Cardinality(Places("accept", e)) < Cardinality(Places("accept", a)) + (e - a)
    BY <1>3, PlacesOfBatch
  <1>7. Cardinality(Places("accept", e)) \in Nat /\ Cardinality(Places("accept", a)) \in Nat
    BY PlacesFinite
  <1>8. QED
    BY <1>4, <1>5, <1>6, <1>7

LEMMA NotFoundCounts ==
    ASSUME StreamTyped, NEW a, NEW e, NEW left, NEW offers, NEW accepts, NEW f,
           AggOf(a, e, left, offers, accepts, f), "offer" \in left, Offers(Batch(a, e)) # {}
    PROVE  AggOf(a, Half(a, e), Steps, offers, accepts, f)
  <1> DEFINE h == Half(a, e)
  <1>1. /\ a \in Nat /\ e \in Nat /\ a <= e /\ e <= a + BatchSize /\ e <= Len(stream) /\ Len(stream) \in Nat
        /\ BatchSize \in Nat /\ f \in Nat /\ accepts \in Nat
    BY AgentAssumption DEF AggOf, StreamTyped
  <1>2. /\ h \in Nat /\ a <= h /\ h <= e /\ Repeats(a, e) \in Nat /\ Repeats(a, h) \in Nat
        /\ Repeats(a, e) + (e - a - 1) <= Repeats(a, h)
        /\ Cardinality(Places("accept", e)) <= Cardinality(Places("accept", a)) + (e - a - 1)
        /\ a < e
    BY <1>1, HalfType, OfferTakesPlace
  <1>3. /\ Counted("offer", a, h, Steps) = a /\ Counted("accept", a, h, Steps) = a
        /\ Counted("offer", a, e, left) = a /\ Counted("accept", a, e, left) \in {a, e}
    BY DEF Counted, Steps
  <1>4. /\ Cardinality(OkReceipts(Upto(a), "accept")) \in Nat /\ Cardinality(OkReceipts(Upto(e), "accept")) \in Nat
        /\ Cardinality(Places("accept", a)) \in Nat /\ Cardinality(Places("accept", e)) \in Nat
        /\ Cardinality(OkReceipts(Upto(a), "accept")) <= Cardinality(OkReceipts(Upto(e), "accept"))
    BY <1>1, CountsType, CountsSplit
  <1>5. PICK n \in {a, e} : AcceptsAre(n, accepts, f, Repeats(a, e))
    BY <1>3 DEF AggOf
  <1> HIDE DEF h
  <1>6. AcceptsAre(a, accepts, f, Repeats(a, h))
    <2> DEFINE j == Repeats(a, e)
               k == Repeats(a, h)
               errors == BatchSize * f
    <2>1. errors \in Nat /\ j \in Nat /\ k \in Nat /\ j + (e - a - 1) <= k
      BY <1>1, <1>2
    <2> HIDE DEF j, k, errors
    <2>2. /\ Cardinality(OkReceipts(Upto(n), "accept")) <= accepts
          /\ accepts <= Cardinality(Places("accept", n)) + errors + j
      BY <1>5 DEF AcceptsAre, j, errors
    <2>3. Cardinality(OkReceipts(Upto(a), "accept")) <= accepts
      BY <1>1, <1>4, <1>5, <2>2
    <2>4. Cardinality(Places("accept", n)) <= Cardinality(Places("accept", a)) + (e - a - 1)
      BY <1>1, <1>2, <1>4, <1>5
    <2>5. accepts <= Cardinality(Places("accept", a)) + errors + k
      BY <1>1, <1>4, <1>5, <2>1, <2>2, <2>4
    <2>6. QED
      BY <2>3, <2>5 DEF AcceptsAre, k, errors
  <1>7. h <= a + BatchSize /\ h <= Len(stream)
    BY <1>1, <1>2
  <1>8. QED
    BY <1>2, <1>3, <1>6, <1>7 DEF AggOf, h

\* An error of a batch pays for what was counted of it; others pay for nothing.
LEMMA FailureCounts ==
    ASSUME StreamTyped, NEW a, NEW e, NEW left, NEW offers, NEW accepts, NEW f,
           AggOf(a, e, left, offers, accepts, f)
    PROVE  /\ AggOf(a, Half(a, e), Steps, offers, accepts, f + 1)
           /\ AggOf(a, e, left, offers, accepts, f + 1)
  <1> DEFINE h == Half(a, e)
  <1>1. /\ a \in Nat /\ e \in Nat /\ a <= e /\ e <= a + BatchSize /\ e <= Len(stream) /\ Len(stream) \in Nat
        /\ BatchSize \in Nat /\ f \in Nat /\ accepts \in Nat /\ offers \in Nat
    BY AgentAssumption DEF AggOf, StreamTyped
  <1>2. /\ h \in Nat /\ a <= h /\ h <= e /\ Repeats(a, e) \in Nat /\ Repeats(a, h) \in Nat
        /\ Repeats(a, e) <= Repeats(a, h)
    BY <1>1, HalfType
  <1>3. PICK m \in {a, e} : OffersAre(m, offers, f) /\ m = Counted("offer", a, e, left)
    BY DEF AggOf, Counted
  <1>4. PICK n \in {a, e} : AcceptsAre(n, accepts, f, Repeats(a, e)) /\ n = Counted("accept", a, e, left)
    BY DEF AggOf, Counted
  <1> DEFINE errors == BatchSize * f
             j == Repeats(a, e)
             k == Repeats(a, h)
  <1>5. errors \in Nat /\ BatchSize * (f + 1) = errors + BatchSize /\ j \in Nat /\ k \in Nat /\ j <= k
    BY <1>1, <1>2
  <1> HIDE DEF errors, j, k, h
  <1>6. OffersAre(a, offers, f + 1) /\ OffersAre(m, offers, f + 1)
    <2>1. /\ Cardinality(MessagesOf(OkReceipts(Upto(m), "offer"))) <= offers
          /\ offers <= Cardinality(Places("offer", m)) + errors
      BY <1>3 DEF OffersAre, errors
    <2>2. /\ Cardinality(MessagesOf(OkReceipts(Upto(a), "offer"))) \in Nat
          /\ Cardinality(MessagesOf(OkReceipts(Upto(e), "offer"))) \in Nat
          /\ Cardinality(MessagesOf(OkReceipts(Upto(a), "offer"))) <= Cardinality(MessagesOf(OkReceipts(Upto(e), "offer")))
      BY <1>1, CountsType, CountsSplit
    <2>3. /\ Cardinality(Places("offer", a)) \in Nat /\ Cardinality(Places("offer", e)) \in Nat
          /\ Cardinality(Places("offer", e)) <= Cardinality(Places("offer", a)) + (e - a)
      BY <1>1, PlacesFinite, PlacesOfBatch
    <2>4. Cardinality(MessagesOf(OkReceipts(Upto(a), "offer"))) <= offers
      BY <1>1, <1>3, <2>1, <2>2
    <2>5. Cardinality(Places("offer", m)) \in Nat /\ Cardinality(Places("offer", m)) <= Cardinality(Places("offer", a)) + BatchSize
      BY <1>1, <1>3, <2>3
    <2>6. offers <= Cardinality(Places("offer", a)) + (errors + BatchSize)
          /\ offers <= Cardinality(Places("offer", m)) + (errors + BatchSize)
      <3> DEFINE pa == Cardinality(Places("offer", a))
                 pm == Cardinality(Places("offer", m))
      <3>1. pa \in Nat /\ pm \in Nat /\ pm <= pa + BatchSize /\ offers <= pm + errors
        BY <2>1, <2>3, <2>5
      <3> HIDE DEF pa, pm
      <3>2. offers <= pa + (errors + BatchSize) /\ offers <= pm + (errors + BatchSize)
        BY <1>1, <1>5, <3>1
      <3>3. QED
        BY <3>2 DEF pa, pm
    <2>7. QED
      BY <1>5, <2>1, <2>4, <2>6 DEF OffersAre
  <1>7. /\ AcceptsAre(a, accepts, f + 1, j) /\ AcceptsAre(n, accepts, f + 1, j)
        /\ AcceptsAre(a, accepts, f + 1, k)
    <2>1. /\ Cardinality(OkReceipts(Upto(n), "accept")) <= accepts
          /\ accepts <= Cardinality(Places("accept", n)) + errors + j
      BY <1>4 DEF AcceptsAre, errors, j
    <2>2. /\ Cardinality(OkReceipts(Upto(a), "accept")) \in Nat
          /\ Cardinality(OkReceipts(Upto(e), "accept")) \in Nat
          /\ Cardinality(OkReceipts(Upto(a), "accept")) <= Cardinality(OkReceipts(Upto(e), "accept"))
      BY <1>1, CountsType, CountsSplit
    <2>3. /\ Cardinality(Places("accept", a)) \in Nat /\ Cardinality(Places("accept", e)) \in Nat
          /\ Cardinality(Places("accept", e)) <= Cardinality(Places("accept", a)) + (e - a)
      BY <1>1, PlacesFinite, PlacesOfBatch
    <2>4. Cardinality(OkReceipts(Upto(a), "accept")) <= accepts
      BY <1>1, <1>4, <2>1, <2>2
    <2>5. Cardinality(Places("accept", n)) \in Nat /\ Cardinality(Places("accept", n)) <= Cardinality(Places("accept", a)) + BatchSize
      BY <1>1, <1>4, <2>3
    <2>6. accepts <= Cardinality(Places("accept", a)) + (errors + BatchSize) + j
          /\ accepts <= Cardinality(Places("accept", n)) + (errors + BatchSize) + j
      <3> DEFINE pa == Cardinality(Places("accept", a))
                 pn == Cardinality(Places("accept", n))
      <3>1. pa \in Nat /\ pn \in Nat /\ pn <= pa + BatchSize /\ accepts <= pn + errors + j
        BY <2>1, <2>3, <2>5
      <3> HIDE DEF pa, pn
      <3>2. accepts <= pa + (errors + BatchSize) + j /\ accepts <= pn + (errors + BatchSize) + j
        BY <1>1, <1>5, <3>1
      <3>3. QED
        BY <3>2 DEF pa, pn
    <2>7. accepts <= Cardinality(Places("accept", a)) + (errors + BatchSize) + k
      BY <1>1, <1>5, <2>3, <2>6
    <2>8. QED
      BY <1>5, <2>1, <2>4, <2>6, <2>7 DEF AcceptsAre
  <1>8. Counted("offer", a, h, Steps) = a /\ Counted("accept", a, h, Steps) = a
    BY DEF Counted, Steps
  <1>9. h <= a + BatchSize /\ h <= Len(stream) /\ f + 1 \in Nat
    BY <1>1, <1>2
  <1>10. AggOf(a, h, Steps, offers, accepts, f + 1)
    BY <1>1, <1>2, <1>6, <1>7, <1>8, <1>9 DEF AggOf, k
  <1>11. AggOf(a, e, left, offers, accepts, f + 1)
    <2>1. left \in SUBSET Steps
      BY DEF AggOf
    <2>2. QED
      BY <1>1, <1>3, <1>4, <1>6, <1>7, <1>9, <2>1 DEF AggOf, j
  <1>12. QED
    BY <1>10, <1>11 DEF h

\* More records on the stream change nothing of what was counted.
LEMMA StreamCounts ==
    ASSUME StreamTyped, Extends, NEW a, NEW e, NEW left, NEW offers, NEW accepts, NEW f,
           AggOf(a, e, left, offers, accepts, f)
    PROVE  AggOf(a, e, left, offers, accepts, f)'
  <1>1. /\ a \in Nat /\ e \in Nat /\ a <= e /\ e <= a + BatchSize /\ e <= Len(stream) /\ Len(stream) \in Nat
        /\ BatchSize \in Nat /\ f \in Nat /\ accepts \in Nat /\ offers \in Nat
    BY AgentAssumption DEF AggOf, StreamTyped
  <1>2. PICK s \in Seq(Record) : stream' = stream \o s
    BY DEF Extends
  <1>3. Len(stream) <= Len(stream') /\ Len(stream') \in Nat /\ \A i \in 1..Len(stream) : stream'[i] = stream[i]
    BY <1>2 DEF StreamTyped
  <1>4. \A k : \A n \in Nat : n <= Len(stream) => Upto(n)' = Upto(n) /\ Places(k, n)' = Places(k, n)
    <2> SUFFICES ASSUME NEW k, NEW n \in Nat, n <= Len(stream)
                 PROVE  Upto(n)' = Upto(n) /\ Places(k, n)' = Places(k, n)
      OBVIOUS
    <2>1. \A i \in 1..n : stream'[i] = stream[i]
      BY <1>1, <1>3
    <2>2. QED
      BY <2>1 DEF Upto, Places
  <1>5. \A x : OfferAhead(x) => OfferAhead(x)'
    <2> DEFINE offered(i) == OkReceipts({stream[i]}, "offer") # {}
               offered2(i) == OkReceipts({stream'[i]}, "offer") # {}
    <2>1. \A i \in 1..Len(stream) : i \in 1..Len(stream') /\ (offered(i) => offered2(i))
      <3>1. \A i \in 1..Len(stream) : i \in 1..Len(stream')
        BY <1>1, <1>3
      <3>2. ASSUME NEW i \in 1..Len(stream), offered(i) PROVE offered2(i)
        <4>1. stream'[i] = stream[i]
          BY <1>3
        <4>2. QED
          BY <3>2, <4>1
      <3> HIDE DEF offered, offered2
      <3>3. QED
        BY <3>1, <3>2
    <2>2. \A x : OfferAhead(x) <=> \E i \in 1..Len(stream) : offered(i) /\ x < i /\ i <= x + BatchSize
      BY DEF OfferAhead, Places
    <2>3. \A x : OfferAhead(x)' <=> \E i \in 1..Len(stream') : offered2(i) /\ x < i /\ i <= x + BatchSize
      BY DEF OfferAhead, Places, OkReceipts
    <2> HIDE DEF offered, offered2
    <2>4. QED
      BY <2>1, <2>2, <2>3
  <1>6. Repeats(a, e) \in Nat /\ Repeats(a, e)' \in Nat /\ Repeats(a, e) <= Repeats(a, e)'
    <2>1. /\ Price \in Nat /\ Repeats(a, e) \in Nat /\ IsFiniteSet(Left(a)) /\ Cardinality(Left(a)) \in Nat
      BY <1>1, RepeatsType
    <2>2. IsFiniteSet(Left(a)') /\ Cardinality(Left(a)') \in Nat
      <3>1. IsFiniteSet(0..a - 1)
        <4>1. 0 \in Int /\ a - 1 \in Int
          BY <1>1
        <4>2. QED
          BY <4>1, FS_Interval
      <3>2. Left(a)' \in SUBSET (0..a - 1)
        BY DEF Left
      <3>3. QED
        BY <3>1, <3>2, FS_Subset, FS_CardinalityType
    <2>3. Cardinality(Left(a)) <= Cardinality(Left(a)')
      <3>1. Left(a) \subseteq Left(a)'
        BY <1>5 DEF Left
      <3>2. QED
        BY <2>2, <3>1, FS_Subset
    <2> DEFINE m == Cardinality(Left(a))
               n == Cardinality(Left(a)')
               now == IF a < e /\ OfferAhead(a) THEN Price - 2 * (e - a - 1) ELSE 0
               then == IF a < e /\ OfferAhead(a)' THEN Price - 2 * (e - a - 1) ELSE 0
    <2>4. now \in Nat /\ then \in Nat /\ now <= then
      <3>1. a < e => Price - 2 * (e - a - 1) \in Nat
        BY <1>1 DEF Price
      <3>2. QED
        BY <1>5, <3>1
    <2>5. Repeats(a, e) = Price * m + now /\ Repeats(a, e)' = Price * n + then
      BY DEF Repeats, Price
    <2> HIDE DEF m, n, now, then
    <2>6. m \in Nat /\ n \in Nat /\ m <= n
      BY <2>1, <2>2, <2>3 DEF m, n
    <2>7. \A p \in Nat : p * m <= p * n /\ p * m \in Nat /\ p * n \in Nat
      BY <2>6
    <2>8. Price * m <= Price * n /\ Price * m \in Nat /\ Price * n \in Nat
      BY <2>1, <2>7
    <2>9. Repeats(a, e)' \in Nat /\ Repeats(a, e) <= Repeats(a, e)'
      BY <2>4, <2>5, <2>8
    <2>10. QED
      BY <2>1, <2>9
  <1>7. PICK m \in {a, e} : OffersAre(m, offers, f) /\ m = Counted("offer", a, e, left)
    BY DEF AggOf, Counted
  <1>8. PICK n \in {a, e} : AcceptsAre(n, accepts, f, Repeats(a, e)) /\ n = Counted("accept", a, e, left)
    BY DEF AggOf, Counted
  <1>9. m \in Nat /\ n \in Nat /\ m <= Len(stream) /\ n <= Len(stream)
    BY <1>1, <1>7, <1>8
  <1>10. OffersAre(m, offers, f)'
    <2>1. Upto(m)' = Upto(m) /\ Places("offer", m)' = Places("offer", m)
      BY <1>4, <1>9
    <2>2. OkReceipts(Upto(m), "offer")' = OkReceipts(Upto(m), "offer")
      BY <2>1 DEF OkReceipts
    <2>3. QED
      BY <1>7, <2>1, <2>2 DEF OffersAre, MessagesOf
  <1>11. AcceptsAre(n, accepts, f, Repeats(a, e))'
    <2>1. Upto(n)' = Upto(n) /\ Places("accept", n)' = Places("accept", n)
      BY <1>4, <1>9
    <2>2. OkReceipts(Upto(n), "accept")' = OkReceipts(Upto(n), "accept")
      BY <2>1 DEF OkReceipts
    <2>3. Cardinality(Places("accept", n)) \in Nat /\ BatchSize * f \in Nat
      BY <1>1, <1>9, PlacesFinite
    <2> DEFINE j == Repeats(a, e)
               k == Repeats(a, e)'
               held == Cardinality(Places("accept", n))
               errors == BatchSize * f
    <2>4. accepts <= held + errors + j
      BY <1>8 DEF AcceptsAre
    <2>5. j \in Nat /\ k \in Nat /\ j <= k /\ held \in Nat /\ errors \in Nat
      BY <1>6, <2>3
    <2> HIDE DEF j, k, held, errors
    <2>6. accepts <= held + errors + k
      BY <1>1, <2>4, <2>5
    <2>7. QED
      BY <1>8, <2>1, <2>2, <2>6 DEF AcceptsAre, k, held, errors
  <1>12. e <= Len(stream')
    BY <1>1, <1>3
  <1>13. QED
    BY <1>1, <1>7, <1>8, <1>10, <1>11, <1>12 DEF AggOf, Counted

(***************************************************************************)
(* The totals of any behaviour are those of a batch.                       *)
(***************************************************************************)
AggInv ==
    \E a, e, offers, accepts, f \in Nat, left \in SUBSET Steps :
        /\ metrics = [at |-> a, end |-> e, left |-> left]
        /\ totals = [offer |-> offers, accept |-> accepts]
        /\ faults = f
        /\ AggOf(a, e, left, offers, accepts, f)

LEMMA AggBegins == Init => AggInv
  <1> SUFFICES ASSUME Init PROVE AggInv
    OBVIOUS
  <1>1. /\ metrics = [at |-> 0, end |-> 0, left |-> {}] /\ totals = [offer |-> 0, accept |-> 0]
        /\ faults = 0 /\ stream = <<>>
    BY DEF Init, Idle
  <1>2. AggOf(0, 0, {}, 0, 0, 0)
    <2>1. BatchSize \in Nat /\ 0 \in Nat /\ 0 <= 0 /\ 0 <= 0 + BatchSize /\ 0 <= Len(stream) /\ {} \in SUBSET Steps
      BY <1>1, AgentAssumption
    <2>2. \A k : Upto(0) = {} /\ Places(k, 0) = {} /\ OkReceipts(Upto(0), k) = {} /\ MessagesOf(OkReceipts(Upto(0), k)) = {}
      BY DEF Upto, Places, OkReceipts, MessagesOf
    <2>3. Cardinality({}) = 0
      BY FS_EmptySet
    <2>4. Repeats(0, 0) \in Nat
      BY <2>1, RepeatsType
    <2>5. BatchSize * 0 = 0
      BY <2>1
    <2>6. OffersAre(0, 0, 0) /\ AcceptsAre(0, 0, 0, Repeats(0, 0))
      <3> DEFINE k == Repeats(0, 0)
      <3> HIDE DEF k
      <3>1. k \in Nat
        BY <2>4 DEF k
      <3>2. \A part : /\ Cardinality(Places(part, 0)) = 0 /\ Cardinality(OkReceipts(Upto(0), part)) = 0
                      /\ Cardinality(MessagesOf(OkReceipts(Upto(0), part))) = 0
        BY <2>2, <2>3
      <3>3. OffersAre(0, 0, 0)
        BY <2>5, <3>2 DEF OffersAre
      <3>4. AcceptsAre(0, 0, 0, k)
        BY <2>5, <3>1, <3>2 DEF AcceptsAre
      <3>5. QED
        BY <3>3, <3>4 DEF k
    <2>7. QED
      BY <2>1, <2>6 DEF AggOf, Counted
  <1>3. QED
    BY <1>1, <1>2 DEF AggInv

LEMMA AggKept == StreamTyped /\ AggInv /\ [Next]_vars => AggInv'
  <1> SUFFICES ASSUME StreamTyped, AggInv, [Next]_vars PROVE AggInv'
    OBVIOUS
  <1>1. PICK a, e, offers, accepts, f \in Nat, left \in SUBSET Steps :
          /\ metrics = [at |-> a, end |-> e, left |-> left]
          /\ totals = [offer |-> offers, accept |-> accepts]
          /\ faults = f
          /\ AggOf(a, e, left, offers, accepts, f)
    BY DEF AggInv
  <1>2. metrics.at = a /\ metrics.end = e /\ metrics.left = left /\ BatchOf(metrics) = Batch(a, e)
    BY <1>1 DEF BatchOf, Batch
  <1>3. ASSUME NEW b, NEW d, NEW l, NEW o, NEW c, NEW g, AggOf(b, d, l, o, c, g),
               metrics' = [at |-> b, end |-> d, left |-> l],
               totals' = [offer |-> o, accept |-> c], faults' = g
        PROVE  AggInv'
    <2>1. AggOf(b, d, l, o, c, g)'
      BY <1>3, StreamKept, StreamCounts
    <2>2. b \in Nat /\ d \in Nat /\ l \in SUBSET Steps /\ o \in Nat /\ c \in Nat /\ g \in Nat
      BY <1>3 DEF AggOf
    <2>3. QED
      BY <1>3, <2>1, <2>2 DEF AggInv
  <1>4. Fault => faults' = f + 1
    BY <1>1 DEF Fault
  <1>5. Split(metrics) = [at |-> a, end |-> Half(a, e), left |-> Steps]
    <2>1. Split(metrics) = [metrics EXCEPT !.end = Half(a, e), !.left = Steps]
      BY <1>2 DEF Split, Half
    <2>2. Half(a, e) \in Nat
      BY <1>1, HalfType DEF AggOf
    <2>3. PICK h \in Nat : h = Half(a, e)
      BY <2>2
    <2>4. PICK c : c = [metrics EXCEPT !.end = h, !.left = Steps]
      OBVIOUS
    <2>5. c = [at |-> a, end |-> h, left |-> Steps]
      BY <1>1, <2>4
    <2>6. QED
      BY <2>1, <2>3, <2>4, <2>5
  <1>6. CASE UNCHANGED <<metrics, totals>> /\ (faults' = faults \/ Fault)
    BY <1>1, <1>3, <1>4, <1>6, FailureCounts
  <1>7. CASE TakeMetrics
    <2>1. PICK x \in a + 1 .. Len(stream) : x <= a + BatchSize /\ metrics' = [metrics EXCEPT !.end = x, !.left = Steps]
      BY <1>2, <1>7 DEF TakeMetrics
    <2>2. a = e /\ UNCHANGED <<totals, faults>>
      BY <1>2, <1>7 DEF TakeMetrics
    <2>3. metrics' = [at |-> a, end |-> x, left |-> Steps]
      BY <1>1, <2>1
    <2>4. AggOf(a, x, Steps, offers, accepts, f)
      BY <1>1, <2>1, <2>2, TakeCounts
    <2>5. QED
      BY <1>1, <1>3, <2>2, <2>3, <2>4
  <1>8. ASSUME NEW items, OffersFrom(items), UNCHANGED faults \/ Fault PROVE AggInv'
    <2>1. /\ "offer" \in left /\ faults' \in {f, f + 1}
          /\ totals' = [totals EXCEPT !.offer = @ + Cardinality(Offers(Batch(a, e)))]
          /\ metrics' = [metrics EXCEPT !.left = @ \ {"offer"}]
      BY <1>1, <1>2, <1>4, <1>8 DEF OffersFrom
    <2>2. /\ totals' = [offer |-> offers + Cardinality(Offers(Batch(a, e))), accept |-> accepts]
          /\ metrics' = [at |-> a, end |-> e, left |-> left \ {"offer"}]
      BY <1>1, <2>1
    <2>3. AggOf(a, e, left \ {"offer"}, offers + Cardinality(Offers(Batch(a, e))), accepts, f)
      BY <1>1, <2>1, OffersCount
    <2>4. PICK o : o = offers + Cardinality(Offers(Batch(a, e)))
      OBVIOUS
    <2>5. AggOf(a, e, left \ {"offer"}, o, accepts, f + 1)
      BY <2>3, <2>4, FailureCounts
    <2>6. QED
      BY <1>1, <1>3, <2>1, <2>2, <2>3, <2>4, <2>5
  <1>9. CASE CountAccepts
    <2>1. /\ "accept" \in left /\ UNCHANGED faults
          /\ totals' = [totals EXCEPT !.accept = @ + Cardinality(OkReceipts(Batch(a, e), "accept"))]
          /\ metrics' = [metrics EXCEPT !.left = @ \ {"accept"}]
      BY <1>2, <1>9 DEF CountAccepts
    <2>2. /\ totals' = [offer |-> offers, accept |-> accepts + Cardinality(OkReceipts(Batch(a, e), "accept"))]
          /\ metrics' = [at |-> a, end |-> e, left |-> left \ {"accept"}]
      BY <1>1, <2>1
    <2>3. AggOf(a, e, left \ {"accept"}, offers, accepts + Cardinality(OkReceipts(Batch(a, e), "accept")), f)
      BY <1>1, <2>1, AcceptsCount
    <2>4. PICK c : c = accepts + Cardinality(OkReceipts(Batch(a, e), "accept"))
      OBVIOUS
    <2>5. QED
      BY <1>1, <1>3, <2>1, <2>2, <2>3, <2>4
  <1>10. CASE EndMetrics
    <2>1. a < e /\ left = {} /\ metrics' = [metrics EXCEPT !.at = e] /\ UNCHANGED <<totals, faults>>
      BY <1>2, <1>10 DEF EndMetrics
    <2>2. metrics' = [at |-> e, end |-> e, left |-> {}]
      BY <1>1, <2>1
    <2>3. AggOf(e, e, {}, offers, accepts, f)
      BY <1>1, <2>1, EndCounts
    <2>4. QED
      BY <1>1, <1>3, <2>1, <2>2, <2>3
  <1>11. CASE OfferNotFound
    <2>1. "offer" \in left /\ Offers(Batch(a, e)) # {} /\ UNCHANGED <<totals, faults>>
          /\ metrics' = [at |-> a, end |-> Half(a, e), left |-> Steps]
      BY <1>2, <1>5, <1>11 DEF OfferNotFound
    <2>2. AggOf(a, Half(a, e), Steps, offers, accepts, f)
      BY <1>1, <2>1, NotFoundCounts
    <2>3. QED
      BY <1>1, <1>3, <2>1, <2>2
  <1>12. CASE MetricsFails
    <2>1. faults' = f + 1 /\ UNCHANGED totals /\ metrics' = [at |-> a, end |-> Half(a, e), left |-> Steps]
      BY <1>4, <1>5, <1>12 DEF MetricsFails
    <2>2. AggOf(a, Half(a, e), Steps, offers, accepts, f + 1)
      BY <1>1, FailureCounts
    <2>3. QED
      BY <1>1, <1>3, <2>1, <2>2
  <1>13. QED
    <2>1. ASSUME NEW w \in Sendings, WriteNext(w) PROVE UNCHANGED <<metrics, totals>>
      BY <2>1 DEF WriteNext, Write, Put, PutFails, LookUp, ReadMessage, PutRecordsFails, AnswerWrite, Die,
                  Logged, consumers
    <2>2. PutDiffs \/ BillingFails => UNCHANGED <<metrics, totals>>
      BY DEF PutDiffs, BillingFails
    <2>3. faults' = faults \/ Fault
      BY DEF Next, vars, Write, Progress, Put, Resolve, ReadMessage, PutRecords, AnswerWrite, PutFails, RecordsRejected, ResolveLate,
             PutRecordsFails, Die, Metrics, TakeMetrics, CountOffers, CountOffersLate, CountAccepts, EndMetrics, OfferNotFound,
             MetricsFails, PutDiffs, BillingFails
    <2>4. UNCHANGED vars => UNCHANGED <<metrics, totals>>
      BY DEF vars, consumers
    <2>5. QED
      BY <1>6, <1>7, <1>8, <1>9, <1>10, <1>11, <1>12, <2>1, <2>2, <2>3, <2>4, NextSplit DEF ConsumersNext

(***************************************************************************)
(* The totals count each receipt, and repeat only what failures and the    *)
(* offers ahead account for, for batches and messages of any size.         *)
(***************************************************************************)
THEOREM AggregatesAreCounted == Spec => []AggregatesCounted
  <1>1. Init => StreamTyped /\ AggInv
    BY AggBegins DEF Init, StreamTyped
  <1>2. StreamTyped /\ AggInv /\ [Next]_vars => (StreamTyped /\ AggInv)'
    BY AggKept, StreamKept, ExtendsTyped
  <1>3. StreamTyped /\ AggInv => AggregatesCounted
    <2> SUFFICES ASSUME StreamTyped, AggInv PROVE AggregatesCounted
      OBVIOUS
    <2>1. PICK a, e, offers, accepts, f \in Nat, left \in SUBSET Steps :
            /\ metrics = [at |-> a, end |-> e, left |-> left]
            /\ totals = [offer |-> offers, accept |-> accepts]
            /\ faults = f
            /\ AggOf(a, e, left, offers, accepts, f)
      BY DEF AggInv
    <2>2. metrics.at = a /\ metrics.end = e /\ totals.offer = offers /\ totals.accept = accepts
      BY <2>1
    <2>3. /\ a <= e /\ e <= a + BatchSize /\ e <= Len(stream) /\ BatchSize \in Nat \ {0} /\ BatchSize * f \in Nat
      BY <2>1, AgentAssumption DEF AggOf
    <2> DEFINE Begun == {x \in 0..a : OfferAhead(x)}
               repeats == 2 * (BatchSize - 1) * Cardinality(Begun)
               errors == BatchSize * f
    <2>4. Repeats(a, e) \in Nat /\ repeats \in Nat /\ Repeats(a, e) <= repeats
      <3>1. /\ Price \in Nat /\ Repeats(a, e) \in Nat /\ IsFiniteSet(Left(a)) /\ Cardinality(Left(a)) \in Nat
        BY <2>3, RepeatsType
      <3>2. IsFiniteSet(Begun) /\ Cardinality(Begun) \in Nat
        <4>1. IsFiniteSet(0..a)
          BY FS_Interval
        <4>2. QED
          BY <4>1, FS_Subset, FS_CardinalityType
      <3>3. Left(a) \subseteq Begun /\ a \notin Left(a) /\ (OfferAhead(a) => a \in Begun)
        BY DEF Left
      <3> HIDE DEF Begun
      <3>4. Cardinality(Left(a)) <= Cardinality(Begun)
        BY <3>2, <3>3, FS_Subset
      <3>5. OfferAhead(a) => Cardinality(Left(a)) + 1 <= Cardinality(Begun)
        <4> SUFFICES ASSUME OfferAhead(a) PROVE Cardinality(Left(a)) + 1 <= Cardinality(Begun)
          OBVIOUS
        <4>1. Left(a) \union {a} \in SUBSET Begun
          BY <3>3
        <4>2. Cardinality(Left(a) \union {a}) = Cardinality(Left(a)) + 1
          BY <3>1, <3>3, FS_AddElement
        <4>3. QED
          BY <3>2, <4>1, <4>2, FS_Subset
      <3> DEFINE m == Cardinality(Left(a))
                 n == Cardinality(Begun)
      <3>6. Repeats(a, e) = Price * m + (IF a < e /\ OfferAhead(a) THEN Price - 2 * (e - a - 1) ELSE 0)
            /\ repeats = Price * n
        BY DEF Repeats, Price
      <3>7. m \in Nat /\ n \in Nat /\ m <= n /\ (OfferAhead(a) => m + 1 <= n)
        BY <3>1, <3>2, <3>4, <3>5
      <3> HIDE DEF m, n, repeats
      <3>8. \A p \in Nat : p * m <= p * n /\ p * m \in Nat /\ p * n \in Nat
        BY <3>7
      <3>9. \A p \in Nat : m + 1 <= n => p * m + p <= p * n
        <4>1. \A p \in Nat : m + 1 <= n => p * (m + 1) <= p * n
          BY <3>7
        <4>2. \A p \in Nat : p * (m + 1) = p * m + p
          BY <3>7
        <4>3. QED
          BY <4>1, <4>2
      <3>10. Price * m <= Price * n /\ Price * n \in Nat /\ (m + 1 <= n => Price * m + Price <= Price * n) /\ Price * m \in Nat
        BY <3>1, <3>8, <3>9
      <3>11. QED
        BY <2>3, <3>1, <3>6, <3>7, <3>10
    <2>5. PICK m \in {a, e} : OffersAre(m, offers, f)
      BY <2>1 DEF AggOf, Counted
    <2>6. PICK n \in {a, e} : AcceptsAre(n, accepts, f, Repeats(a, e))
      BY <2>1 DEF AggOf, Counted
    <2>7. /\ Cardinality(MessagesOf(OkReceipts(Upto(a), "offer"))) \in Nat
          /\ Cardinality(MessagesOf(OkReceipts(Upto(e), "offer"))) \in Nat
          /\ Cardinality(MessagesOf(OkReceipts(Upto(a), "offer"))) <= Cardinality(MessagesOf(OkReceipts(Upto(e), "offer")))
          /\ Cardinality(OkReceipts(Upto(a), "accept")) \in Nat
          /\ Cardinality(OkReceipts(Upto(e), "accept")) \in Nat
          /\ Cardinality(OkReceipts(Upto(a), "accept")) <= Cardinality(OkReceipts(Upto(e), "accept"))
      BY <2>3, CountsType, CountsSplit
    <2>8. /\ Cardinality(Places("offer", a)) \in Nat /\ Cardinality(Places("offer", e)) \in Nat
          /\ Cardinality(Places("offer", a)) <= Cardinality(Places("offer", e))
          /\ Cardinality(Places("accept", a)) \in Nat /\ Cardinality(Places("accept", e)) \in Nat
          /\ Cardinality(Places("accept", a)) <= Cardinality(Places("accept", e))
      BY <2>3, PlacesFinite, PlacesOfBatch
    <2> HIDE DEF repeats, errors
    <2>9. errors \in Nat
      BY <2>3 DEF errors
    <2>10. /\ Cardinality(MessagesOf(OkReceipts(Upto(a), "offer"))) <= offers
           /\ offers <= Cardinality(Places("offer", e)) + errors
      BY <2>5, <2>7, <2>8, <2>9 DEF OffersAre, errors
    <2>11. Cardinality(OkReceipts(Upto(a), "accept")) <= accepts
      BY <2>6, <2>7 DEF AcceptsAre
    <2>12. accepts <= Cardinality(Places("accept", e)) + errors + repeats
      <3> DEFINE j == Repeats(a, e)
      <3> HIDE DEF j
      <3>1. accepts <= Cardinality(Places("accept", n)) + errors + j
        BY <2>6 DEF AcceptsAre, errors, j
      <3>2. j \in Nat /\ repeats \in Nat /\ j <= repeats
        BY <2>4 DEF j
      <3>3. QED
        BY <2>6, <2>8, <2>9, <3>1, <3>2
    <2>13. QED
      BY <2>1, <2>2, <2>10, <2>11, <2>12 DEF AggregatesCounted, repeats, errors
  <1>4. QED
    BY <1>1, <1>2, <1>3, PTL DEF Spec

=============================================================================
