---------------------------- MODULE ConsumerLoop ----------------------------
(***************************************************************************)
(* The Kafka consumer loops of Articleflow and the broker state behind     *)
(* them.  Every consuming service runs the same loop: fetch a message,     *)
(* handle it, commit it, and leave on the first error; the process then    *)
(* ends and the container runtime starts it again (restart:                *)
(* unless-stopped), so every loop of the process starts over from the      *)
(* offsets the broker has for its group.  A reader may also lose its place *)
(* in its group and join it again while its process runs; it then goes on  *)
(* from the committed offset, and what the process has in memory stays.    *)
(*                                                                         *)
(* article-service, feed-service and user-service have one loop each,      *)
(* ranking-service has two in one process.  Groups are the consumer        *)
(* groups; TopicOf and ProcessOf say what a group reads and which process  *)
(* runs it.  The effect of a handler is left to the modules that extend    *)
(* this one; here a handler accepts a message or rejects it.               *)
(***************************************************************************)
EXTENDS Integers, Sequences

CONSTANTS
    Groups,       \* consumer groups, one loop each
    Topics,       \* Kafka topics
    TopicOf,      \* TopicOf[g]: the topic group g reads
    ProcessOf,    \* ProcessOf[g]: the operating-system process running g's loop
    Partitions,   \* partitions of every topic
    Messages,     \* message payloads
    Poison,       \* Poison[g]: payloads g's handler rejects whenever it sees them
    MaxLog,       \* bound: messages published to one partition
    MaxFailures   \* bound: process stops not caused by a poison message, and rejoins

(* A topic has partition 0, and the constants have the types they are used with. *)
ASSUME LoopAssumption ==
    /\ 0 \in Partitions
    /\ Partitions \subseteq Nat
    /\ TopicOf \in [Groups -> Topics]
    /\ Poison \in [Groups -> SUBSET Messages]
    /\ DOMAIN ProcessOf = Groups
    /\ MaxLog \in Nat
    /\ MaxFailures \in Nat

VARIABLES
    log,        \* log[t][p]: the messages of partition p of topic t, the first has offset 0
    committed,  \* committed[g][p]: the offset the broker would resume g from
    position,   \* position[g][p]: the offset g's reader fetches next
    pc,         \* pc[g]: where g's loop is
    cur,        \* cur[g]: the coordinates of the message last fetched by g
    failures,   \* how many stops and rejoins the environment has caused
    done        \* history: done[g][p] is the set of offsets g's handler has accepted

loopVars == <<committed, position, pc, cur, failures, done>>
vars == <<log, loopVars>>

Coordinates == [partition : Partitions, offset : Nat]

(* The loop's places: about to fetch, inside Handle, about to commit; "stopped" is a
   process that has ended and was not yet started again. *)
Places == {"fetch", "handle", "commit", "stopped"}

TypeOK ==
    /\ log \in [Topics -> [Partitions -> Seq(Messages)]]
    /\ committed \in [Groups -> [Partitions -> Nat]]
    /\ position \in [Groups -> [Partitions -> Nat]]
    /\ pc \in [Groups -> Places]
    /\ cur \in [Groups -> Coordinates]
    /\ failures \in Nat
    /\ done \in [Groups -> [Partitions -> SUBSET Nat]]

-----------------------------------------------------------------------------
LogOf(g) == log[TopicOf[g]]

(* The payload at the coordinates c of g's topic: offsets count from 0. *)
PayloadAt(g, c) == LogOf(g)[c.partition][c.offset + 1]

(* The message Commit hands to kafka-go.  Fetch copied only topic, key and value out of
   the fetched message, so partition and offset are their zero values. *)
RebuiltMessage(c) == [partition |-> 0, offset |-> 0]

(* External: kafka-go commits the offset after the message it is given. *)
OffsetAfter(c) == [c EXCEPT !.offset = @ + 1]

(* External: the broker stores what a commit says, also when that moves it back. *)
StoreCommit(g) ==
    LET c == OffsetAfter(RebuiltMessage(cur[g]))
    IN  committed' = [committed EXCEPT ![g][c.partition] = c.offset]

(* All loops of g's process end with it: the first error received by App.Run is returned,
   and main exits. *)
StopProcess(g) ==
    pc' = [h \in Groups |-> IF ProcessOf[h] = ProcessOf[g] THEN "stopped" ELSE pc[h]]

-----------------------------------------------------------------------------
Init ==
    /\ log = [t \in Topics |-> [p \in Partitions |-> << >>]]
    /\ committed = [g \in Groups |-> [p \in Partitions |-> 0]]
    /\ position = [g \in Groups |-> [p \in Partitions |-> 0]]
    /\ pc = [g \in Groups |-> "fetch"]
    /\ cur = [g \in Groups |-> [partition |-> 0, offset |-> 0]]
    /\ failures = 0
    /\ done = [g \in Groups |-> [p \in Partitions |-> {}]]

(* A producer appends m to partition p of topic t. *)
Append1(t, p, m) == log' = [log EXCEPT ![t][p] = Append(@, m)]

Publish(t, p, m) ==
    /\ Len(log[t][p]) < MaxLog
    /\ Append1(t, p, m)
    /\ UNCHANGED loopVars

(* Mutant: the offset is committed when the message is fetched. *)
FetchCommitsFirst(g, p) ==
    /\ pc[g] = "fetch"
    /\ position[g][p] < Len(LogOf(g)[p])
    /\ cur' = [cur EXCEPT ![g] = [partition |-> p, offset |-> position[g][p]]]
    /\ position' = [position EXCEPT ![g][p] = @ + 1]
    /\ committed' = [committed EXCEPT ![g][p] = position[g][p] + 1]
    /\ pc' = [pc EXCEPT ![g] = "handle"]
    /\ UNCHANGED <<log, failures, done>>

(* Mutant: the newest message of a partition is never fetched. *)
FetchLagsByOne(g, p) ==
    /\ pc[g] = "fetch"
    /\ position[g][p] + 1 < Len(LogOf(g)[p])
    /\ cur' = [cur EXCEPT ![g] = [partition |-> p, offset |-> position[g][p]]]
    /\ position' = [position EXCEPT ![g][p] = @ + 1]
    /\ pc' = [pc EXCEPT ![g] = "handle"]
    /\ UNCHANGED <<log, committed, failures, done>>

(* consumer.Fetch returns the next message of partition p. *)
Fetch(g, p) ==
    /\ pc[g] = "fetch"
    /\ position[g][p] < Len(LogOf(g)[p])
    /\ cur' = [cur EXCEPT ![g] = [partition |-> p, offset |-> position[g][p]]]
    /\ position' = [position EXCEPT ![g][p] = @ + 1]
    /\ pc' = [pc EXCEPT ![g] = "handle"]
    /\ UNCHANGED <<log, committed, failures, done>>

(* handler.Handle returns nil.  The effect of the handler is conjoined by the modules that
   model the services; its publications are why log is left open here. *)
HandleStep(g) ==
    /\ pc[g] = "handle"
    /\ done' = [done EXCEPT ![g][cur[g].partition] = @ \union {cur[g].offset}]
    /\ pc' = [pc EXCEPT ![g] = "commit"]
    /\ UNCHANGED <<committed, position, cur, failures>>

HandleOk(g) ==
    /\ HandleStep(g)
    /\ PayloadAt(g, cur[g]) \notin Poison[g]
    /\ UNCHANGED log

(* Mutant: the loop logs the handler's error and goes on with the next message. *)
HandlePoisonSkips(g) ==
    /\ pc[g] = "handle"
    /\ PayloadAt(g, cur[g]) \in Poison[g]
    /\ pc' = [pc EXCEPT ![g] = "fetch"]
    /\ UNCHANGED <<log, committed, position, cur, failures, done>>

(* Handle rejects a poison message, every time it is delivered: the loop returns. *)
HandlePoison(g) ==
    /\ pc[g] = "handle"
    /\ PayloadAt(g, cur[g]) \in Poison[g]
    /\ StopProcess(g)
    /\ UNCHANGED <<log, committed, position, cur, failures, done>>

(* committer.Commit returns nil and the loop goes round. *)
CommitOk(g) ==
    /\ pc[g] = "commit"
    /\ StoreCommit(g)
    /\ pc' = [pc EXCEPT ![g] = "fetch"]
    /\ UNCHANGED <<log, position, cur, failures, done>>

(* Commit returns an error after the broker has stored the offset: the loop returns. *)
CommitUnanswered(g) ==
    /\ pc[g] = "commit"
    /\ failures < MaxFailures
    /\ failures' = failures + 1
    /\ StoreCommit(g)
    /\ StopProcess(g)
    /\ UNCHANGED <<log, position, cur, done>>

(* The process ends anywhere in its loops: Fetch fails, sees EOF or has reached the maximum
   number of messages, Handle fails for a reason of the moment, Commit fails before the
   broker has it, or the process is killed. *)
Stop(g) ==
    /\ pc[g] # "stopped"
    /\ failures < MaxFailures
    /\ failures' = failures + 1
    /\ StopProcess(g)
    /\ UNCHANGED <<log, committed, position, cur, done>>

(* Mutant: a new reader starts at the end of the log instead of at the group's offset. *)
RestartAtEnd(g) ==
    LET mine == {h \in Groups : ProcessOf[h] = ProcessOf[g]}
    IN  /\ pc[g] = "stopped"
        /\ pc' = [h \in Groups |-> IF h \in mine THEN "fetch" ELSE pc[h]]
        /\ position' = [h \in Groups |->
              IF h \in mine THEN [p \in Partitions |-> Len(LogOf(h)[p])] ELSE position[h]]
        /\ UNCHANGED <<log, committed, cur, failures, done>>

(* Mutant: a new reader starts one message before the group's offset. *)
RestartOneBack(g) ==
    LET mine == {h \in Groups : ProcessOf[h] = ProcessOf[g]}
    IN  /\ pc[g] = "stopped"
        /\ pc' = [h \in Groups |-> IF h \in mine THEN "fetch" ELSE pc[h]]
        /\ position' = [h \in Groups |->
              IF h \in mine THEN [p \in Partitions |-> committed[h][p] - 1] ELSE position[h]]
        /\ UNCHANGED <<log, committed, cur, failures, done>>

(* The container runtime starts the process again: every loop of it makes a new reader,
   which starts at the committed offsets. *)
Restart(g) ==
    LET mine == {h \in Groups : ProcessOf[h] = ProcessOf[g]}
    IN  /\ pc[g] = "stopped"
        /\ pc' = [h \in Groups |-> IF h \in mine THEN "fetch" ELSE pc[h]]
        /\ position' = [h \in Groups |-> IF h \in mine THEN committed[h] ELSE position[h]]
        /\ UNCHANGED <<log, committed, cur, failures, done>>

(* External: after a session timeout, a rebalance or the loss of its coordinator, kafka-go's
   group reader joins the group again in the running process, and fetches next what the
   broker has for the group.  A message already given to the loop stays in its hand. *)
Rejoin(g) ==
    /\ pc[g] # "stopped"
    /\ failures < MaxFailures
    /\ failures' = failures + 1
    /\ position' = [position EXCEPT ![g] = committed[g]]
    /\ UNCHANGED <<log, committed, pc, cur, done>>

Next ==
    \/ \E t \in Topics, p \in Partitions, m \in Messages : Publish(t, p, m)
    \/ \E g \in Groups :
          \/ \E p \in Partitions : Fetch(g, p)
          \/ HandleOk(g)
          \/ HandlePoison(g)
          \/ CommitOk(g)
          \/ CommitUnanswered(g)
          \/ Stop(g)
          \/ Restart(g)
          \/ Rejoin(g)

Spec == Init /\ [][Next]_vars

(* A loop that can go on does, and the runtime starts a stopped process again.  Nothing is
   assumed of producers and failures. *)
LoopFairness ==
    \A g \in Groups :
        /\ \A p \in Partitions : WF_vars(Fetch(g, p))
        /\ WF_vars(HandleOk(g))
        /\ WF_vars(HandlePoison(g))
        /\ WF_vars(CommitOk(g))
        /\ WF_vars(Restart(g))

FairSpec == Spec /\ LoopFairness

-----------------------------------------------------------------------------
Offsets(g, p) == 0..(Len(LogOf(g)[p]) - 1)

(* At least once: a group's committed offset never covers a message its handler has not
   accepted.  Whatever stops the process or its reader, nothing below the offset the reader
   goes on from is lost (ConsumerLoop.Run commits only after Handle returned nil). *)
CommitsOnlyHandled ==
    \A g \in Groups, p \in Partitions : \A o \in 0..(committed[g][p] - 1) : o \in done[g][p]

(* No message is passed over: when a handler has accepted an offset it has accepted all the
   earlier ones, over any number of stops, rejoins, redeliveries and rejected messages. *)
NothingPassedOver ==
    \A g \in Groups, p \in Partitions :
        \A o \in done[g][p] : \A q \in 0..(o - 1) : q \in done[g][p]

Contract == INSTANCE DeliveryContract

(* The loops, with their readers, offsets, failures and restarts, deliver as the contract
   says: in the order of the partition and leaving nothing out. *)
ImplementsContract == Contract!Spec

(* Some group of g's process has a message its handler will always reject. *)
PoisonInProcess(g) ==
    \E h \in Groups :
        /\ ProcessOf[h] = ProcessOf[g]
        /\ \E p \in Partitions : \E o \in Offsets(h, p) :
              PayloadAt(h, [partition |-> p, offset |-> o]) \in Poison[h]

(* Every published message is accepted in the end, if the environment stops the process
   and its readers only finitely often and no loop of the process meets a poison message. *)
EventuallyHandled ==
    \A g \in Groups, p \in Partitions, o \in 0..(MaxLog - 1) :
        o \in Offsets(g, p) ~> (o \in done[g][p] \/ PoisonInProcess(g))

(* What the article-service wiring in the README promises, "ConsumerLoop with commit after
   successful handling": a loop back at Fetch has committed what it has handled, so that
   the next reader of the group starts behind it. *)
HandledIsCommitted ==
    \A g \in Groups, p \in Partitions :
        pc[g] = "fetch" => \A o \in 0..(position[g][p] - 1) : o < committed[g][p]

=============================================================================
