------------------------- MODULE ConsumerLoopProofs -------------------------
(***************************************************************************)
(* Theorems about the consumer loops, for every set of groups, topics,     *)
(* processes and messages and every bound.  The delivery theorems hold     *)
(* for topics of one partition, which is how the repository creates them;  *)
(* with more partitions they are false, because every commit goes to       *)
(* partition 0.                                                            *)
(***************************************************************************)
EXTENDS ConsumerLoop, TLAPS, WellFoundedInduction

SinglePartition == Partitions = {0}

(* The parts of the inductive invariant, each about one group g. *)
CommittedInv(g) ==
    \/ committed[g][0] = 0
    \/ committed[g][0] = 1 /\ 0 \in done[g][0]

DoneInv(g) ==
    /\ \A o \in done[g][0] : o < Len(LogOf(g)[0])
    /\ \A o \in done[g][0] : \A q \in 0..(o - 1) : q \in done[g][0]

FetchInv(g) ==
    pc[g] = "fetch" => \A o \in 0..(position[g][0] - 1) : o \in done[g][0]

(* After a rejoin the reader is behind the message in hand, where a restart would put it. *)
StartsOver(g) ==
    \/ position[g][0] = 0
    \/ position[g][0] = 1 /\ 0 \in done[g][0]

HandleInv(g) ==
    pc[g] = "handle" =>
        /\ position[g][0] = cur[g].offset + 1 \/ StartsOver(g)
        /\ cur[g].offset < Len(LogOf(g)[0])
        /\ \A o \in 0..(cur[g].offset - 1) : o \in done[g][0]

CommitInv(g) ==
    pc[g] = "commit" =>
        /\ position[g][0] = cur[g].offset + 1 \/ StartsOver(g)
        /\ \A o \in 0..cur[g].offset : o \in done[g][0]

GroupInv(g) == CommittedInv(g) /\ DoneInv(g) /\ FetchInv(g) /\ HandleInv(g) /\ CommitInv(g)

LoopInv == \A g \in Groups : GroupInv(g)

(* The loops of a process stop together and start together. *)
StopTogether ==
    \A g, h \in Groups :
        ProcessOf[g] = ProcessOf[h] => (pc[g] = "stopped" <=> pc[h] = "stopped")

-----------------------------------------------------------------------------
(* Whatever message a loop commits, the broker stores offset 1 for partition 0: the rebuilt
   message has the zero partition and the zero offset, and kafka-go adds one. *)
LEMMA CommitStoresOne ==
    ASSUME NEW g \in Groups, StoreCommit(g)
    PROVE  committed' = [committed EXCEPT ![g][0] = 1]
<1>1. OffsetAfter(RebuiltMessage(cur[g])) = [partition |-> 0, offset |-> 1]
  BY DEF OffsetAfter, RebuiltMessage
<1> QED
  BY <1>1 DEF StoreCommit

(* Every step of the loops keeps the types of their variables. *)
LEMMA TypeInductive == TypeOK /\ [Next]_vars => TypeOK'
<1> USE LoopAssumption DEF TypeOK, Coordinates, Places
<1> SUFFICES ASSUME TypeOK, [Next]_vars PROVE TypeOK'
  OBVIOUS
<1>1. ASSUME NEW t \in Topics, NEW p \in Partitions, NEW m \in Messages, Publish(t, p, m)
      PROVE  TypeOK'
  BY <1>1 DEF Publish, Append1, loopVars
<1>2. ASSUME NEW g \in Groups, NEW p \in Partitions, Fetch(g, p)
      PROVE  TypeOK'
  <2>1. position[g][p] \in Nat
    OBVIOUS
  <2>2. cur' \in [Groups -> Coordinates]
    BY <1>2, <2>1 DEF Fetch
  <2>3. position' \in [Groups -> [Partitions -> Nat]]
    BY <1>2, <2>1 DEF Fetch
  <2> QED
    BY <1>2, <2>2, <2>3 DEF Fetch
<1>3. ASSUME NEW g \in Groups, HandleOk(g)
      PROVE  TypeOK'
  <2>1. cur[g].partition \in Partitions /\ cur[g].offset \in Nat
    OBVIOUS
  <2>2. done' \in [Groups -> [Partitions -> SUBSET Nat]]
    BY <1>3, <2>1 DEF HandleOk, HandleStep
  <2> QED
    BY <1>3, <2>2 DEF HandleOk, HandleStep
<1>4. ASSUME NEW g \in Groups, HandlePoison(g)
      PROVE  TypeOK'
  BY <1>4 DEF HandlePoison, StopProcess
<1>5. ASSUME NEW g \in Groups, CommitOk(g)
      PROVE  TypeOK'
  <2>1. committed' \in [Groups -> [Partitions -> Nat]]
    <3>1. committed' = [committed EXCEPT ![g][0] = 1]
      BY <1>5, CommitStoresOne DEF CommitOk
    <3> QED
      BY <3>1
  <2> QED
    BY <1>5, <2>1 DEF CommitOk
<1>6. ASSUME NEW g \in Groups, CommitUnanswered(g)
      PROVE  TypeOK'
  <2>1. committed' \in [Groups -> [Partitions -> Nat]]
    <3>1. committed' = [committed EXCEPT ![g][0] = 1]
      BY <1>6, CommitStoresOne DEF CommitUnanswered
    <3> QED
      BY <3>1
  <2> QED
    BY <1>6, <2>1 DEF CommitUnanswered, StopProcess
<1>7. ASSUME NEW g \in Groups, Stop(g)
      PROVE  TypeOK'
  BY <1>7 DEF Stop, StopProcess
<1>8. ASSUME NEW g \in Groups, Restart(g)
      PROVE  TypeOK'
  BY <1>8 DEF Restart
<1>9. ASSUME NEW g \in Groups, Rejoin(g)
      PROVE  TypeOK'
  BY <1>9 DEF Rejoin
<1>10. CASE UNCHANGED vars
  BY <1>10 DEF vars, loopVars
<1> QED
  BY <1>1, <1>2, <1>3, <1>4, <1>5, <1>6, <1>7, <1>8, <1>9, <1>10 DEF Next

(* Every variable of the loops keeps its type: offsets stay natural numbers and a loop is
   always at one of its places. *)
THEOREM TypeCorrect == Spec => []TypeOK
<1>1. Init => TypeOK
  BY LoopAssumption DEF Init, TypeOK, Coordinates, Places
<1> QED
  BY <1>1, TypeInductive, PTL DEF Spec

(* No step separates the loops of one process. *)
LEMMA StopTogetherInductive ==
    ASSUME TypeOK, StopTogether, [Next]_vars
    PROVE  StopTogether'
<1> USE DEF TypeOK, StopTogether
<1>1. ASSUME NEW t \in Topics, NEW p \in Partitions, NEW m \in Messages, Publish(t, p, m)
      PROVE  StopTogether'
  BY <1>1 DEF Publish, loopVars
<1>2. ASSUME NEW g \in Groups, NEW p \in Partitions, Fetch(g, p)
      PROVE  StopTogether'
  BY <1>2 DEF Fetch
<1>3. ASSUME NEW g \in Groups, HandleOk(g)
      PROVE  StopTogether'
  BY <1>3 DEF HandleOk, HandleStep
<1>4. ASSUME NEW g \in Groups, CommitOk(g)
      PROVE  StopTogether'
  BY <1>4 DEF CommitOk
<1>5. ASSUME NEW g \in Groups, HandlePoison(g) \/ CommitUnanswered(g) \/ Stop(g)
      PROVE  StopTogether'
  BY <1>5 DEF HandlePoison, CommitUnanswered, Stop, StopProcess
<1>6. ASSUME NEW g \in Groups, Restart(g) \/ Rejoin(g)
      PROVE  StopTogether'
  BY <1>6 DEF Restart, Rejoin
<1>7. CASE UNCHANGED vars
  BY <1>7 DEF vars, loopVars
<1> QED
  BY <1>1, <1>2, <1>3, <1>4, <1>5, <1>6, <1>7 DEF Next

-----------------------------------------------------------------------------
(* A step that leaves a group's own state alone and only extends its log keeps the group's
   part of the invariant. *)
LEMMA UntouchedGroup ==
    ASSUME TypeOK, TypeOK', NEW g \in Groups,
           committed'[g] = committed[g], position'[g] = position[g], cur'[g] = cur[g],
           done'[g] = done[g], pc'[g] \in {pc[g], "stopped"},
           Len(LogOf(g)'[0]) >= Len(LogOf(g)[0]),
           GroupInv(g)
    PROVE  GroupInv(g)'
<1> USE LoopAssumption DEF TypeOK, Coordinates, GroupInv
<1>1. CommittedInv(g)'
  BY DEF CommittedInv
<1>2. DoneInv(g)'
  <2>1. LogOf(g)[0] \in Seq(Messages) /\ LogOf(g)'[0] \in Seq(Messages)
    BY DEF LogOf
  <2>2. Len(LogOf(g)[0]) \in Nat /\ Len(LogOf(g)'[0]) \in Nat
    BY <2>1
  <2> QED
    BY <2>2 DEF DoneInv
<1>3. FetchInv(g)'
  BY DEF FetchInv
<1>4. HandleInv(g)'
  <2>1. LogOf(g)[0] \in Seq(Messages) /\ LogOf(g)'[0] \in Seq(Messages)
    BY DEF LogOf
  <2>2. Len(LogOf(g)[0]) \in Nat /\ Len(LogOf(g)'[0]) \in Nat
    BY <2>1
  <2> QED
    BY <2>2 DEF HandleInv, StartsOver
<1>5. CommitInv(g)'
  BY DEF CommitInv, StartsOver
<1> QED
  BY <1>1, <1>2, <1>3, <1>4, <1>5

(* A group's log is a sequence, so its length is a natural number. *)
LEMMA LogLength ==
    ASSUME TypeOK, NEW g \in Groups
    PROVE  LogOf(g)[0] \in Seq(Messages) /\ Len(LogOf(g)[0]) \in Nat
<1>1. LogOf(g)[0] \in Seq(Messages)
  BY LoopAssumption DEF TypeOK, LogOf
<1> QED
  BY <1>1

(* With one partition per topic the inductive invariant holds initially and is kept by
   every step of the loops. *)
LEMMA LoopInvInductive ==
    ASSUME SinglePartition
    PROVE  /\ Init => LoopInv
           /\ TypeOK /\ TypeOK' /\ LoopInv /\ [Next]_vars => LoopInv'
<1> USE LoopAssumption
<1>1. ASSUME Init PROVE LoopInv
  <2> SUFFICES ASSUME NEW h \in Groups PROVE GroupInv(h)
    BY DEF LoopInv
  <2>1. /\ committed[h][0] = 0 /\ position[h][0] = 0
        /\ pc[h] = "fetch" /\ done[h][0] = {}
    BY <1>1 DEF Init
  <2> QED
    BY <2>1 DEF GroupInv, CommittedInv, DoneInv, FetchInv, HandleInv, CommitInv
<1>2. ASSUME TypeOK, TypeOK', LoopInv, [Next]_vars PROVE LoopInv'
  <2> SUFFICES ASSUME NEW h \in Groups PROVE GroupInv(h)'
    BY DEF LoopInv
  <2>h. GroupInv(h)
    BY <1>2 DEF LoopInv
  <2>t. committed[h] \in [{0} -> Nat] /\ position[h] \in [{0} -> Nat] /\ done[h] \in [{0} -> SUBSET Nat]
         /\ cur[h].partition = 0 /\ cur[h].offset \in Nat
    BY <1>2 DEF TypeOK, Coordinates, SinglePartition
  <2>1. ASSUME NEW t \in Topics, NEW p \in Partitions, NEW m \in Messages, Publish(t, p, m)
        PROVE  GroupInv(h)'
    <3>1. Len(LogOf(h)'[0]) >= Len(LogOf(h)[0])
      BY <1>2, <2>1 DEF TypeOK, Publish, Append1, LogOf
    <3> QED
      BY <1>2, <2>1, <2>h, <3>1, UntouchedGroup DEF Publish, loopVars
  <2>2. ASSUME NEW g \in Groups, NEW p \in Partitions, Fetch(g, p)
        PROVE  GroupInv(h)'
    <3>1. CASE h # g
      <4>1. /\ committed'[h] = committed[h] /\ position'[h] = position[h]
            /\ cur'[h] = cur[h] /\ done'[h] = done[h] /\ pc'[h] = pc[h] /\ log' = log
        BY <1>2, <2>2, <3>1 DEF Fetch, TypeOK
      <4>2. Len(LogOf(h)'[0]) >= Len(LogOf(h)[0])
        BY <1>2, <4>1, LogLength DEF LogOf
      <4> QED
        BY <1>2, <2>h, <4>1, <4>2, UntouchedGroup
    <3>2. CASE h = g
      <4>1. /\ pc[h] = "fetch" /\ position[h][0] < Len(LogOf(h)[0])
            /\ cur'[h] = [partition |-> 0, offset |-> position[h][0]]
            /\ position'[h][0] = position[h][0] + 1
            /\ pc'[h] = "handle"
            /\ UNCHANGED <<log, committed, done>>
        BY <1>2, <2>2, <3>2 DEF Fetch, TypeOK, SinglePartition
      <4>2. CommittedInv(h)' /\ DoneInv(h)'
        BY <2>h, <4>1 DEF GroupInv, CommittedInv, DoneInv, LogOf
      <4>3. HandleInv(h)'
        BY <2>h, <2>t, <4>1, LogLength, <1>2 DEF GroupInv, FetchInv, HandleInv, LogOf
      <4> QED
        BY <4>1, <4>2, <4>3 DEF GroupInv, FetchInv, CommitInv
    <3> QED
      BY <3>1, <3>2
  <2>3. ASSUME NEW g \in Groups, HandleOk(g)
        PROVE  GroupInv(h)'
    <3>1. CASE h # g
      <4>1. /\ committed'[h] = committed[h] /\ position'[h] = position[h]
            /\ cur'[h] = cur[h] /\ done'[h] = done[h] /\ pc'[h] = pc[h] /\ log' = log
        BY <1>2, <2>3, <3>1 DEF HandleOk, HandleStep, TypeOK
      <4>2. Len(LogOf(h)'[0]) >= Len(LogOf(h)[0])
        BY <1>2, <4>1, LogLength DEF LogOf
      <4> QED
        BY <1>2, <2>h, <4>1, <4>2, UntouchedGroup
    <3>2. CASE h = g
      <4>1. /\ pc[h] = "handle" /\ pc'[h] = "commit"
            /\ done'[h][0] = done[h][0] \union {cur[h].offset}
            /\ UNCHANGED <<log, committed, position, cur>>
        BY <1>2, <2>3, <3>2, <2>t DEF HandleOk, HandleStep, TypeOK
      <4>2. CommittedInv(h)'
        BY <2>h, <4>1 DEF GroupInv, CommittedInv
      <4>3. DoneInv(h)'
        BY <2>h, <2>t, <4>1 DEF GroupInv, DoneInv, HandleInv, LogOf
      <4>4. CommitInv(h)'
        BY <2>h, <2>t, <4>1 DEF GroupInv, HandleInv, CommitInv, StartsOver
      <4> QED
        BY <4>1, <4>2, <4>3, <4>4 DEF GroupInv, FetchInv, HandleInv
    <3> QED
      BY <3>1, <3>2
  <2>4. ASSUME NEW g \in Groups, HandlePoison(g)
        PROVE  GroupInv(h)'
    BY <1>2, <2>4, <2>h, UntouchedGroup, LogLength DEF HandlePoison, StopProcess, TypeOK, LogOf
  <2>5. ASSUME NEW g \in Groups, CommitOk(g)
        PROVE  GroupInv(h)'
    <3>1. CASE h # g
      <4>1. committed'[h] = committed[h]
        BY <1>2, <2>5, <3>1, CommitStoresOne DEF CommitOk, TypeOK
      <4> QED
        BY <1>2, <2>5, <2>h, <3>1, <4>1, UntouchedGroup, LogLength DEF CommitOk, TypeOK, LogOf
    <3>2. CASE h = g
      <4>0. committed' = [committed EXCEPT ![h][0] = 1]
        BY <2>5, <3>2, CommitStoresOne DEF CommitOk
      <4>1. /\ pc[h] = "commit" /\ pc'[h] = "fetch"
            /\ committed'[h][0] = 1
            /\ UNCHANGED <<log, position, cur, done>>
        BY <1>2, <2>5, <3>2, <4>0 DEF CommitOk, TypeOK
      <4>2. CommittedInv(h)'
        BY <2>h, <2>t, <4>1 DEF GroupInv, CommittedInv, CommitInv
      <4>3. DoneInv(h)'
        BY <2>h, <4>1 DEF GroupInv, DoneInv, LogOf
      <4>4. FetchInv(h)'
        BY <2>h, <2>t, <4>1 DEF GroupInv, CommitInv, FetchInv, StartsOver
      <4> QED
        BY <4>1, <4>2, <4>3, <4>4 DEF GroupInv, HandleInv, CommitInv
    <3> QED
      BY <3>1, <3>2
  <2>6. ASSUME NEW g \in Groups, CommitUnanswered(g)
        PROVE  GroupInv(h)'
    <3>1. CASE h # g
      <4>1. committed'[h] = committed[h]
        BY <1>2, <2>6, <3>1, CommitStoresOne DEF CommitUnanswered, TypeOK
      <4> QED
        BY <1>2, <2>6, <2>h, <3>1, <4>1, UntouchedGroup, LogLength
           DEF CommitUnanswered, StopProcess, TypeOK, LogOf
    <3>2. CASE h = g
      <4>0. committed' = [committed EXCEPT ![h][0] = 1]
        BY <2>6, <3>2, CommitStoresOne DEF CommitUnanswered
      <4>1. /\ pc[h] = "commit" /\ pc'[h] = "stopped"
            /\ committed'[h][0] = 1
            /\ UNCHANGED <<log, position, cur, done>>
        BY <1>2, <2>6, <3>2, <4>0 DEF CommitUnanswered, StopProcess, TypeOK
      <4>2. CommittedInv(h)'
        BY <2>h, <2>t, <4>1 DEF GroupInv, CommittedInv, CommitInv
      <4>3. DoneInv(h)'
        BY <2>h, <4>1 DEF GroupInv, DoneInv, LogOf
      <4> QED
        BY <4>1, <4>2, <4>3 DEF GroupInv, FetchInv, HandleInv, CommitInv
    <3> QED
      BY <3>1, <3>2
  <2>7. ASSUME NEW g \in Groups, Stop(g)
        PROVE  GroupInv(h)'
    BY <1>2, <2>7, <2>h, UntouchedGroup, LogLength DEF Stop, StopProcess, TypeOK, LogOf
  <2>8. ASSUME NEW g \in Groups, Restart(g)
        PROVE  GroupInv(h)'
    <3>1. CASE ProcessOf[h] # ProcessOf[g]
      BY <1>2, <2>8, <2>h, <3>1, UntouchedGroup, LogLength DEF Restart, TypeOK, LogOf
    <3>2. CASE ProcessOf[h] = ProcessOf[g]
      <4>1. /\ pc'[h] = "fetch" /\ position'[h] = committed[h]
            /\ UNCHANGED <<log, committed, done>>
        BY <1>2, <2>8, <3>2 DEF Restart, TypeOK
      <4>2. CommittedInv(h)' /\ DoneInv(h)'
        BY <2>h, <4>1 DEF GroupInv, CommittedInv, DoneInv, LogOf
      <4>3. FetchInv(h)'
        BY <2>h, <4>1 DEF GroupInv, CommittedInv, FetchInv
      <4> QED
        BY <4>1, <4>2, <4>3 DEF GroupInv, HandleInv, CommitInv
    <3> QED
      BY <3>1, <3>2
  <2>9. ASSUME NEW g \in Groups, Rejoin(g)
        PROVE  GroupInv(h)'
    <3>1. CASE h # g
      BY <1>2, <2>9, <2>h, <3>1, UntouchedGroup, LogLength DEF Rejoin, TypeOK, LogOf
    <3>2. CASE h = g
      <4>1. /\ pc'[h] = pc[h] /\ position'[h] = committed[h] /\ pc[h] # "stopped"
            /\ UNCHANGED <<log, committed, done, cur>>
        BY <1>2, <2>9, <3>2 DEF Rejoin, TypeOK
      <4>2. CommittedInv(h)' /\ DoneInv(h)'
        BY <2>h, <4>1 DEF GroupInv, CommittedInv, DoneInv, LogOf
      <4>3. FetchInv(h)' /\ StartsOver(h)'
        BY <2>h, <4>1 DEF GroupInv, CommittedInv, FetchInv, StartsOver
      <4>4. HandleInv(h)' /\ CommitInv(h)'
        BY <2>h, <4>1, <4>3 DEF GroupInv, HandleInv, CommitInv, LogOf
      <4> QED
        BY <4>2, <4>3, <4>4 DEF GroupInv
    <3> QED
      BY <3>1, <3>2
  <2>10. CASE UNCHANGED vars
    BY <1>2, <2>10, <2>h, UntouchedGroup, LogLength DEF vars, loopVars, LogOf
  <2> QED
    BY <1>2, <2>1, <2>2, <2>3, <2>4, <2>5, <2>6, <2>7, <2>8, <2>9, <2>10 DEF Next
<1> QED
  BY <1>1, <1>2

(* The inductive invariant is an invariant of the loops of single-partition topics. *)
LEMMA LoopInvHolds ==
    ASSUME SinglePartition
    PROVE  Spec => []LoopInv
<1>1. Init => LoopInv
  BY LoopInvInductive
<1>2. TypeOK /\ TypeOK' /\ LoopInv /\ [Next]_vars => LoopInv'
  BY LoopInvInductive
<1> QED
  BY <1>1, <1>2, TypeCorrect, PTL DEF Spec

(* At least once, for every number of groups, processes and messages: nothing below the
   offset a reader resumes from after a restart or a rejoin is unhandled. *)
THEOREM AtLeastOnce ==
    ASSUME SinglePartition
    PROVE  Spec => []CommitsOnlyHandled
<1>1. TypeOK /\ LoopInv => CommitsOnlyHandled
  <2> SUFFICES ASSUME TypeOK, LoopInv, NEW g \in Groups, NEW o \in 0..(committed[g][0] - 1)
               PROVE  o \in done[g][0]
    BY DEF CommitsOnlyHandled, SinglePartition
  <2>1. committed[g][0] = 0 \/ (committed[g][0] = 1 /\ 0 \in done[g][0])
    BY DEF LoopInv, GroupInv, CommittedInv
  <2> QED
    BY <2>1
<1> QED
  BY <1>1, TypeCorrect, LoopInvHolds, PTL

(* In order and without gaps: a handler that has accepted an offset has accepted every
   earlier one. *)
THEOREM NeverPassedOver ==
    ASSUME SinglePartition
    PROVE  Spec => []NothingPassedOver
<1>1. LoopInv => NothingPassedOver
  BY DEF LoopInv, GroupInv, DoneInv, NothingPassedOver, SinglePartition
<1> QED
  BY <1>1, LoopInvHolds, PTL

-----------------------------------------------------------------------------
(* The loops implement the delivery contract: every step of them is a publication, the
   first acceptance of the next offset, or nothing the contract can see. *)
THEOREM LoopsImplementContract ==
    ASSUME SinglePartition
    PROVE  Spec => ImplementsContract
<1> USE LoopAssumption
<1>1. Init => Contract!Init
  BY DEF Init, Contract!Init
<1>2. ASSUME TypeOK, LoopInv, [Next]_vars
      PROVE  [Contract!Next]_(Contract!contractVars)
  <2>1. ASSUME NEW t \in Topics, NEW p \in Partitions, NEW m \in Messages, Publish(t, p, m)
        PROVE  Contract!Next
    BY <2>1 DEF Publish, Append1, loopVars, Contract!Next, Contract!Publish
  <2>2. ASSUME NEW g \in Groups, HandleOk(g)
        PROVE  Contract!Next \/ UNCHANGED <<log, done>>
    <3>1. /\ pc[g] = "handle" /\ cur[g].partition = 0 /\ cur[g].offset \in Nat
          /\ done' = [done EXCEPT ![g][0] = @ \union {cur[g].offset}]
          /\ UNCHANGED log
      BY <1>2, <2>2 DEF HandleOk, HandleStep, TypeOK, Coordinates, SinglePartition
    <3>2. /\ cur[g].offset < Len(LogOf(g)[0])
          /\ \A q \in 0..(cur[g].offset - 1) : q \in done[g][0]
      BY <1>2, <3>1 DEF LoopInv, GroupInv, HandleInv
    <3>3. CASE cur[g].offset \in done[g][0]
      <4>1. done' = done
        BY <1>2, <3>1, <3>3 DEF TypeOK
      <4> QED
        BY <4>1, <3>1
    <3>4. CASE cur[g].offset \notin done[g][0]
      <4>1. cur[g].offset \in 0..(Len(log[TopicOf[g]][0]) - 1)
        BY <1>2, <3>1, <3>2, LogLength DEF LogOf
      <4>2. Contract!Deliver(g, 0, cur[g].offset)
        BY <3>1, <3>2, <3>4 DEF Contract!Deliver
      <4> QED
        BY <4>1, <4>2 DEF Contract!Next
    <3> QED
      BY <3>3, <3>4
  <2>3. ASSUME NEW g \in Groups,
               \/ \E p \in Partitions : Fetch(g, p)
               \/ HandlePoison(g) \/ CommitOk(g) \/ CommitUnanswered(g)
               \/ Stop(g) \/ Restart(g) \/ Rejoin(g)
        PROVE  UNCHANGED <<log, done>>
    BY <2>3 DEF Fetch, HandlePoison, CommitOk, CommitUnanswered, Stop, Restart, Rejoin
  <2>4. CASE UNCHANGED vars
    BY <2>4 DEF vars, loopVars, Contract!contractVars
  <2> QED
    BY <1>2, <2>1, <2>2, <2>3, <2>4 DEF Next, Contract!contractVars
<1> QED
  BY <1>1, <1>2, TypeCorrect, LoopInvHolds, PTL
     DEF Spec, ImplementsContract, Contract!Spec

-----------------------------------------------------------------------------
(* What holds of all elements of a sequence and of one more holds after appending it. *)
LEMMA AppendedEvents ==
    ASSUME NEW M, NEW s \in Seq(M), NEW m \in M, NEW S,
           \A i \in DOMAIN s : s[i] \in S, m \in S
    PROVE  \A i \in DOMAIN Append(s, m) : Append(s, m)[i] \in S
OBVIOUS

(* Appending leaves the elements of a sequence where they were. *)
LEMMA AppendedKeeps ==
    ASSUME NEW M, NEW s \in Seq(M), NEW m \in M, NEW i \in DOMAIN s
    PROVE  i \in DOMAIN Append(s, m) /\ Append(s, m)[i] = s[i]
OBVIOUS

(* A publication changes one topic's log and nothing else. *)
LEMMA PublishedLog ==
    ASSUME SinglePartition, TypeOK, NEW t \in Topics, NEW m, Publish(t, 0, m)
    PROVE  /\ log'[t][0] = Append(log[t][0], m)
           /\ \A u \in Topics : u # t => log'[u] = log[u]
BY DEF SinglePartition, TypeOK, Publish, Append1

(* Logs only grow: what is at an offset stays there. *)
LEMMA LogGrows ==
    ASSUME SinglePartition, TypeOK, [Next]_vars, NEW t \in Topics, NEW i \in DOMAIN log[t][0]
    PROVE  i \in DOMAIN log'[t][0] /\ log'[t][0][i] = log[t][0][i]
<1>1. ASSUME NEW u \in Topics, NEW p \in Partitions, NEW m \in Messages, Publish(u, p, m)
      PROVE  i \in DOMAIN log'[t][0] /\ log'[t][0][i] = log[t][0][i]
  <2>0. Publish(u, 0, m)
    BY <1>1 DEF SinglePartition
  <2>1. CASE u = t
    <3>1. log'[t][0] = Append(log[t][0], m)
      BY <2>0, <2>1, PublishedLog
    <3>2. log[t][0] \in Seq(Messages)
      BY DEF TypeOK, SinglePartition
    <3> QED
      BY <3>1, <3>2, AppendedKeeps
  <2>2. CASE u # t
    BY <2>0, <2>2, PublishedLog
  <2> QED
    BY <2>1, <2>2
<1>2. ASSUME UNCHANGED log
      PROVE  i \in DOMAIN log'[t][0] /\ log'[t][0][i] = log[t][0][i]
  BY <1>2
<1>3. ASSUME NEW g \in Groups,
             \/ \E p \in Partitions : Fetch(g, p)
             \/ HandleOk(g) \/ HandlePoison(g) \/ CommitOk(g) \/ CommitUnanswered(g)
             \/ Stop(g) \/ Restart(g) \/ Rejoin(g)
      PROVE  UNCHANGED log
  BY <1>3 DEF Fetch, HandleOk, HandlePoison, CommitOk, CommitUnanswered, Stop, Restart, Rejoin
<1>4. CASE UNCHANGED vars
  BY <1>4, <1>2 DEF vars
<1> QED
  BY <1>1, <1>2, <1>3, <1>4 DEF Next

(* A reader that is inside its handler has an event of its topic before it. *)
LEMMA EventInHand ==
    ASSUME SinglePartition, TypeOK, LoopInv, NEW g \in Groups, pc[g] = "handle", NEW S,
           \A i \in DOMAIN LogOf(g)[0] : LogOf(g)[0][i] \in S
    PROVE  /\ PayloadAt(g, cur[g]) \in S
           /\ cur[g].offset + 1 \in DOMAIN LogOf(g)[0]
           /\ PayloadAt(g, cur[g]) = LogOf(g)[0][cur[g].offset + 1]
<1>1. cur[g].partition = 0 /\ cur[g].offset \in Nat
  BY DEF TypeOK, Coordinates, SinglePartition
<1>2. cur[g].offset < Len(LogOf(g)[0])
  BY DEF LoopInv, GroupInv, HandleInv
<1>3. LogOf(g)[0] \in Seq(Messages) /\ Len(LogOf(g)[0]) \in Nat
  BY LogLength
<1>4. cur[g].offset + 1 \in DOMAIN LogOf(g)[0]
  BY <1>1, <1>2, <1>3
<1> QED
  BY <1>1, <1>4 DEF PayloadAt

-----------------------------------------------------------------------------
(* Tables.  article-service, user-service and feed-service each keep one row per key and
   overwrite it with every event.  s is the log of the table's topic, key[e] the key of the
   event e, rows the table, accepted the offsets the handler has accepted, and n how many
   events the reader has been through since it started. *)

(* Every row is some event of the log, and no two rows have one key. *)
RowsAreEvents(s, key, rows) ==
    /\ \A r \in rows : \E i \in DOMAIN s : s[i] = r
    /\ \A a, b \in rows : key[a] = key[b] => a = b

(* Every accepted event has a row for its key. *)
AcceptedHaveRows(s, key, rows, accepted) ==
    \A o \in accepted : o + 1 \in DOMAIN s /\ \E r \in rows : key[r] = key[s[o + 1]]

(* Of the first n events, the last one of every key is its row.  The event at offset 0 is
   left out: a reader that resumes behind it need not have seen it. *)
Settled(s, key, rows, n) ==
    \A i \in 2..n : (\A j \in (i + 1)..n : key[s[j]] # key[s[i]]) => s[i] \in rows

TableInv(s, key, rows, accepted, n) ==
    /\ RowsAreEvents(s, key, rows)
    /\ AcceptedHaveRows(s, key, rows, accepted)
    /\ Settled(s, key, rows, n)

(* The last event of every key. *)
LastOfKeys(s, key) ==
    {s[i] : i \in {j \in DOMAIN s : \A k \in DOMAIN s : k > j => key[s[k]] # key[s[j]]}}

(* A nonempty set of numbers below a bound has a greatest element. *)
LEMMA Greatest ==
    ASSUME NEW n \in Nat, NEW S, S \subseteq 0..n, S # {}
    PROVE  \E m \in S : \A k \in S : k <= m
<1> DEFINE T == {n - k : k \in S}
<1>0. \A k \in S : n - k \in Nat
  OBVIOUS
<1>1. T \subseteq Nat /\ T # {}
  BY <1>0, Zenon
<1>2. PICK x \in T : \A y \in T : ~(<<y, x>> \in OpToRel(<, Nat))
  BY <1>1, NatLessThanWellFounded, WFMin
<1>3. \A y \in T : ~(y < x)
  BY <1>1, <1>2 DEF OpToRel
<1>4. PICK m \in S : x = n - m
  OBVIOUS
<1>5. \A k \in S : n - k \in T
  OBVIOUS
<1> HIDE DEF T
<1>6. \A k \in S : k <= m
  BY <1>3, <1>4, <1>5
<1> QED
  BY <1>6

(* The empty table of an empty log. *)
LEMMA TableStarts ==
    ASSUME NEW key
    PROVE  TableInv(<< >>, key, {}, {}, 0)
BY DEF TableInv, RowsAreEvents, AcceptedHaveRows, Settled

(* More events do not touch what is known of the table, and a reader may start over. *)
LEMMA TableWaits ==
    ASSUME NEW M, NEW s \in Seq(M), NEW t \in Seq(M), NEW key, NEW rows, NEW accepted,
           NEW n \in Nat, n <= Len(s), TableInv(s, key, rows, accepted, n),
           \A i \in DOMAIN s : i \in DOMAIN t /\ t[i] = s[i],
           NEW m \in {n, 0, 1}
    PROVE  TableInv(t, key, rows, accepted, m)
<1>1. RowsAreEvents(t, key, rows) /\ AcceptedHaveRows(t, key, rows, accepted)
  BY DEF TableInv, RowsAreEvents, AcceptedHaveRows
<1>2. \A i \in 1..n : t[i] = s[i]
  OBVIOUS
<1>3. Settled(t, key, rows, m)
  BY <1>2 DEF TableInv, Settled
<1> QED
  BY <1>1, <1>3 DEF TableInv

(* The handler puts the next event in the place of the row with its key. *)
LEMMA TableUpsert ==
    ASSUME NEW M, NEW s \in Seq(M), NEW key, NEW rows, NEW accepted,
           NEW n \in Nat, n < Len(s), TableInv(s, key, rows, accepted, n)
    PROVE  TableInv(s, key, {r \in rows : key[r] # key[s[n + 1]]} \union {s[n + 1]},
                    accepted \union {n}, n + 1)
<1> DEFINE e == s[n + 1]
           rows2 == {r \in rows : key[r] # key[e]} \union {e}
<1>0. n + 1 \in DOMAIN s
  OBVIOUS
<1> HIDE DEF e
<1>1. RowsAreEvents(s, key, rows2)
  BY <1>0 DEF TableInv, RowsAreEvents, e
<1>2. AcceptedHaveRows(s, key, rows2, accepted \union {n})
  BY <1>0 DEF TableInv, AcceptedHaveRows, e
<1>3. Settled(s, key, rows2, n + 1)
  <2> SUFFICES ASSUME NEW i \in 2..(n + 1),
                      \A j \in (i + 1)..(n + 1) : key[s[j]] # key[s[i]]
               PROVE  s[i] \in rows2
    BY DEF Settled
  <2>1. CASE i = n + 1
    BY <2>1 DEF e
  <2>2. CASE i \in 2..n
    <3>1. \A j \in (i + 1)..n : key[s[j]] # key[s[i]]
      BY <2>2
    <3>2. s[i] \in rows
      BY <2>2, <3>1 DEF TableInv, Settled
    <3>3. key[s[i]] # key[e]
      BY <2>2 DEF e
    <3> QED
      BY <3>2, <3>3
  <2> QED
    BY <2>1, <2>2
<1> QED
  BY <1>1, <1>2, <1>3 DEF TableInv, e

(* A reader that is through with the log leaves the last event of every key. *)
LEMMA TableCaughtUp ==
    ASSUME NEW M, NEW s \in Seq(M), NEW key, NEW rows, NEW accepted,
           TableInv(s, key, rows, accepted, Len(s)),
           \A o \in 0..(Len(s) - 1) : o \in accepted
    PROVE  rows = LastOfKeys(s, key)
<1> DEFINE Last(i) == \A k \in DOMAIN s : k > i => key[s[k]] # key[s[i]]
<1>1. ASSUME NEW i \in DOMAIN s, Last(i) PROVE s[i] \in rows
  <2>1. CASE i = 1
    <3>1. PICK r \in rows : key[r] = key[s[1]]
      BY <2>1 DEF TableInv, AcceptedHaveRows
    <3>2. PICK k \in DOMAIN s : s[k] = r
      BY DEF TableInv, RowsAreEvents
    <3>3. k = 1
      BY <1>1, <2>1, <3>1, <3>2
    <3> QED
      BY <2>1, <3>2, <3>3
  <2>2. CASE i # 1
    <3>1. i \in 2..Len(s)
      BY <2>2
    <3>2. \A j \in (i + 1)..Len(s) : key[s[j]] # key[s[i]]
      BY <1>1
    <3> QED
      BY <3>1, <3>2 DEF TableInv, Settled
  <2> QED
    BY <2>1, <2>2
<1>2. ASSUME NEW r \in rows PROVE \E i \in DOMAIN s : Last(i) /\ s[i] = r
  <2> DEFINE Mine == {k \in DOMAIN s : key[s[k]] = key[r]}
  <2>1. Mine # {} /\ Mine \subseteq 0..Len(s)
    BY <1>2 DEF TableInv, RowsAreEvents
  <2>n. Len(s) \in Nat
    OBVIOUS
  <2>2. PICK m \in Mine : \A k \in Mine : k <= m
    <3> HIDE DEF Mine
    <3> QED
      BY <2>1, <2>n, Greatest
  <2>3. Last(m)
    BY <2>2
  <2>4. s[m] \in rows /\ key[s[m]] = key[r]
    BY <1>1, <2>3
  <2>5. s[m] = r
    BY <1>2, <2>4 DEF TableInv, RowsAreEvents
  <2> QED
    BY <2>3, <2>5
<1> QED
  BY <1>1, <1>2 DEF LastOfKeys

(* How many events g has been through since its reader started; one that has rejoined
   starts over with its next fetch. *)
Through(g) ==
    CASE pc[g] = "stopped" -> 0
      [] pc[g] = "handle"  -> cur[g].offset
      [] pc[g] = "commit"  -> cur[g].offset + 1
      [] OTHER             -> position[g][0]

(* A loop goes one event further when its handler accepts one, and otherwise stays where it
   is or starts over: then it resumes at offset 0 or, after any commit, at offset 1. *)
LEMMA ThroughStep ==
    ASSUME SinglePartition, TypeOK, LoopInv, [Next]_vars, NEW g \in Groups
    PROVE  \/ /\ HandleOk(g)
              /\ Through(g) = cur[g].offset /\ Through(g)' = Through(g) + 1
              /\ done'[g][0] = done[g][0] \union {cur[g].offset}
           \/ Through(g)' \in {Through(g), 0, 1} /\ done'[g] = done[g]
<1> USE DEF Through
<1>g. GroupInv(g)
  BY DEF LoopInv
<1>t. /\ cur[g] \in Coordinates /\ cur[g].partition = 0 /\ cur[g].offset \in Nat
      /\ position[g] \in [{0} -> Nat] /\ done[g] \in [{0} -> SUBSET Nat]
      /\ pc[g] \in Places
  BY DEF TypeOK, Coordinates, SinglePartition
<1>1. ASSUME NEW t \in Topics, NEW p \in Partitions, NEW m \in Messages, Publish(t, p, m)
      PROVE  Through(g)' = Through(g) /\ done'[g] = done[g]
  BY <1>1 DEF Publish, loopVars
<1>2. ASSUME NEW h \in Groups, NEW p \in Partitions, Fetch(h, p)
      PROVE  Through(g)' = Through(g) /\ done'[g] = done[g]
  <2>1. CASE h = g
    BY <1>2, <1>t, <2>1 DEF Fetch, TypeOK, SinglePartition
  <2>2. CASE h # g
    BY <1>2, <2>2 DEF Fetch, TypeOK
  <2> QED
    BY <2>1, <2>2
<1>3. ASSUME NEW h \in Groups, h # g, HandleOk(h)
      PROVE  Through(g)' = Through(g) /\ done'[g] = done[g]
  BY <1>3 DEF HandleOk, HandleStep, TypeOK
<1>4. ASSUME HandleOk(g)
      PROVE  /\ Through(g) = cur[g].offset /\ Through(g)' = Through(g) + 1
             /\ done'[g][0] = done[g][0] \union {cur[g].offset}
  <2>1. pc[g] = "handle" /\ pc'[g] = "commit" /\ position' = position
    BY <1>4 DEF HandleOk, HandleStep, TypeOK
  <2>2. cur' = cur
    BY <1>4 DEF HandleOk, HandleStep
  <2>3. done'[g][0] = done[g][0] \union {cur[g].offset}
    BY <1>4, <1>t DEF HandleOk, HandleStep, TypeOK
  <2> QED
    BY <2>1, <2>2, <2>3
<1>5. ASSUME NEW h \in Groups, CommitOk(h)
      PROVE  Through(g)' \in {Through(g), 0, 1} /\ done'[g] = done[g]
  <2>1. pc' = [pc EXCEPT ![h] = "fetch"] /\ pc[h] = "commit"
        /\ UNCHANGED <<position, cur, done>>
    BY <1>5 DEF CommitOk
  <2>2. CASE h = g
    <3>1. position[g][0] \in {cur[g].offset + 1, 0, 1}
      BY <1>g, <2>1, <2>2 DEF GroupInv, CommitInv, StartsOver
    <3> QED
      BY <1>t, <2>1, <2>2, <3>1 DEF TypeOK
  <2>3. CASE h # g
    BY <2>1, <2>3 DEF TypeOK
  <2> QED
    BY <2>2, <2>3
<1>6. ASSUME NEW h \in Groups, HandlePoison(h) \/ CommitUnanswered(h) \/ Stop(h)
      PROVE  Through(g)' \in {Through(g), 0} /\ done'[g] = done[g]
  <2>1. StopProcess(h) /\ UNCHANGED <<position, cur, done>>
    BY <1>6 DEF HandlePoison, CommitUnanswered, Stop
  <2>2. pc'[g] \in {pc[g], "stopped"}
    BY <2>1 DEF StopProcess
  <2> QED
    BY <2>1, <2>2
<1>7. ASSUME NEW h \in Groups, Restart(h)
      PROVE  Through(g)' \in {Through(g), 0, 1} /\ done'[g] = done[g]
  <2>1. UNCHANGED <<cur, done>>
    BY <1>7 DEF Restart
  <2>2. CASE ProcessOf[g] = ProcessOf[h]
    <3>1. pc'[g] = "fetch" /\ position'[g] = committed[g]
      BY <1>7, <2>2 DEF Restart
    <3> QED
      BY <1>g, <2>1, <3>1 DEF GroupInv, CommittedInv
  <2>3. CASE ProcessOf[g] # ProcessOf[h]
    BY <1>7, <2>1, <2>3 DEF Restart
  <2> QED
    BY <2>2, <2>3
<1>8. ASSUME NEW h \in Groups, Rejoin(h)
      PROVE  Through(g)' \in {Through(g), 0, 1} /\ done'[g] = done[g]
  <2>1. UNCHANGED <<pc, cur, done>>
    BY <1>8 DEF Rejoin
  <2>2. CASE h = g
    <3>1. position'[g] = committed[g]
      BY <1>8, <2>2 DEF Rejoin, TypeOK
    <3> QED
      BY <1>g, <2>1, <3>1 DEF GroupInv, CommittedInv
  <2>3. CASE h # g
    BY <1>8, <2>1, <2>3 DEF Rejoin, TypeOK
  <2> QED
    BY <2>2, <2>3
<1>9. CASE UNCHANGED vars
  BY <1>9 DEF vars, loopVars
<1> QED
  BY <1>1, <1>2, <1>3, <1>4, <1>5, <1>6, <1>7, <1>8, <1>9 DEF Next

(* A loop has not been through more events than its log has. *)
LEMMA ThroughBounded ==
    ASSUME SinglePartition, TypeOK, LoopInv, NEW g \in Groups
    PROVE  Through(g) \in Nat /\ Through(g) <= Len(LogOf(g)[0])
<1>g. GroupInv(g)
  BY DEF LoopInv
<1>t. /\ cur[g].offset \in Nat /\ position[g][0] \in Nat /\ pc[g] \in Places
      /\ done[g][0] \subseteq Nat
  BY DEF TypeOK, Coordinates, SinglePartition
<1>l. Len(LogOf(g)[0]) \in Nat
  BY LogLength
<1>1. CASE pc[g] = "stopped"
  BY <1>1, <1>l DEF Through
<1>2. CASE pc[g] = "handle"
  BY <1>2, <1>g, <1>l, <1>t DEF Through, GroupInv, HandleInv
<1>3. CASE pc[g] = "fetch"
  <2>1. position[g][0] = 0 \/ position[g][0] - 1 \in done[g][0]
    BY <1>3, <1>g, <1>t DEF GroupInv, FetchInv
  <2> QED
    BY <1>3, <1>g, <1>l, <1>t, <2>1 DEF Through, GroupInv, DoneInv
<1>4. CASE pc[g] = "commit"
  <2>1. cur[g].offset \in done[g][0]
    BY <1>4, <1>g, <1>t DEF GroupInv, CommitInv
  <2> QED
    BY <1>4, <1>g, <1>l, <1>t, <2>1 DEF Through, GroupInv, DoneInv
<1> QED
  BY <1>1, <1>2, <1>3, <1>4, <1>t DEF Places

(* A step that leaves g's table alone keeps what is known of it: the log may have grown and
   the reader may have started over. *)
LEMMA TableUntouched ==
    ASSUME SinglePartition, TypeOK, LoopInv, [Next]_vars, NEW g \in Groups, ~HandleOk(g),
           NEW key, NEW rows, TableInv(LogOf(g)[0], key, rows, done[g][0], Through(g))
    PROVE  TableInv(LogOf(g)'[0], key, rows, done'[g][0], Through(g)')
<1> DEFINE n == Through(g)
           m == Through(g)'
           s == LogOf(g)[0]
           t == LogOf(g)'[0]
           accepted == done[g][0]
<1>0. TypeOK'
  BY TypeInductive
<1>1. s \in Seq(Messages) /\ t \in Seq(Messages)
  BY <1>0, LoopAssumption DEF TypeOK, LogOf
<1>2. \A i \in DOMAIN s : i \in DOMAIN t /\ t[i] = s[i]
  BY LogGrows, LoopAssumption DEF LogOf
<1>3. m \in {n, 0, 1} /\ done'[g] = done[g]
  BY ThroughStep
<1>4. n \in Nat /\ n <= Len(s)
  BY ThroughBounded
<1>5. TableInv(s, key, rows, accepted, n)
  OBVIOUS
<1> HIDE DEF n, m, s, t, accepted
<1>6. TableInv(t, key, rows, accepted, m)
  BY <1>1, <1>2, <1>3, <1>4, <1>5, TableWaits
<1> QED
  BY <1>3, <1>6 DEF t, accepted, m

(* When g's handler accepts an event by putting it in the place of the row with its key, the
   table goes one event further. *)
LEMMA TableAccepts ==
    ASSUME SinglePartition, TypeOK, LoopInv, [Next]_vars, NEW g \in Groups, HandleOk(g),
           NEW key, NEW rows, TableInv(LogOf(g)[0], key, rows, done[g][0], Through(g))
    PROVE  TableInv(LogOf(g)'[0], key,
                    {r \in rows : key[r] # key[PayloadAt(g, cur[g])]}
                        \union {PayloadAt(g, cur[g])},
                    done'[g][0], Through(g)')
<1> DEFINE n == Through(g)
           s == LogOf(g)[0]
           accepted == done[g][0]
<1>0. pc[g] = "handle" /\ pc'[g] = "commit" /\ UNCHANGED <<log, cur>>
  BY DEF HandleOk, HandleStep, TypeOK
<1>1. s \in Seq(Messages) /\ Len(s) \in Nat /\ LogOf(g)'[0] = s
  BY <1>0, LogLength DEF LogOf
<1>2. /\ cur[g].partition = 0 /\ cur[g].offset \in Nat
      /\ n = cur[g].offset /\ n < Len(s)
  BY <1>0 DEF TypeOK, Coordinates, SinglePartition, LoopInv, GroupInv, HandleInv, Through
<1>3. n + 1 = Through(g)'
  BY <1>0, <1>2 DEF Through
<1>4. done'[g][0] = accepted \union {n}
  BY <1>2 DEF HandleOk, HandleStep, TypeOK, SinglePartition
<1>5. PayloadAt(g, cur[g]) = s[n + 1]
  BY <1>2 DEF PayloadAt
<1>6. TableInv(s, key, rows, accepted, n)
  OBVIOUS
<1> HIDE DEF n, s, accepted
<1>7. TableInv(s, key, {r \in rows : key[r] # key[s[n + 1]]} \union {s[n + 1]},
               accepted \union {n}, n + 1)
  BY <1>1, <1>2, <1>6, TableUpsert
<1> QED
  BY <1>1, <1>3, <1>4, <1>5, <1>7

(* A loop that is back at Fetch with nothing left to read has the last event of every key
   in its table. *)
LEMMA TableOfCaughtUpLoop ==
    ASSUME SinglePartition, TypeOK, LoopInv, NEW g \in Groups, pc[g] = "fetch",
           position[g][0] = Len(LogOf(g)[0]),
           NEW key, NEW rows, TableInv(LogOf(g)[0], key, rows, done[g][0], Through(g))
    PROVE  rows = LastOfKeys(LogOf(g)[0], key)
<1>1. LogOf(g)[0] \in Seq(Messages) /\ Through(g) = Len(LogOf(g)[0])
  BY LogLength DEF Through
<1>2. \A o \in 0..(Len(LogOf(g)[0]) - 1) : o \in done[g][0]
  BY DEF LoopInv, GroupInv, FetchInv
<1> DEFINE s == LogOf(g)[0]
           accepted == done[g][0]
<1>3. TableInv(s, key, rows, accepted, Len(s))
  BY <1>1
<1> HIDE DEF s, accepted
<1> QED
  BY <1>1, <1>2, <1>3, TableCaughtUp DEF s, accepted

=============================================================================
