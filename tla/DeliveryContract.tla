--------------------------- MODULE DeliveryContract ---------------------------
(***************************************************************************)
(* What the consuming services rely on, with no reader, offset, crash or   *)
(* restart in sight: messages are appended to partitions, and a group's    *)
(* handler accepts the messages of a partition one after the other,        *)
(* leaving none out.  A message may be handed over again after that; the   *)
(* contract does not see it.                                               *)
(***************************************************************************)
EXTENDS Integers, Sequences

CONSTANTS Groups, Topics, TopicOf, Partitions, Messages

VARIABLES log, done

contractVars == <<log, done>>

Init ==
    /\ log = [t \in Topics |-> [p \in Partitions |-> << >>]]
    /\ done = [g \in Groups |-> [p \in Partitions |-> {}]]

Publish(t, p, m) ==
    /\ log' = [log EXCEPT ![t][p] = Append(@, m)]
    /\ UNCHANGED done

(* g's handler accepts offset o of partition p for the first time: it has accepted every
   earlier offset, and o is an offset of the partition. *)
Deliver(g, p, o) ==
    /\ o \notin done[g][p]
    /\ \A q \in 0..(o - 1) : q \in done[g][p]
    /\ done' = [done EXCEPT ![g][p] = @ \union {o}]
    /\ UNCHANGED log

Next ==
    \/ \E t \in Topics, p \in Partitions, m \in Messages : Publish(t, p, m)
    \/ \E g \in Groups, p \in Partitions :
          \E o \in 0..(Len(log[TopicOf[g]][p]) - 1) : Deliver(g, p, o)

Spec == Init /\ [][Next]_contractVars

=============================================================================
