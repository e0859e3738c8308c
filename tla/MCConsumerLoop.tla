--------------------------- MODULE MCConsumerLoop ---------------------------
(***************************************************************************)
(* Instances of ConsumerLoop: the two loops of ranking-service, which      *)
(* share a process, and one of a service of its own.                       *)
(***************************************************************************)
EXTENDS ConsumerLoop

MCGroups == {"article", "ranking", "reactions"}
MCTopics == {"discovered", "reaction"}
MCTopicOf == [article |-> "discovered", ranking |-> "discovered", reactions |-> "reaction"]
MCProcessOf ==
    [article |-> "article-service", ranking |-> "ranking-service",
     reactions |-> "ranking-service"]
MCMessages == {"good", "bad"}

(* A message article-service can store and ranking-service cannot score does not exist in
   the code; the reverse does, so "bad" is poison for article-service only. *)
MCPoison == [article |-> {"bad"}, ranking |-> {}, reactions |-> {}]

=============================================================================
