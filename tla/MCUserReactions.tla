-------------------------- MODULE MCUserReactions --------------------------
(***************************************************************************)
(* An instance of UserReactions: one reader, reactions of two types at two *)
(* times, profiles with and without email and interests.                   *)
(***************************************************************************)
EXTENDS UserReactions

MCGroups == {"user"}
MCTopics == {"reaction"}
MCTopicOf == [user |-> "reaction"]
MCProcessOf == [user |-> "user-service"]
MCPoison == [user |-> {}]
MCMessages == [user : Users, article : Articles, type : ReactionTypes, at : Times]

=============================================================================
