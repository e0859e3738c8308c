--------------------------- MODULE MCRankingFeed ---------------------------
(***************************************************************************)
(* An instance of RankingFeed: two articles of different sources.          *)
(***************************************************************************)
EXTENDS RankingFeed

MCGroups == {"ranking", "signals", "feed"}
MCTopics == {"discovered", "reaction", "scored"}
MCTopicOf == [ranking |-> "discovered", signals |-> "reaction", feed |-> "scored"]
MCProcessOf ==
    [ranking |-> "ranking-service", signals |-> "ranking-service", feed |-> "feed-service"]
MCPoison == [g \in MCGroups |-> {}]
MCArticles == {"habr:1", "vc:1"}
MCSources == {"habr", "vc"}
MCSourceOf == [a \in MCArticles |-> IF a = "habr:1" THEN "habr" ELSE "vc"]
MCBoosted == {"habr"}

(* A reaction that takes scores down to the clamp at 0, and a type no service supports. *)
MCReactionTypes == {"dislike", "share"}

MCMessages ==
    [article : MCArticles, tags : SUBSET Tags]
    \union [article : MCArticles, type : MCReactionTypes, shown : BOOLEAN]
    \union [article : MCArticles, score : 0..18, signals : BOOLEAN]

=============================================================================
