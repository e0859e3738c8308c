-------------------------- MODULE MCArticleIngest --------------------------
(***************************************************************************)
(* An instance of ArticleIngest: an article of vc and one of vc_rss, two   *)
(* URLs and two versions, so that ids can share a URL and move to another. *)
(***************************************************************************)
EXTENDS ArticleIngest

MCGroups == {"article"}
MCTopics == {"discovered"}
MCTopicOf == [article |-> "discovered"]
MCProcessOf == [article |-> "article-service"]
MCPoison == [article |-> {}]
MCIds == {"vc:1", "vc_rss:1"}
MCUrls == {"u1", "u2"}
MCMessages == [id : Ids, url : Urls, version : Versions]

=============================================================================
