---------------------------- MODULE MCGatewayFeed ----------------------------
(***************************************************************************)
(* Instances of GatewayFeed: two stored articles of one source, which      *)
(* match as well as each other, and an older one of another source to      *)
(* come.  Events may say of those that are stored that they are as they    *)
(* were, older, or do not match.                                           *)
(***************************************************************************)
EXTENDS GatewayFeed

Recent == [rank |-> 1, date |-> 2]
Older == [rank |-> 1, date |-> 1]
NoMatch == [rank |-> 0, date |-> 2]

MCArticles == {"a", "b", "c"}
MCStoredFirst == <<"a", "b">>
MCSourceOf == [a |-> "habr", b |-> "habr", c |-> "vc"]
MCFirstVersion == [a |-> Recent, b |-> Recent, c |-> Older]
MCVersions == [a |-> {Recent, NoMatch}, b |-> {Older, NoMatch}, c |-> {Older}]
MCScoreOf == [a |-> 2, b |-> 2, c |-> 1]
MCDateOf == [a |-> 1, b |-> 3, c |-> 2]
Symmetry == Permutations(Users)

=============================================================================
