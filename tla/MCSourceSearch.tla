--------------------------- MODULE MCSourceSearch ---------------------------
(***************************************************************************)
(* An instance of SourceSearch: the four clients and a little web.  vc's   *)
(* feed is also read as a source of its own, so that both find the same    *)
(* articles under different addresses and ids; one vc page has two entries *)
(* in its state; one habr page has no title; one dzen page is stale and    *)
(* one is not there.                                                       *)
(***************************************************************************)
EXTENDS SourceSearch

Url(prefix, site, path, mark) == [prefix |-> prefix, site |-> site, path |-> path, query |-> mark]

Vc1 == Url("", "vc", "1", "")
Vc2 == Url("", "vc", "2", "")
Vc3 == Url("", "vc", "3", "")
Habr1 == Url("", "habr", "1", "")
Habr2 == Url("", "habr", "2", "")
Dzen1 == Url("", "dzen", "a/1", "")
Dzen2 == Url("", "dzen", "a/2", "")
Dzen3 == Url("", "dzen", "a/3", "")
Dzen4 == Url("", "dzen", "a/4", "")

MCUrls == [prefix : {"", "www.", "m."}, site : {"", "vc", "habr", "dzen"},
           path : {"", "1", "2", "3", "a/1", "a/2", "a/3", "a/4", "login"}, query : {"", "utm", "page"}]
MCTitles == {"", "habr one", "habr two", "vc one", "vc three", "dzen one", "dzen two", "dzen three",
             "a long common title"}

Told(url, title, date) == [url |-> url, title |-> title, date |-> date]
Plain(title, date, score) ==
    [entries |-> {}, data |-> NoArticle, canonical |-> NoUrl, title |-> title, date |-> date, score |-> score]

MCPage ==
    (Vc1 :> [Plain("vc one", 0, 1) EXCEPT !.entries = {Told(Url("", "vc", "1", "utm"), "vc one", 5)}])
 @@ (Vc2 :> [Plain("", 0, 0) EXCEPT !.entries = {Told(Vc2, "a long common title", 0), Told(Vc1, "vc one", 0)}])
 @@ (Vc3 :> [Plain("vc three", 0, 2) EXCEPT !.data = Told(NoUrl, "vc three", 6)])
 @@ (Habr1 :> Plain("a long common title", 4, 2))
 @@ (Habr2 :> Plain("", 0, 1))
 @@ (Dzen1 :> Plain("dzen one", 7, 0))
 @@ (Dzen2 :> [Plain("dzen two", 1, 2) EXCEPT !.canonical = Dzen2])
 @@ (Dzen3 :> [Plain("", 0, 1) EXCEPT !.data = Told(Url("", "dzen", "a/3", "page"), "dzen three", 8)])

Item(guid, link, title, date, score, matches) ==
    [guid |-> guid, link |-> link, title |-> title, date |-> date, score |-> score, matches |-> matches]

MCSourceOrder == <<"habr", "vc", "dzen", "vc_rss">>
MCKind == [habr |-> "habr", vc |-> "vc", dzen |-> "dzen", vc_rss |-> "rss"]

MCFeeds ==
    [habr   |-> {<<Item(NoUrl, Habr1, "habr one", 0, 0, TRUE)>>,
                 <<Item(NoUrl, Habr1, "habr one", 0, 0, TRUE), Item(NoUrl, Habr2, "habr two", 2, 1, TRUE)>>},
     vc     |-> {<< >>, <<Item(Vc3, Url("www.", "vc", "3", "utm"), "vc three", 0, 1, TRUE)>>},
     dzen   |-> {},
     vc_rss |-> {<<Item(NoUrl, Url("www.", "vc", "1", "utm"), "vc one", 5, 1, TRUE),
                   Item(NoUrl, Vc2, "", 0, 1, FALSE),
                   Item(NoUrl, Vc3, "vc three", 6, 2, TRUE)>>}]

Hit(u) == [entry |-> TRUE, url |-> u]
MCDiscoveryPages ==
    {[items |-> <<Hit(Url("", "vc", "1", "page")), [entry |-> FALSE, url |-> Vc2]>>, more |-> TRUE],
     [items |-> <<Hit(Vc2)>>, more |-> FALSE],
     [items |-> << >>, more |-> TRUE]}

MCWebAnswers == {<<Url("www.", "vc", "1", "page"), Url("m.", "vc", "2", ""), Vc3>>}

MCDzenPages ==
    {[links |-> <<Url("", "dzen", "a/1", "page"), Url("", "dzen", "login", ""), Dzen1, Dzen2>>, more |-> TRUE],
     [links |-> <<Dzen1, Dzen3, Dzen4>>, more |-> TRUE]}

Ask(sources, limit, from) ==
    [sources |-> sources, limit |-> limit, from |-> from, to |-> 7, terms |-> limit # 3]
MCQueries ==
    {Ask(<<"habr", "vc_rss">>, 2, 0), Ask(<<"vc", "vc_rss">>, 2, 3), Ask(<<"dzen", "vc_rss">>, 2, 0),
     Ask(<<"vc_rss", "vc_rss">>, 3, 0), Ask(<< >>, 3, 0)}

=============================================================================
