---------------------------- MODULE SourceSearch ----------------------------
(***************************************************************************)
(* parser-service: one search.  SearchAndPublish asks the selected sources *)
(* one after the other, each through its own client, drops what it does    *)
(* not want, sorts the rest, merges the sources by turns and publishes the *)
(* result.  The clients request listings and article pages over HTTP; any  *)
(* request may fail, and every client has its own answer to that:          *)
(*                                                                         *)
(*   habr  RSS search, then every article page; a request is tried         *)
(*         MaxAttempts times, and one page that is not to be had fails the *)
(*         source;                                                         *)
(*   vc    URLs from a searcher, page by page, then the articles that can  *)
(*         be had; with nothing to show, the RSS feed instead;             *)
(*   dzen  search pages, then the articles, fetched by a pool of workers;  *)
(*   rss   a feed, filtered by the terms of the query.                     *)
(*                                                                         *)
(* What the web holds is a constant; which requests are answered is not.   *)
(* How a job runs searches, and faults of the broker, are in ParserJobs.   *)
(***************************************************************************)
EXTENDS Integers, Sequences, SequencesExt, RoundRobin

CONSTANTS
    SourceOrder,     \* the parsers, in the order of the registry
    Kind,            \* Kind[s]: the client of source s, "habr", "vc", "dzen" or "rss"
    EnabledSources,  \* the sources that are enabled when the search begins
    Providers,       \* vc's URL searchers: "discovery", "web" (Google, Bing) or "none"
    Queries,         \* what is searched
    Urls,            \* the URLs there are
    Titles,          \* the titles there are
    Page,            \* Page[u]: the article page at the clean URL u
    Feeds,           \* Feeds[s]: what the feed (habr: the RSS search) of s may hold
    DiscoveryPages,  \* what a request of vc's search may be answered with
    WebAnswers,      \* what a web search engine may be answered with
    MaxLinks,        \* the most links in such an answer
    DzenPages,       \* what a request of dzen's search may be answered with
    ArticlePaths,    \* the paths below /a/ and /media/: dzen's articles
    LongTitles,      \* titles of at least four words of three letters
    OldDate,         \* dzen articles of this date or earlier are stale
    MaxAttempts,     \* habr: requests for a page (3)
    MaxSearchPages,  \* dzen: search pages of a search (4)
    TargetSlack,     \* dzen: addresses collected beyond the limit (10)
    MaxWorkers       \* dzen: workers of the pool (4)

Sources == Range(SourceOrder)
Workers == 1..MaxWorkers

(* A URL: "www." or "m.", the site, the path, and whether the query is a tracking mark. *)
NoUrl == [prefix |-> "", site |-> "", path |-> "", query |-> ""]

(* cleanURL: no query, no fragment. *)
CleanUrl(u) == [u EXCEPT !.query = ""]

(* normalizeCandidateURL: no "www.", no "m.", no tracking parameters. *)
NormalizeUrl(u) == [u EXCEPT !.prefix = "", !.query = IF u.query = "utm" THEN "" ELSE u.query]

(* The servers do not tell hosts and queries of one article apart. *)
Address(u) == [u EXCEPT !.prefix = "", !.query = ""]

(* A path on its own. *)
PathOf(u) == [NoUrl EXCEPT !.path = u.path]

(* An article as a page tells of it, and a candidate of the search. *)
Article == [url : Urls, title : Titles, date : Nat]
Ids == [kind : {"plain", "sha1", "path", "candidate"}, of : Urls]
Candidates ==
    [source : Sources, id : Ids, url : Urls, title : Titles, date : Nat, score : Int]

(* A query names sources, or none for all; dates 0: not given.  There is one vc and one dzen
   among the parsers of the registry. *)
ASSUME SearchAssumption ==
    /\ SourceOrder \in Seq(Sources)
    /\ EnabledSources \subseteq Sources
    /\ \A s \in Sources : Kind[s] \in {"habr", "vc", "dzen", "rss"} /\ (Kind[s] \in {"vc", "dzen"} => Kind[s] = s)
    /\ Providers \subseteq {"discovery", "web", "none"}
    /\ Queries \subseteq [sources : Seq(Sources), limit : 1..100, from : Nat, to : Nat, terms : BOOLEAN]
    /\ OldDate \in Nat /\ MaxLinks \in Nat
    /\ {MaxAttempts, MaxSearchPages, TargetSlack, MaxWorkers} \subseteq Nat \ {0}

(* What the web holds. *)
ASSUME WebHolds ==
    /\ NoUrl \in Urls /\ \A u \in Urls : {CleanUrl(u), NormalizeUrl(u), PathOf(u)} \subseteq Urls
    /\ "" \in Titles /\ LongTitles \subseteq Titles
    /\ \A u \in DOMAIN Page :
          Page[u] \in [entries : SUBSET Article, data : Article, canonical : Urls, title : Titles,
                       date : Nat, score : Int]
    /\ \A s \in Sources : Feeds[s] \subseteq
          Seq([guid : Urls, link : Urls, title : Titles, date : Nat, score : Int, matches : BOOLEAN])
    /\ DiscoveryPages \subseteq [items : Seq([entry : BOOLEAN, url : Urls]), more : BOOLEAN]
    /\ WebAnswers \subseteq Seq(Urls) /\ \A links \in WebAnswers : Len(links) <= MaxLinks
    /\ DzenPages \subseteq [links : Seq(Urls), more : BOOLEAN]

VARIABLES
    query,     \* the query of the search
    provider,  \* the URL searcher vc is configured with
    todo,      \* the sources still to search; the first is being searched
    place,     \* where the search is
    work,      \* what the client at work keeps
    pool,      \* dzen: the workers and their results
    seen,      \* seenCandidates: the keys of what was let through
    buckets,   \* what the sources contribute
    stats,     \* a record per source searched
    lastErr,   \* a source has failed
    result,    \* the merged candidates
    sent       \* how many of them are published

clientVars == <<place, work, pool>>
searchVars == <<query, provider, todo, seen, buckets, stats, lastErr, result, sent>>
vars == <<clientVars, searchVars>>

(* attempt: of a request; urls: addresses collected; found: candidates; next: the article to
   request; pages: search pages read; err: the URL search failed; requests: a history. *)
NewWork == [attempt |-> 1, urls |-> << >>, found |-> << >>, next |-> 1, pages |-> 0,
            err |-> FALSE, requests |-> 0]

(* given: addresses handed to workers; busy: the address a worker is at, 0 for none; results:
   the channel of results, in the order in which the workers sent them. *)
NewPool == [given |-> 0, busy |-> [w \in Workers |-> 0], results |-> << >>]

FirstNonEmpty(values, empty) ==
    IF \E i \in DOMAIN values : values[i] # empty
    THEN values[CHOOSE i \in DOMAIN values : values[i] # empty /\ \A j \in 1..(i - 1) : values[j] = empty]
    ELSE empty

-----------------------------------------------------------------------------
(* Article pages.  A page has a state script with entries, structured data, a canonical link,
   and a title and a date of its own; any of them may be missing. *)

NoArticle == [url |-> NoUrl, title |-> "", date |-> 0]

(* Article.Validate. *)
Valid(a) == a.url # NoUrl /\ a.title # ""

(* habr: title and date of the page; the URL is the one asked for. *)
HabrArticle(u) ==
    LET page == Page[Address(u)]
    IN  [url |-> u, title |-> page.title, date |-> page.date, score |-> page.score]

(* parseStructuredArticle of vc: the article among the structured data of the page. *)
VcData(u) == Page[Address(u)].data

(* vc: an entry of the state script comes first, whichever a map gives first; the id is taken
   from the URL as it is written, query included. *)
VcArticle(u, entry) ==
    LET page == Page[Address(u)]
        data == VcData(u)
        at   == FirstNonEmpty(<<entry.url, data.url, page.canonical, u>>, NoUrl)
    IN  [source |-> "vc",
         id     |-> [kind |-> "sha1", of |-> at],
         url    |-> CleanUrl(at),
         title  |-> FirstNonEmpty(<<entry.title, data.title, page.title>>, ""),
         date   |-> FirstNonEmpty(<<entry.date, data.date>>, 0),
         score  |-> page.score]

VcEntries(u) ==
    LET entries == Page[Address(u)].entries IN IF entries = {} THEN {NoArticle} ELSE entries

(* parseStructuredArticle and parseEmbeddedDzenPublishedAt of dzen: the article among the
   structured data of the page, and the first date found in a script. *)
DzenData(u) == Page[Address(u)].data
EmbeddedDate(u) == Page[Address(u)].date

(* dzen: structured data first; the id is the path. *)
DzenArticle(u) ==
    LET page == Page[Address(u)]
        data == DzenData(u)
        at   == CleanUrl(FirstNonEmpty(<<data.url, page.canonical, u>>, NoUrl))
    IN  [source |-> "dzen",
         id     |-> [kind |-> "path", of |-> PathOf(at)],
         url    |-> at,
         title  |-> FirstNonEmpty(<<data.title, page.title>>, ""),
         date   |-> FirstNonEmpty(<<data.date, EmbeddedDate(u)>>, 0),
         score  |-> page.score]

(* isStaleArticle: an article without a date is not stale. *)
Stale(a) == a.date # 0 /\ a.date <= OldDate

(* The candidate of a feed's item: its id is the GUID, or the link. *)
FeedCandidate(s, item) ==
    [source |-> s,
     id     |-> [kind |-> "plain", of |-> FirstNonEmpty(<<item.guid, item.link>>, NoUrl)],
     url    |-> item.link, title |-> item.title, date |-> item.date, score |-> item.score]

Cut(list, limit) == SubSeq(list, 1, Min({limit, Len(list)}))

(* habr, candidatesFromEvents: the first items of the feed. *)
HabrCandidates(s, feed) ==
    LET all == [i \in DOMAIN feed |-> FeedCandidate(s, feed[i])] IN Cut(all, query.limit)

(* matchesTerms: an item matches a term of the query, or there is no meaningful term. *)
Matches(item) == item.matches \/ ~query.terms

(* rssfeed: the first items that match. *)
RssCandidates(s, feed) ==
    LET matching == Keep(feed, {item \in Range(feed) : Matches(item)})
        all      == [i \in DOMAIN matching |-> FeedCandidate(s, matching[i])]
    IN  Cut(all, query.limit)

(* What an article page adds to a candidate: its text, and title and date if it has them. *)
Enriched(c, a) ==
    [c EXCEPT !.title = FirstNonEmpty(<<a.title, @>>, ""),
              !.date = FirstNonEmpty(<<a.date, @>>, 0),
              !.score = a.score]

(* The elements of a list, each where it first occurs. *)
Once(list) ==
    LET first == Ascending({i \in DOMAIN list : \A j \in 1..(i - 1) : list[j] # list[i]})
    IN  [k \in DOMAIN first |-> list[first[k]]]

(* urls, and the new ones among more, which has none twice, up to limit of them. *)
AppendNew(urls, more, limit) ==
    urls \o Cut(Keep(more, Range(more) \ Range(urls)), limit - Len(urls))

-----------------------------------------------------------------------------
(* selectedSources: the enabled ones of those asked for, or of all. *)
SelectedSources(q) ==
    Keep(IF q.sources = << >> THEN SourceOrder ELSE q.sources, EnabledSources)

(* Where the search of the first of the sources begins; behind the last comes the merge. *)
Start(sources, p) ==
    CASE sources = << >>               -> "merge"
      [] OTHER ->
         CASE Kind[Head(sources)] = "habr" -> "habr_feed"
           [] Kind[Head(sources)] = "vc"   -> IF p = "none" THEN "vc_feed" ELSE "vc_urls"
           [] Kind[Head(sources)] = "dzen" -> "dzen_search"
           [] Kind[Head(sources)] = "rss"  -> "rss_feed"

SearchInit ==
    /\ query \in Queries
    /\ provider \in Providers
    /\ todo = SelectedSources(query)
    /\ place = Start(todo, provider)
    /\ work = NewWork
    /\ pool = NewPool
    /\ seen = {}
    /\ buckets = << >>
    /\ stats = << >>
    /\ lastErr = FALSE
    /\ result = << >>
    /\ sent = 0

Source == Head(todo)
Requested == [work EXCEPT !.requests = @ + 1]
Go(there) == place' = there

-----------------------------------------------------------------------------
(* habr *)

HabrFeed ==
    /\ place = "habr_feed"
    /\ \E feed \in Feeds[Source] :
          work' = [Requested EXCEPT !.found = HabrCandidates(Source, feed), !.attempt = 1]
    /\ Go("habr_article")
    /\ UNCHANGED <<pool, searchVars>>

(* Mutant: one attempt too many. *)
HabrRequestFailsOnceMore ==
    /\ place = "habr_feed" \/ (place = "habr_article" /\ work.next <= Len(work.found))
    /\ IF work.attempt <= MaxAttempts
       THEN work' = [Requested EXCEPT !.attempt = @ + 1] /\ UNCHANGED place
       ELSE work' = Requested /\ Go("failed")
    /\ UNCHANGED <<pool, searchVars>>

(* get: a failed request is tried again; the last failure fails the source. *)
HabrRequestFails ==
    /\ place = "habr_feed" \/ (place = "habr_article" /\ work.next <= Len(work.found))
    /\ IF work.attempt < MaxAttempts
       THEN work' = [Requested EXCEPT !.attempt = @ + 1] /\ UNCHANGED place
       ELSE work' = Requested /\ Go("failed")
    /\ UNCHANGED <<pool, searchVars>>

(* The body is not a feed: that is not tried again. *)
HabrFeedUnreadable ==
    /\ place = "habr_feed"
    /\ work' = Requested
    /\ Go("failed")
    /\ UNCHANGED <<pool, searchVars>>

(* The page of the next candidate.  A page without a title is not an article, and fails the
   source. *)
HabrPage ==
    LET c == work.found[work.next]
    IN  /\ place = "habr_article"
        /\ work.next <= Len(work.found)
        /\ Address(c.url) \in DOMAIN Page
        /\ IF Valid(HabrArticle(c.url))
           THEN /\ work' = [Requested EXCEPT !.attempt = 1, !.next = @ + 1,
                                             !.found[work.next] = Enriched(c, HabrArticle(c.url))]
                /\ UNCHANGED place
           ELSE work' = Requested /\ Go("failed")
        /\ UNCHANGED <<pool, searchVars>>

HabrDone ==
    /\ place = "habr_article"
    /\ work.next > Len(work.found)
    /\ Go("collect")
    /\ UNCHANGED <<work, pool, searchVars>>

-----------------------------------------------------------------------------
(* vc *)

(* The clean URLs of the entries of a page of the search. *)
PageEntries ==
    [page \in DiscoveryPages |->
        LET items == Keep(page.items, {i \in Range(page.items) : i.entry /\ i.url # NoUrl})
        IN  Once([i \in DOMAIN items |-> CleanUrl(items[i].url)])]

(* Mutant: the next page is requested while there is one. *)
DiscoveryPageEndless ==
    /\ place = "vc_urls"
    /\ provider = "discovery"
    /\ \E page \in DiscoveryPages :
          LET added == AppendNew(work.urls, PageEntries[page], query.limit)
          IN  /\ work' = [Requested EXCEPT !.urls = added]
              /\ Go(IF ~page.more \/ Len(added) >= query.limit THEN "vc_article" ELSE "vc_urls")
    /\ UNCHANGED <<pool, searchVars>>

(* DiscoverySearcher: the new entries of a page, until there are enough of them, or a page
   holds nothing new, or there is no next page. *)
DiscoveryPage ==
    /\ place = "vc_urls"
    /\ provider = "discovery"
    /\ \E page \in DiscoveryPages :
          LET added == AppendNew(work.urls, PageEntries[page], query.limit)
              ended == added = work.urls \/ ~page.more \/ Len(added) >= query.limit
          IN  /\ work' = [Requested EXCEPT !.urls = added]
              /\ Go(IF ended THEN "vc_article" ELSE "vc_urls")
    /\ UNCHANGED <<pool, searchVars>>

(* filterSiteURLs: the links of an answer to the site, each once. *)
SiteLinks ==
    [links \in WebAnswers |->
        LET onSite == Keep(links, {u \in Range(links) : u.site = "vc" /\ u.prefix \in {"", "www."}})
        IN  Once([i \in DOMAIN onSite |-> CleanUrl(onSite[i])])]

(* Google or Bing: one request. *)
WebSearch ==
    /\ place = "vc_urls"
    /\ provider = "web"
    /\ \E links \in WebAnswers : work' = [Requested EXCEPT !.urls = SiteLinks[links]]
    /\ Go("vc_article")
    /\ UNCHANGED <<pool, searchVars>>

(* The URL search fails, what it had is lost: the feed is tried instead. *)
UrlSearchFails ==
    /\ place = "vc_urls"
    /\ work' = [Requested EXCEPT !.err = TRUE, !.urls = << >>]
    /\ Go("vc_feed")
    /\ UNCHANGED <<pool, searchVars>>

MoreVcPages == work.next <= Len(work.urls) /\ Len(work.found) < query.limit

(* The next article: left out if it is not to be had or no article. *)
VcPage ==
    LET u == work.urls[work.next]
    IN  /\ place = "vc_article"
        /\ MoreVcPages
        /\ \/ /\ Address(u) \in DOMAIN Page
              /\ \E entry \in VcEntries(u) :
                    LET a == VcArticle(u, entry)
                    IN  work' = [Requested EXCEPT !.next = @ + 1,
                                    !.found = IF Valid(a) THEN Append(@, a) ELSE @]
           \/ work' = [Requested EXCEPT !.next = @ + 1]
        /\ UNCHANGED <<place, pool, searchVars>>

(* Articles found by their URLs are the answer; otherwise the feed is tried. *)
VcPagesDone ==
    /\ place = "vc_article"
    /\ ~MoreVcPages
    /\ work' = [work EXCEPT !.next = 1]
    /\ Go(IF work.found # << >> THEN "collect" ELSE "vc_feed")
    /\ UNCHANGED <<pool, searchVars>>

VcFeed ==
    /\ place = "vc_feed"
    /\ \E feed \in Feeds[Source] :
          work' = [Requested EXCEPT !.found = RssCandidates(Source, feed)]
    /\ Go("vc_enrich")
    /\ UNCHANGED <<pool, searchVars>>

(* With no feed either, the source has failed. *)
VcFeedFails ==
    /\ place = "vc_feed"
    /\ work' = Requested
    /\ Go("failed")
    /\ UNCHANGED <<pool, searchVars>>

(* The page of the next item replaces what the feed says, its URL too, but not the id. *)
VcEnrich ==
    LET c == work.found[work.next]
    IN  /\ place = "vc_enrich"
        /\ work.next <= Len(work.found)
        /\ \/ /\ Address(c.url) \in DOMAIN Page
              /\ \E entry \in VcEntries(c.url) :
                    LET a == VcArticle(c.url, entry)
                    IN  work' = [Requested EXCEPT !.next = @ + 1,
                           !.found[work.next] = IF Valid(a) THEN [Enriched(c, a) EXCEPT !.url = a.url]
                                                ELSE c]
           \/ work' = [Requested EXCEPT !.next = @ + 1]
        /\ UNCHANGED <<place, pool, searchVars>>

(* An empty feed is an answer only if the URL search did not fail. *)
VcFeedDone ==
    /\ place = "vc_enrich"
    /\ work.next > Len(work.found)
    /\ Go(IF work.found = << >> /\ work.err THEN "failed" ELSE "collect")
    /\ UNCHANGED <<work, pool, searchVars>>

-----------------------------------------------------------------------------
(* dzen *)

(* searchURLTarget: addresses are collected beyond the limit, as some will be left out. *)
Target == IF query.limit > TargetSlack THEN 2 * query.limit ELSE query.limit + TargetSlack

(* The links of a search page to articles, each once. *)
PageLinks ==
    [page \in DzenPages |->
        LET links == Keep(page.links, {u \in Range(page.links) : u.path \in ArticlePaths})
        IN  Once([i \in DOMAIN links |-> CleanUrl(links[i])])]

(* ParseSearchPage and addURLs: the links of a page, cut at what is still missing, and then the
   new ones among them. *)
AddLinks(urls, page) ==
    AppendNew(urls, Cut(PageLinks[page], Target - Len(urls)), Target)

(* collectSearchURLs: there is a next page, and reason to request it. *)
WantsMore(urls, page, pages) == page.more /\ Len(urls) < Target /\ pages < MaxSearchPages

(* A search page, the first or a further one. *)
DzenSearchPage ==
    /\ place \in {"dzen_search", "dzen_more"}
    /\ \E page \in DzenPages :
          LET urls  == AddLinks(work.urls, page)
              pages == work.pages + 1
          IN  /\ work' = [Requested EXCEPT !.urls = urls, !.pages = pages]
              /\ Go(IF WantsMore(urls, page, pages) THEN "dzen_more" ELSE "dzen_fetch")
    /\ UNCHANGED <<pool, searchVars>>

(* The first request fails, or leads to a login page: the source fails.  A further page that
   fails only ends the collecting. *)
DzenSearchFails ==
    /\ place \in {"dzen_search", "dzen_more"}
    /\ work' = Requested
    /\ Go(IF place = "dzen_search" THEN "failed" ELSE "dzen_fetch")
    /\ UNCHANGED <<pool, searchVars>>

(* fetchCandidates: the next address is handed to a worker that waits for one. *)
GiveAddress(w) ==
    /\ place = "dzen_fetch"
    /\ pool.given < Len(work.urls)
    /\ w <= Len(work.urls)
    /\ pool.busy[w] = 0
    /\ pool' = [pool EXCEPT !.given = @ + 1, !.busy[w] = pool.given + 1]
    /\ UNCHANGED <<place, work, searchVars>>

(* Mutant: a worker ends with its first failure. *)
FetchOrQuit(w) ==
    LET index == pool.busy[w]
    IN  /\ place = "dzen_fetch"
        /\ index # 0
        /\ Address(work.urls[index]) \in DOMAIN Page
        /\ pool' = [pool EXCEPT !.busy[w] = 0,
                       !.results = Append(@, [index |-> index, ok |-> Valid(DzenArticle(work.urls[index]))])]
        /\ work' = Requested
        /\ UNCHANGED <<place, searchVars>>

(* fetchCandidate: the worker has requested its page, and sends the article or that there is
   none. *)
FetchPage(w) ==
    LET index == pool.busy[w]
        there == Address(work.urls[index]) \in DOMAIN Page
    IN  /\ place = "dzen_fetch"
        /\ index # 0
        /\ \E ok \in {FALSE, there /\ Valid(DzenArticle(work.urls[index]))} :
              pool' = [pool EXCEPT !.busy[w] = 0,
                                   !.results = Append(@, [index |-> index, ok |-> ok])]
        /\ work' = Requested
        /\ UNCHANGED <<place, searchVars>>

PoolDone == pool.given = Len(work.urls) /\ \A w \in Workers : pool.busy[w] = 0

(* Mutant: the results are used in the order in which they arrive. *)
AsTheyArrive ==
    /\ place = "dzen_fetch"
    /\ PoolDone
    /\ LET good  == Keep(pool.results, {r \in Range(pool.results) : r.ok})
           all   == [i \in DOMAIN good |-> DzenArticle(work.urls[good[i].index])]
           fresh == Keep(all, {a \in Range(all) : ~Stale(a)})
       IN  work' = [work EXCEPT !.found = Cut(fresh, query.limit)]
    /\ Go("collect")
    /\ UNCHANGED <<pool, searchVars>>

(* All addresses are handed out and all workers are done: the results are put in the order of
   the addresses, and the first that are articles and not stale are the answer. *)
OrderResults ==
    /\ place = "dzen_fetch"
    /\ PoolDone
    /\ LET ordered == [i \in DOMAIN work.urls |->
                          CHOOSE r \in Range(pool.results) : r.index = i]
       IN  \E fresh \in {{i \in DOMAIN ordered :
                             ordered[i].ok /\ ~Stale(DzenArticle(work.urls[i]))}} :
              LET order == Cut(Ascending(fresh), query.limit)
              IN  work' = [work EXCEPT !.found =
                              [k \in DOMAIN order |-> DzenArticle(work.urls[order[k]])]]
    /\ Go("collect")
    /\ UNCHANGED <<pool, searchVars>>

-----------------------------------------------------------------------------
(* rss *)

RssFeed ==
    /\ place = "rss_feed"
    /\ \E feed \in Feeds[Source] :
          work' = [Requested EXCEPT !.found = RssCandidates(Source, feed)]
    /\ Go("collect")
    /\ UNCHANGED <<pool, searchVars>>

RssFeedFails ==
    /\ place = "rss_feed"
    /\ work' = Requested
    /\ Go("failed")
    /\ UNCHANGED <<pool, searchVars>>

-----------------------------------------------------------------------------
(* SearchAndPublish, for each source and then for all of them *)

(* normalizeCandidate: the URL in its normal form, and an id made of it if there is none. *)
Normalized(c) ==
    LET url == NormalizeUrl(c.url)
    IN  [c EXCEPT !.url = url,
                  !.id = IF @.of = NoUrl THEN [kind |-> "candidate", of |-> url] ELSE @]

(* candidateWithinDateRange: without a date it is. *)
WithinDates(c) ==
    c.date # 0 => /\ query.from # 0 => c.date >= query.from
                  /\ query.to # 0 => c.date <= query.to

(* Mutant: pages are told apart by their URLs. *)
UrlKeyOnly(c) == {<<"url", c.url>>}

(* candidateDedupKeys: the URL, the source's id, and the title if it is long. *)
DedupKeys(c) ==
    {<<"url", c.url>>, <<"source", c.source, c.id>>}
        \union (IF c.title \in LongTitles THEN {<<"title", c.title>>} ELSE {})

(* A candidate of a search: with a URL and a title, and within the dates. *)
Wanted(c) == c.url # NoUrl /\ c.title # "" /\ WithinDates(c)

(* kept are the places of what is let through, one candidate after the other: of what is wanted
   and shares no key with what was seen, be it in an earlier source or before in this one. *)
LetThrough(list, kept) ==
    \A i \in DOMAIN list :
        i \in kept <=> /\ Wanted(list[i])
                      /\ DedupKeys(list[i]) \intersect seen = {}
                      /\ \A j \in kept : j < i => DedupKeys(list[j]) \intersect DedupKeys(list[i]) = {}

(* sortScoredCandidates of the candidates at some places: by score, then by date, otherwise as
   found. *)
SortScored(list, places) ==
    LET ahead == [i \in places |-> {j \in places :
                     \/ list[j].score > list[i].score
                     \/ list[j].score = list[i].score /\ list[j].date > list[i].date
                     \/ list[j].score = list[i].score /\ list[j].date = list[i].date /\ j < i}]
        order == InOrder(ahead, places)
    IN  [k \in DOMAIN order |-> list[order[k]]]

Stat(status, found, accepted, filtered) ==
    [source |-> Source, status |-> status, found |-> found, accepted |-> accepted,
     filtered |-> filtered, returned |-> 0, published |-> 0]

NextSource ==
    /\ todo' = Tail(todo)
    /\ Go(Start(Tail(todo), provider))
    /\ work' = NewWork
    /\ pool' = NewPool

(* Mutant: what is kept in reserve and not used is forgotten. *)
CollectUncounted ==
    LET all == [i \in DOMAIN work.found |-> Normalized(work.found[i])]
    IN  /\ place = "collect"
        /\ \E kept \in SUBSET DOMAIN all :
              LET scored  == {i \in kept : all[i].score > 0}
                  chosen  == IF scored = {} THEN kept ELSE scored
                  bucket  == SortScored(all, chosen)
                  dropped == Cardinality(DOMAIN all \ kept)
              IN  /\ LetThrough(all, kept)
                  /\ seen' = seen \union UNION {DedupKeys(all[i]) : i \in kept}
                  /\ buckets' = IF bucket = << >> THEN buckets ELSE Append(buckets, bucket)
                  /\ stats' = Append(stats, Stat(IF bucket = << >> THEN "empty" ELSE "ok",
                                                 Len(work.found), Len(bucket), dropped))
        /\ NextSource
        /\ UNCHANGED <<query, provider, lastErr, result, sent>>

(* What the source found is sifted and sorted; candidates of no relevance count only if there
   are no others. *)
Collect ==
    LET all == [i \in DOMAIN work.found |-> Normalized(work.found[i])]
    IN  /\ place = "collect"
        /\ \E kept \in SUBSET DOMAIN all :
              LET scored  == {i \in kept : all[i].score > 0}
                  chosen  == IF scored = {} THEN kept ELSE scored
                  bucket  == SortScored(all, chosen)
                  dropped == Cardinality(DOMAIN all \ chosen)
              IN  /\ LetThrough(all, kept)
                  /\ seen' = seen \union UNION {DedupKeys(all[i]) : i \in kept}
                  /\ buckets' = IF bucket = << >> THEN buckets ELSE Append(buckets, bucket)
                  /\ stats' = Append(stats, Stat(IF bucket = << >> THEN "empty" ELSE "ok",
                                                 Len(work.found), Len(bucket), dropped))
        /\ NextSource
        /\ UNCHANGED <<query, provider, lastErr, result, sent>>

(* The source failed: the others are searched all the same.  (ParserJobs has the event that
   says so.) *)
GiveUp ==
    /\ place = "failed"
    /\ stats' = Append(stats, Stat("failed", 0, 0, 0))
    /\ lastErr' = TRUE
    /\ NextSource
    /\ UNCHANGED <<query, provider, seen, buckets, result, sent>>

Returned(s, list) == Cardinality({i \in DOMAIN list : list[i].source = s})

(* Mutant: one source after the other, up to the limit. *)
MergeInOrder ==
    LET merged == Cut(FlattenSeq(buckets), query.limit)
    IN  /\ place = "merge"
        /\ result' = merged
        /\ stats' = [i \in DOMAIN stats |->
                        [stats[i] EXCEPT !.returned = Returned(stats[i].source, merged)]]
        /\ Go(IF merged = << >> /\ lastErr THEN "error" ELSE "publish")
        /\ UNCHANGED <<query, provider, todo, work, pool, seen, buckets, lastErr, sent>>

(* All sources are searched: the merge, and an error only if there is nothing else to return. *)
Merge ==
    LET merged == InterleaveBuckets(buckets, query.limit)
    IN  /\ place = "merge"
        /\ result' = merged
        /\ stats' = [i \in DOMAIN stats |->
                        [stats[i] EXCEPT !.returned = Returned(stats[i].source, merged)]]
        /\ Go(IF merged = << >> /\ lastErr THEN "error" ELSE "publish")
        /\ UNCHANGED <<query, provider, todo, work, pool, seen, buckets, lastErr, sent>>

(* publishCandidate, for the next candidate; an error is the error of the search. *)
Publish ==
    /\ place = "publish"
    /\ sent < Len(result)
    /\ \/ sent' = sent + 1 /\ UNCHANGED place
       \/ Go("error") /\ UNCHANGED sent
    /\ UNCHANGED <<query, provider, todo, work, pool, seen, buckets, stats, lastErr, result>>

(* Everything is published. *)
Return ==
    /\ place = "publish"
    /\ sent = Len(result)
    /\ stats' = [i \in DOMAIN stats |->
                    [stats[i] EXCEPT !.published = Returned(stats[i].source, result)]]
    /\ Go("done")
    /\ UNCHANGED <<query, provider, todo, work, pool, seen, buckets, lastErr, result, sent>>

-----------------------------------------------------------------------------
HabrStep == HabrFeed \/ HabrRequestFails \/ HabrFeedUnreadable \/ HabrPage \/ HabrDone

VcStep ==
    \/ DiscoveryPage \/ WebSearch \/ UrlSearchFails \/ VcPage \/ VcPagesDone
    \/ VcFeed \/ VcFeedFails \/ VcEnrich \/ VcFeedDone

DzenStep == DzenSearchPage \/ DzenSearchFails \/ OrderResults

SearchStep ==
    \/ HabrStep \/ VcStep \/ DzenStep \/ RssFeed \/ RssFeedFails
    \/ Collect \/ GiveUp \/ Merge \/ Publish \/ Return

WorkerStep(w) == GiveAddress(w) \/ FetchPage(w)

SearchNext == SearchStep \/ \E w \in Workers : WorkerStep(w)

SearchSpec == SearchInit /\ [][SearchNext]_vars

(* The goroutines of the search and of the workers run, and a request ends: every HTTP client
   has a timeout of 15 seconds, and an answer or a failure is a step. *)
SearchFairSpec ==
    /\ SearchSpec
    /\ WF_vars(SearchStep)
    /\ \A w \in Workers : WF_vars(WorkerStep(w))

-----------------------------------------------------------------------------
Places ==
    {"habr_feed", "habr_article", "vc_urls", "vc_article", "vc_feed", "vc_enrich", "dzen_search",
     "dzen_more", "dzen_fetch", "rss_feed", "collect", "failed", "merge", "publish", "done", "error"}

Keys == ({"url"} \X Urls) \union ({"source"} \X Sources \X Ids) \union ({"title"} \X LongTitles)

(* A request is tried MaxAttempts times at most, no search reads more than MaxSearchPages pages,
   only sources that were enabled are searched, no bucket is empty, and nothing is published that
   is not in the result. *)
SearchTypeOK ==
    /\ query \in Queries /\ provider \in Providers /\ place \in Places
    /\ todo \in Seq(EnabledSources)
    /\ work \in [attempt : 1..MaxAttempts, urls : Seq(Urls), found : Seq(Candidates), next : Nat \ {0},
                 pages : 0..MaxSearchPages, err : BOOLEAN, requests : Nat]
    /\ pool \in [given : Nat, busy : [Workers -> Nat], results : Seq([index : Nat, ok : BOOLEAN])]
    /\ seen \subseteq Keys
    /\ buckets \in Seq(Seq(Candidates) \ {<< >>})
    /\ stats \in Seq([source : EnabledSources, status : {"ok", "empty", "failed"}, found : Nat,
                      accepted : Nat, filtered : Nat, returned : Nat, published : Nat])
    /\ lastErr \in BOOLEAN /\ result \in Seq(Candidates) /\ sent \in 0..Len(result)

(* The requests a source may cost: habr every attempt for the feed and each article, vc a
   page of addresses and an article for each it can use, then the feed and its articles, dzen
   the search pages and one article for each address.  Discovery in particular asks for a next
   page as long as the answers say there is one. *)
RequestsBounded ==
    todo # << >> =>
        /\ Kind[Source] = "habr" => work.requests <= MaxAttempts * (query.limit + 1)
        /\ Kind[Source] = "vc" => work.requests <= 3 * query.limit + 1 + MaxLinks
        /\ Kind[Source] = "dzen" => work.requests <= MaxSearchPages + Target
        /\ Kind[Source] = "rss" => work.requests <= 1

(* The pool of workers does what one worker would do: however the pages arrive, each address
   was requested once, and the answer is the first articles, in the order of the search, that
   could be had and are not stale. *)
PoolIsSequential ==
    place = "collect" /\ Kind[Source] = "dzen" =>
        LET Got(i) == [index |-> i, ok |-> TRUE] \in Range(pool.results)
            wanted == Ascending({i \in DOMAIN work.urls : Got(i) /\ ~Stale(DzenArticle(work.urls[i]))})
        IN  /\ Len(pool.results) = Len(work.urls)
            /\ work.found = [k \in 1..Min({query.limit, Len(wanted)}) |-> DzenArticle(work.urls[wanted[k]])]

(* The statistics a client is shown add up: what a source found was accepted or filtered, and
   what was returned was accepted, once for every candidate of the result.  (A source the query
   names twice has two records, and each counts what both returned.) *)
StatsAddUp ==
    /\ \A i \in DOMAIN stats : stats[i].found = stats[i].accepted + stats[i].filtered
    /\ place \in {"publish", "done"} /\ IsInjective(SelectedSources(query)) =>
          /\ \A i \in DOMAIN stats : stats[i].returned <= stats[i].accepted
          /\ Cardinality(UNION {{i} \X (1..stats[i].returned) : i \in DOMAIN stats}) = Len(result)

(* No article is returned twice, whatever sources and addresses it was found under. *)
NoTwoAlike ==
    \A i, j \in DOMAIN result : i # j =>
        /\ result[i].url # result[j].url
        /\ result[i].title = result[j].title => result[i].title \notin LongTitles
        /\ result[i].source = result[j].source => result[i].id # result[j].id

(* No source crowds out another: the result is filled by turns, and not cut short. *)
SourcesTakeTurns ==
    place \in {"publish", "done"} => TakesTurns(result, buckets, query.limit)

(* A search ends, whatever the sources answer and however the workers are scheduled. *)
SearchEnds == <>(place \in {"done", "error"})

=============================================================================
