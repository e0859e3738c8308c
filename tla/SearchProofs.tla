---------------------------- MODULE SearchProofs ----------------------------
(***************************************************************************)
(* Proofs about the two ends of a search, whatever is answered and in any  *)
(* order: the search itself, at parser-service, for any web and any        *)
(* failures; and the page it is shown on, for any requests under way.      *)
(***************************************************************************)
EXTENDS SourceSearch, WebClient, RoundRobinProofs

-----------------------------------------------------------------------------
(* firstNonEmpty returns one of the values, or what is empty. *)
LEMMA FirstNonEmptyIn ==
  ASSUME NEW S, NEW values \in Seq(S), NEW empty \in S
  PROVE  FirstNonEmpty(values, empty) \in S
<1>1. CASE \A i \in DOMAIN values : values[i] = empty
  BY <1>1 DEF FirstNonEmpty
<1>2. CASE \E i \in DOMAIN values : values[i] # empty
  <2> DEFINE P == {i \in DOMAIN values : values[i] # empty}
  <2>1. P \subseteq Nat /\ P # {}
    BY <1>2
  <2>2. PICK f \in P : \A y \in P : ~(<<y, f>> \in OpToRel(<, Nat))
    BY <2>1, NatLessThanWellFounded, WFMin
  <2>3. \A y \in P : ~(y < f)
    BY <2>1, <2>2 DEF OpToRel
  <2>4. f \in DOMAIN values /\ values[f] # empty
    OBVIOUS
  <2>5. ASSUME NEW j \in 1..(f - 1) PROVE values[j] = empty
    <3>1. f \in 1..Len(values) /\ Len(values) \in Nat
      BY <2>4
    <3>2. j \in 1..Len(values) /\ j < f
      BY <3>1
    <3>3. j \in DOMAIN values
      BY <3>2
    <3> QED BY <2>3, <3>2, <3>3
  <2>6. \E i \in DOMAIN values : values[i] # empty /\ \A j \in 1..(i - 1) : values[j] = empty
    BY <2>4, <2>5
  <2> DEFINE first == CHOOSE i \in DOMAIN values :
                         values[i] # empty /\ \A j \in 1..(i - 1) : values[j] = empty
  <2>7. first \in DOMAIN values
    BY <2>6
  <2>8. FirstNonEmpty(values, empty) = values[first]
    BY <1>2 DEF FirstNonEmpty
  <2> HIDE DEF first
  <2> QED BY <2>7, <2>8
<1> QED BY <1>1, <1>2

(* A list cut at a limit is the first of its elements. *)
LEMMA CutIs ==
  ASSUME NEW S, NEW list \in Seq(S), NEW limit \in Nat
  PROVE  /\ Cut(list, limit) \in Seq(S)
         /\ Len(Cut(list, limit)) = IF limit <= Len(list) THEN limit ELSE Len(list)
         /\ \A k \in 1..Len(Cut(list, limit)) : Cut(list, limit)[k] = list[k]
<1>1. Len(list) \in Nat
  OBVIOUS
<1>2. Min({limit, Len(list)}) = IF limit <= Len(list) THEN limit ELSE Len(list)
  BY <1>1, MinOfTwo
<1> DEFINE m == Min({limit, Len(list)})
<1>3. m \in 0..Len(list)
  BY <1>1, <1>2
<1>4. Cut(list, limit) = SubSeq(list, 1, m)
  BY DEF Cut
<1> HIDE DEF m
<1>5. /\ SubSeq(list, 1, m) \in Seq(S) /\ Len(SubSeq(list, 1, m)) = m
      /\ \A k \in 1..m : SubSeq(list, 1, m)[k] = list[k]
  BY <1>1, <1>3
<1> QED BY <1>2, <1>4, <1>5 DEF m

(* What is left of a list when every element is listed once is a list, and not longer. *)
LEMMA OnceIs ==
  ASSUME NEW S, NEW list \in Seq(S)
  PROVE  Once(list) \in Seq(S) /\ Len(Once(list)) <= Len(list)
<1> DEFINE F == {i \in DOMAIN list : \A j \in 1..(i - 1) : list[j] # list[i]}
           n == Cardinality(F)
           first == Ascending(F)
<1>1. Len(list) \in Nat /\ DOMAIN list = 1..Len(list)
  OBVIOUS
<1>2. IsFiniteSet(1..Len(list)) /\ Cardinality(1..Len(list)) = Len(list)
  BY <1>1, FS_Interval
<1>3. F \in SUBSET (1..Len(list)) /\ F \subseteq Nat
  BY <1>1
<1>4. Once(list) = [k \in DOMAIN first |-> list[first[k]]]
  BY DEF Once
<1> HIDE DEF F
<1>5. IsFiniteSet(F) /\ n <= Len(list)
  BY <1>2, <1>3, FS_Subset
<1>6. n \in Nat /\ first \in [1..n -> F]
  BY <1>3, <1>5, AscendingLists
<1> HIDE DEF first
<1>7. ASSUME NEW k \in 1..n PROVE list[first[k]] \in S
  <2>1. first[k] \in 1..Len(list)
    BY <1>3, <1>6
  <2> QED BY <1>1, <2>1
<1>8. Once(list) \in [1..n -> S]
  BY <1>4, <1>6, <1>7
<1>9. Once(list) \in Seq(S) /\ Len(Once(list)) = n
  BY <1>6, <1>8, ListOfLength
<1> QED BY <1>5, <1>9

(* Addresses are only added, up to the limit, and when any are the list is longer. *)
LEMMA AppendNewIs ==
  ASSUME NEW S, NEW urls \in Seq(S), NEW more \in Seq(S), NEW limit \in Nat, Len(urls) <= limit
  PROVE  LET added == AppendNew(urls, more, limit)
         IN  /\ added \in Seq(S)
             /\ Len(added) \in Nat /\ Len(urls) <= Len(added) /\ Len(added) <= limit
             /\ added # urls => Len(urls) < Len(added)
<1> DEFINE fresh == Keep(more, Range(more) \ Range(urls))
           room == limit - Len(urls)
           tail == Cut(fresh, room)
<1>1. Len(urls) \in Nat /\ room \in Nat
  OBVIOUS
<1>2. fresh \in Seq(S)
  <2>1. fresh \in Seq(S \intersect (Range(more) \ Range(urls)))
    BY KeepFilters
  <2> HIDE DEF fresh
  <2> QED BY <2>1
<1> HIDE DEF fresh
<1>3. /\ tail \in Seq(S)
      /\ Len(tail) = IF room <= Len(fresh) THEN room ELSE Len(fresh)
  <2> HIDE DEF room
  <2> QED BY <1>1, <1>2, CutIs
<1>4. Len(tail) \in Nat /\ Len(tail) <= room
  BY <1>1, <1>2, <1>3
<1>5. AppendNew(urls, more, limit) = urls \o tail
  BY DEF AppendNew, fresh
<1> HIDE DEF tail
<1>6. urls \o tail \in Seq(S) /\ Len(urls \o tail) = Len(urls) + Len(tail)
  BY <1>3
<1>7. urls \o tail # urls => Len(tail) # 0
  BY <1>3
<1> QED BY <1>1, <1>4, <1>5, <1>6, <1>7

-----------------------------------------------------------------------------
(* The other forms of a URL are URLs. *)
LEMMA FormsOfUrl ==
  ASSUME NEW u \in Urls
  PROVE  CleanUrl(u) \in Urls /\ NormalizeUrl(u) \in Urls /\ PathOf(u) \in Urls
BY WebHolds

(* The entries and links that pages of results hold are lists of URLs, and a web search engine
   gives at most MaxLinks. *)
LEMMA AnswersAreUrls ==
  /\ \A page \in DiscoveryPages : PageEntries[page] \in Seq(Urls)
  /\ \A links \in WebAnswers : SiteLinks[links] \in Seq(Urls) /\ Len(SiteLinks[links]) <= MaxLinks
  /\ \A page \in DzenPages : PageLinks[page] \in Seq(Urls)
<1>1. ASSUME NEW list \in Seq(Urls)
      PROVE  /\ Once([i \in DOMAIN list |-> CleanUrl(list[i])]) \in Seq(Urls)
             /\ Len(Once([i \in DOMAIN list |-> CleanUrl(list[i])])) <= Len(list)
  <2> DEFINE clean == [i \in DOMAIN list |-> CleanUrl(list[i])]
  <2>1. \A i \in 1..Len(list) : CleanUrl(list[i]) \in Urls
    BY FormsOfUrl
  <2>2. clean \in [1..Len(list) -> Urls] /\ Len(list) \in Nat
    BY <2>1
  <2> HIDE DEF clean
  <2>3. clean \in Seq(Urls) /\ Len(clean) = Len(list)
    BY <2>2, ListOfLength
  <2> QED BY <2>3, OnceIs DEF clean
<1>2. ASSUME NEW page \in DiscoveryPages PROVE PageEntries[page] \in Seq(Urls)
  <2> DEFINE kept == Keep(page.items, {i \in Range(page.items) : i.entry /\ i.url # NoUrl})
             links == [i \in DOMAIN kept |-> kept[i].url]
  <2>1. page.items \in Seq([entry : BOOLEAN, url : Urls])
    BY WebHolds
  <2>2. kept \in Seq([entry : BOOLEAN, url : Urls]
                       \intersect {i \in Range(page.items) : i.entry /\ i.url # NoUrl})
    BY <2>1, KeepFilters
  <2>3. PageEntries[page] = Once([i \in DOMAIN kept |-> CleanUrl(kept[i].url)])
    BY DEF PageEntries
  <2> HIDE DEF kept
  <2>4. /\ \A i \in 1..Len(kept) : kept[i].url \in Urls
        /\ Len(kept) \in Nat /\ DOMAIN kept = 1..Len(kept)
    BY <2>2
  <2>5. links \in [1..Len(kept) -> Urls]
    BY <2>4
  <2>6. links \in Seq(Urls)
    <3> HIDE DEF links
    <3> QED BY <2>4, <2>5, ListOfLength
  <2>7. [i \in DOMAIN kept |-> CleanUrl(kept[i].url)] = [i \in DOMAIN links |-> CleanUrl(links[i])]
    OBVIOUS
  <2> HIDE DEF links
  <2> QED BY <1>1, <2>3, <2>6, <2>7
<1>3. ASSUME NEW links \in WebAnswers
      PROVE  SiteLinks[links] \in Seq(Urls) /\ Len(SiteLinks[links]) <= MaxLinks
  <2> DEFINE onSite == {u \in Range(links) : u.site = "vc" /\ u.prefix \in {"", "www."}}
             kept == Keep(links, onSite)
  <2>0. links \in Seq(Urls) /\ Len(links) <= MaxLinks
    BY WebHolds
  <2>9. MaxLinks \in Nat
    BY SearchAssumption
  <2>1. links \in Seq(Urls) /\ Len(links) <= MaxLinks /\ Len(links) \in Nat /\ MaxLinks \in Nat
    BY <2>0, <2>9
  <2>3. SiteLinks[links] = Once([i \in DOMAIN kept |-> CleanUrl(kept[i])])
    BY DEF SiteLinks
  <2> HIDE DEF onSite, kept
  <2>2. kept \in Seq(Urls \intersect onSite) /\ Len(kept) <= Len(links)
    BY <2>1, KeepFilters, KeepLength DEF kept
  <2>4. kept \in Seq(Urls)
    BY <2>2
  <2>7. Len(kept) \in Nat
    BY <2>4
  <2>5. SiteLinks[links] \in Seq(Urls) /\ Len(SiteLinks[links]) <= Len(kept)
    BY <1>1, <2>3, <2>4
  <2>6. Len(SiteLinks[links]) \in Nat
    BY <2>5
  <2> QED BY <2>1, <2>2, <2>5, <2>6, <2>7
<1>4. ASSUME NEW page \in DzenPages PROVE PageLinks[page] \in Seq(Urls)
  <2> DEFINE kept == Keep(page.links, {u \in Range(page.links) : u.path \in ArticlePaths})
  <2>1. page.links \in Seq(Urls)
    BY WebHolds
  <2>2. kept \in Seq(Urls \intersect {u \in Range(page.links) : u.path \in ArticlePaths})
    BY <2>1, KeepFilters
  <2>3. PageLinks[page] = Once([i \in DOMAIN kept |-> CleanUrl(kept[i])])
    BY DEF PageLinks
  <2> HIDE DEF kept
  <2>4. kept \in Seq(Urls)
    BY <2>2
  <2> QED BY <1>1, <2>3, <2>4
<1> QED BY <1>2, <1>3, <1>4

(* What a query holds. *)
LEMMA QueryIs ==
  ASSUME query \in Queries
  PROVE  /\ query.sources \in Seq(Sources) /\ query.limit \in 1..100
         /\ query.from \in Nat /\ query.to \in Nat
BY SearchAssumption

(* The article page at an address. *)
LEMMA PageIs ==
  ASSUME NEW u \in DOMAIN Page
  PROVE  /\ Page[u].entries \subseteq Article /\ Page[u].data \in Article
         /\ Page[u].canonical \in Urls /\ Page[u].title \in Titles
         /\ Page[u].date \in Nat /\ Page[u].score \in Int
BY WebHolds

(* Triples are lists. *)
LEMMA ShortLists ==
  ASSUME NEW S, NEW a \in S, NEW b \in S, NEW c \in S, NEW d \in S
  PROVE  <<a, b>> \in Seq(S) /\ <<a, b, c>> \in Seq(S) /\ <<a, b, c, d>> \in Seq(S)
OBVIOUS

(* No article has a URL and a title there may be. *)
LEMMA NoArticleIs == NoArticle \in Article
BY WebHolds DEF NoArticle, Article

(* What vc makes of an article page is a candidate of vc. *)
LEMMA VcArticleIs ==
  ASSUME NEW u \in Urls, Address(u) \in DOMAIN Page, NEW entry \in VcEntries(u), "vc" \in Sources
  PROVE  VcArticle(u, entry) \in Candidates /\ VcArticle(u, entry).source = "vc"
<1> DEFINE page == Page[Address(u)]
           at == FirstNonEmpty(<<entry.url, page.data.url, page.canonical, u>>, NoUrl)
           title == FirstNonEmpty(<<entry.title, page.data.title, page.title>>, "")
           date == FirstNonEmpty(<<entry.date, page.data.date>>, 0)
<1>1. /\ page.entries \subseteq Article /\ page.data \in Article /\ page.canonical \in Urls
      /\ page.title \in Titles /\ page.date \in Nat /\ page.score \in Int
  BY PageIs
<1>2. entry \in Article
  BY <1>1, NoArticleIs DEF VcEntries
<1>3. /\ entry.url \in Urls /\ entry.title \in Titles /\ entry.date \in Nat
      /\ page.data.url \in Urls /\ page.data.title \in Titles /\ page.data.date \in Nat
  BY <1>1, <1>2 DEF Article
<1>4. VcArticle(u, entry) =
        [source |-> "vc", id |-> [kind |-> "sha1", of |-> at], url |-> CleanUrl(at),
         title |-> title, date |-> date, score |-> page.score]
  BY DEF VcArticle, VcData
<1> HIDE DEF page
<1>5. NoUrl \in Urls /\ "" \in Titles /\ 0 \in Nat
  BY WebHolds
<1>6. at \in Urls
  BY <1>1, <1>3, <1>5, ShortLists, FirstNonEmptyIn
<1>7. title \in Titles
  BY <1>1, <1>3, <1>5, ShortLists, FirstNonEmptyIn
<1>8. date \in Nat
  BY <1>1, <1>3, <1>5, ShortLists, FirstNonEmptyIn
<1> HIDE DEF at, title, date
<1>9. CleanUrl(at) \in Urls
  BY <1>6, FormsOfUrl
<1> QED BY <1>1, <1>4, <1>6, <1>7, <1>8, <1>9 DEF Candidates, Ids

(* What dzen makes of an article page is a candidate of dzen. *)
LEMMA DzenArticleIs ==
  ASSUME NEW u \in Urls, Address(u) \in DOMAIN Page, "dzen" \in Sources
  PROVE  DzenArticle(u) \in Candidates /\ DzenArticle(u).source = "dzen"
<1> DEFINE page == Page[Address(u)]
           at == FirstNonEmpty(<<page.data.url, page.canonical, u>>, NoUrl)
           title == FirstNonEmpty(<<page.data.title, page.title>>, "")
           date == FirstNonEmpty(<<page.data.date, page.date>>, 0)
<1>1. /\ page.data \in Article /\ page.canonical \in Urls
      /\ page.title \in Titles /\ page.date \in Nat /\ page.score \in Int
  BY PageIs
<1>3. page.data.url \in Urls /\ page.data.title \in Titles /\ page.data.date \in Nat
  BY <1>1 DEF Article
<1>4. DzenArticle(u) =
        [source |-> "dzen", id |-> [kind |-> "path", of |-> PathOf(CleanUrl(at))],
         url |-> CleanUrl(at), title |-> title, date |-> date, score |-> page.score]
  BY DEF DzenArticle, DzenData, EmbeddedDate
<1> HIDE DEF page
<1>5. NoUrl \in Urls /\ "" \in Titles /\ 0 \in Nat
  BY WebHolds
<1>6. at \in Urls
  BY <1>1, <1>3, <1>5, ShortLists, FirstNonEmptyIn
<1>7. title \in Titles
  BY <1>1, <1>3, <1>5, ShortLists, FirstNonEmptyIn
<1>8. date \in Nat
  BY <1>1, <1>3, <1>5, ShortLists, FirstNonEmptyIn
<1> HIDE DEF at, title, date
<1>9. CleanUrl(at) \in Urls /\ PathOf(CleanUrl(at)) \in Urls
  <2>1. CleanUrl(at) \in Urls
    BY <1>6, FormsOfUrl
  <2> QED BY <2>1, FormsOfUrl
<1> QED BY <1>1, <1>4, <1>7, <1>8, <1>9 DEF Candidates, Ids

(* An item of a feed. *)
Entries == [guid : Urls, link : Urls, title : Titles, date : Nat, score : Int, matches : BOOLEAN]

(* The candidate of an item is a candidate of the source of the feed. *)
LEMMA FeedCandidateIs ==
  ASSUME NEW s \in Sources, NEW item \in Entries
  PROVE  FeedCandidate(s, item) \in Candidates /\ FeedCandidate(s, item).source = s
<1>1. /\ item.guid \in Urls /\ item.link \in Urls /\ item.title \in Titles
      /\ item.date \in Nat /\ item.score \in Int
  BY DEF Entries
<1>2. FirstNonEmpty(<<item.guid, item.link>>, NoUrl) \in Urls
  BY <1>1, WebHolds, ShortLists, FirstNonEmptyIn
<1> QED BY <1>1, <1>2 DEF FeedCandidate, Candidates, Ids

(* The candidates of a feed are candidates of its source, as many as were asked for at most. *)
LEMMA FeedIs ==
  ASSUME NEW s \in Sources, NEW feed \in Seq(Entries), query.limit \in Nat
  PROVE  LET found == Cut([i \in DOMAIN feed |-> FeedCandidate(s, feed[i])], query.limit)
         IN  /\ found \in Seq(Candidates) /\ Len(found) <= query.limit
             /\ \A k \in DOMAIN found : found[k].source = s
<1> DEFINE all == [i \in DOMAIN feed |-> FeedCandidate(s, feed[i])]
<1>1. Len(feed) \in Nat /\ DOMAIN feed = 1..Len(feed)
  OBVIOUS
<1>2. \A i \in 1..Len(feed) : all[i] \in Candidates /\ all[i].source = s
  <2> SUFFICES ASSUME NEW i \in 1..Len(feed) PROVE all[i] \in Candidates /\ all[i].source = s
    OBVIOUS
  <2>1. feed[i] \in Entries /\ all[i] = FeedCandidate(s, feed[i])
    OBVIOUS
  <2> QED BY <2>1, FeedCandidateIs
<1>3. all \in [1..Len(feed) -> Candidates]
  BY <1>1, <1>2
<1> HIDE DEF all
<1>4. all \in Seq(Candidates) /\ Len(all) = Len(feed)
  BY <1>1, <1>3, ListOfLength
<1> DEFINE found == Cut(all, query.limit)
<1>5. /\ found \in Seq(Candidates)
      /\ Len(found) = IF query.limit <= Len(all) THEN query.limit ELSE Len(all)
      /\ \A k \in 1..Len(found) : found[k] = all[k]
  BY <1>4, CutIs
<1> HIDE DEF found
<1>6. Len(found) \in Nat /\ DOMAIN found = 1..Len(found)
  BY <1>5
<1>7. Len(found) <= query.limit /\ Len(found) <= Len(feed)
  BY <1>1, <1>4, <1>5, <1>6
<1>8. \A k \in DOMAIN found : found[k].source = s
  BY <1>1, <1>2, <1>5, <1>6, <1>7
<1> QED BY <1>5, <1>7, <1>8 DEF found, all

(* The same of a feed that is filtered first. *)
LEMMA CandidatesOfFeed ==
  ASSUME NEW s \in Sources, NEW feed \in Feeds[s], query.limit \in Nat
  PROVE  /\ HabrCandidates(s, feed) \in Seq(Candidates) /\ Len(HabrCandidates(s, feed)) <= query.limit
         /\ \A k \in DOMAIN HabrCandidates(s, feed) : HabrCandidates(s, feed)[k].source = s
         /\ RssCandidates(s, feed) \in Seq(Candidates) /\ Len(RssCandidates(s, feed)) <= query.limit
         /\ \A k \in DOMAIN RssCandidates(s, feed) : RssCandidates(s, feed)[k].source = s
<1> DEFINE matching == Keep(feed, {item \in Range(feed) : Matches(item)})
<1>1. feed \in Seq(Entries)
  BY WebHolds DEF Entries
<1>2. matching \in Seq(Entries \intersect {item \in Range(feed) : Matches(item)})
  BY <1>1, KeepFilters
<1>3. RssCandidates(s, feed) = Cut([i \in DOMAIN matching |-> FeedCandidate(s, matching[i])], query.limit)
  BY DEF RssCandidates
<1> HIDE DEF matching
<1>4. matching \in Seq(Entries)
  BY <1>2
<1>5. HabrCandidates(s, feed) = Cut([i \in DOMAIN feed |-> FeedCandidate(s, feed[i])], query.limit)
  BY DEF HabrCandidates
<1> QED BY <1>1, <1>3, <1>4, <1>5, FeedIs

(* What a page adds to a candidate leaves a candidate of the same source. *)
LEMMA EnrichedIs ==
  ASSUME NEW c \in Candidates, NEW a, a.title \in Titles, a.date \in Nat, a.score \in Int
  PROVE  Enriched(c, a) \in Candidates /\ Enriched(c, a).source = c.source
<1>1. c.title \in Titles /\ c.date \in Nat /\ "" \in Titles /\ 0 \in Nat
  BY WebHolds DEF Candidates
<1> DEFINE title == FirstNonEmpty(<<a.title, c.title>>, "")
           date == FirstNonEmpty(<<a.date, c.date>>, 0)
<1>2. title \in Titles
  BY <1>1, ShortLists, FirstNonEmptyIn
<1>3. date \in Nat
  BY <1>1, ShortLists, FirstNonEmptyIn
<1>4. Enriched(c, a) = [[[c EXCEPT !.title = title] EXCEPT !.date = date] EXCEPT !.score = a.score]
  BY DEF Enriched, Candidates
<1> HIDE DEF title, date
<1> QED BY <1>2, <1>3, <1>4 DEF Candidates

(* A candidate in its normal form is a candidate of the same source. *)
LEMMA NormalizedIs ==
  ASSUME NEW c \in Candidates
  PROVE  Normalized(c) \in Candidates /\ Normalized(c).source = c.source
<1>1. c.url \in Urls /\ NormalizeUrl(c.url) \in Urls
  BY FormsOfUrl DEF Candidates
<1> DEFINE u == NormalizeUrl(c.url)
           id == IF c.id.of = NoUrl THEN [kind |-> "candidate", of |-> u] ELSE c.id
<1>2. id \in Ids
  BY <1>1 DEF Candidates, Ids
<1>3. Normalized(c) = [[c EXCEPT !.url = u] EXCEPT !.id = id]
  BY DEF Normalized, Candidates
<1> HIDE DEF u, id
<1>4. u \in Urls
  BY <1>1 DEF u
<1> QED BY <1>2, <1>3, <1>4 DEF Candidates

-----------------------------------------------------------------------------
(* Where the search is, and what its client keeps there. *)

HabrPlaces == {"habr_feed", "habr_article"}
VcPlaces == {"vc_urls", "vc_article", "vc_feed", "vc_enrich"}
DzenPlaces == {"dzen_search", "dzen_more", "dzen_fetch"}
EndPlaces == {"merge", "publish", "done", "error"}

WorkType == [attempt : 1..MaxAttempts, urls : Seq(Urls), found : Seq(Candidates), next : Nat \ {0},
             pages : 0..MaxSearchPages, err : BOOLEAN, requests : Nat]
PoolType == [given : Nat, busy : [Workers -> Nat], results : Seq([index : Nat, ok : BOOLEAN])]

(* A client works for a source of its kind, and what it found is of that source. *)
PlaceInv ==
    /\ todo = << >> <=> place \in EndPlaces
    /\ place \in HabrPlaces => Kind[Source] = "habr"
    /\ place \in VcPlaces => Kind[Source] = "vc"
    /\ place \in DzenPlaces => Kind[Source] = "dzen"
    /\ place = "rss_feed" => Kind[Source] = "rss"
    /\ todo # << >> => \A k \in DOMAIN work.found : work.found[k].source = Source

(* habr: every attempt for the feed, and for the articles before the next one. *)
HabrInv ==
    /\ place = "habr_feed" => work.requests = work.attempt - 1 /\ work.next = 1
    /\ place = "habr_article" =>
          /\ work.requests <= MaxAttempts * work.next + (work.attempt - 1)
          /\ work.next <= Len(work.found) + 1
          /\ work.next > Len(work.found) => work.attempt = 1
          /\ Len(work.found) <= query.limit

(* vc: a request for every address at most, then one for every article, and the feed. *)
VcInv ==
    /\ place = "vc_urls" =>
          /\ provider # "none" /\ work.found = << >> /\ work.next = 1
          /\ provider = "discovery" => work.requests <= Len(work.urls) /\ Len(work.urls) < query.limit
          /\ provider = "web" => work.requests = 0
    /\ place = "vc_article" =>
          /\ work.requests + Len(work.urls) <= 2 * query.limit + MaxLinks + (work.next - 1)
          /\ work.next <= Len(work.urls) + 1
          /\ Len(work.found) <= query.limit
    /\ place = "vc_feed" => work.requests <= 2 * query.limit + MaxLinks /\ work.next = 1
    /\ place = "vc_enrich" =>
          /\ work.requests <= 2 * query.limit + MaxLinks + work.next
          /\ work.next <= Len(work.found) + 1
          /\ Len(work.found) <= query.limit

(* Every address handed out is with one worker, or has one result. *)
PoolInv ==
    /\ pool.given <= Len(work.urls)
    /\ \A w \in Workers : pool.busy[w] <= pool.given
    /\ \A v, w \in Workers : v # w /\ pool.busy[v] # 0 => pool.busy[v] # pool.busy[w]
    /\ \A k \in DOMAIN pool.results :
          /\ pool.results[k].index \in 1..pool.given
          /\ \A w \in Workers : pool.busy[w] # pool.results[k].index
          /\ \A m \in DOMAIN pool.results : pool.results[k].index = pool.results[m].index => k = m
          /\ pool.results[k].ok => Address(work.urls[pool.results[k].index]) \in DOMAIN Page
    /\ \A i \in 1..pool.given :
          \/ \E w \in Workers : pool.busy[w] = i
          \/ \E k \in DOMAIN pool.results : pool.results[k].index = i

(* dzen: a request for every search page and for every result. *)
DzenInv ==
    /\ place = "dzen_search" => work.requests = 0 /\ work.pages = 0 /\ work.urls = << >>
    /\ place = "dzen_more" =>
          /\ work.requests = work.pages /\ work.pages < MaxSearchPages
          /\ Len(work.urls) < Target
    /\ place \in {"dzen_search", "dzen_more"} => pool = NewPool
    /\ place = "dzen_fetch" =>
          /\ work.requests <= MaxSearchPages + Len(pool.results)
          /\ Len(work.urls) <= Target
          /\ PoolInv

(* Where a request has its answer, there were not too many. *)
AnsweredInv ==
    /\ place = "rss_feed" => work.requests = 0
    /\ place \in {"collect", "failed"} => RequestsBounded

WorkInv == HabrInv /\ VcInv /\ DzenInv /\ AnsweredInv

ClientInv == SearchTypeOK /\ PlaceInv /\ WorkInv

-----------------------------------------------------------------------------
(* Facts about the constants. *)
LEMMA ConstantsAre ==
  /\ MaxAttempts \in Nat \ {0} /\ MaxSearchPages \in Nat \ {0} /\ TargetSlack \in Nat \ {0}
  /\ MaxWorkers \in Nat \ {0} /\ MaxLinks \in Nat
  /\ EnabledSources \subseteq Sources
BY SearchAssumption

(* The kinds of sources; there is one vc and one dzen. *)
LEMMA KindsAre ==
  ASSUME NEW s \in EnabledSources
  PROVE  /\ Kind[s] \in {"habr", "vc", "dzen", "rss"}
         /\ Kind[s] = "vc" => s = "vc"
         /\ Kind[s] = "dzen" => s = "dzen"
BY SearchAssumption

(* A product grows with its factor. *)
LEMMA TimesGrows ==
  ASSUME NEW a \in Nat, NEW m \in Nat, NEW n \in Nat, m <= n
  PROVE  /\ a * m \in Nat /\ a * n \in Nat /\ a * m <= a * n
         /\ a * (n + 1) = a * n + a
<1>1. a * m \in Nat /\ a * n \in Nat
  OBVIOUS
<1>2. a * (n - m) \in Nat /\ a * n = a * m + a * (n - m)
  OBVIOUS
<1>3. a * (n + 1) = a * n + a
  OBVIOUS
<1> QED BY <1>1, <1>2, <1>3

(* The search of a source begins at its client, and behind the last source is the merge. *)
LEMMA StartIs ==
  ASSUME NEW sources \in Seq(EnabledSources), NEW p \in Providers
  PROVE  /\ Start(sources, p) \in
               {"merge", "habr_feed", "vc_urls", "vc_feed", "dzen_search", "rss_feed"}
         /\ sources = << >> <=> Start(sources, p) = "merge"
         /\ Start(sources, p) = "habr_feed" => Kind[Head(sources)] = "habr"
         /\ Start(sources, p) \in {"vc_urls", "vc_feed"} => Kind[Head(sources)] = "vc"
         /\ Start(sources, p) = "vc_urls" => p # "none"
         /\ Start(sources, p) = "dzen_search" => Kind[Head(sources)] = "dzen"
         /\ Start(sources, p) = "rss_feed" => Kind[Head(sources)] = "rss"
<1>1. CASE sources = << >>
  BY <1>1 DEF Start
<1>2. CASE sources # << >>
  <2>1. Head(sources) \in EnabledSources
    BY <1>2
  <2>2. Kind[Head(sources)] \in {"habr", "vc", "dzen", "rss"}
    BY <2>1, KindsAre
  <2>3. Start(sources, p) =
          CASE Kind[Head(sources)] = "habr" -> "habr_feed"
            [] Kind[Head(sources)] = "vc"   -> IF p = "none" THEN "vc_feed" ELSE "vc_urls"
            [] Kind[Head(sources)] = "dzen" -> "dzen_search"
            [] Kind[Head(sources)] = "rss"  -> "rss_feed"
    BY <1>2 DEF Start
  <2> QED BY <1>2, <2>2, <2>3
<1> QED BY <1>1, <1>2

(* What is selected are enabled sources. *)
LEMMA SelectedAre ==
  ASSUME NEW q \in Queries
  PROVE  SelectedSources(q) \in Seq(EnabledSources)
<1> DEFINE asked == IF q.sources = << >> THEN SourceOrder ELSE q.sources
<1>1. asked \in Seq(Sources)
  BY SearchAssumption
<1>2. SelectedSources(q) = Keep(asked, EnabledSources)
  BY DEF SelectedSources
<1> HIDE DEF asked
<1>3. Keep(asked, EnabledSources) \in Seq(Sources \intersect EnabledSources)
  BY <1>1, KeepFilters
<1> QED BY <1>2, <1>3

(* What a client starts with. *)
LEMMA NewOnesAre == NewWork \in WorkType /\ NewPool \in PoolType
<1>1. NewWork \in WorkType
  BY ConstantsAre DEF NewWork, WorkType
<1>2. NewPool \in PoolType
  BY DEF NewPool, PoolType
<1> QED BY <1>1, <1>2

(* At the start everything is as it should be. *)
LEMMA SearchStarts == SearchInit => ClientInv
<1> SUFFICES ASSUME SearchInit PROVE ClientInv
  OBVIOUS
<1>1. /\ query \in Queries /\ provider \in Providers /\ todo \in Seq(EnabledSources)
      /\ place = Start(todo, provider)
      /\ work = NewWork /\ pool = NewPool
      /\ seen = {} /\ buckets = << >> /\ stats = << >> /\ lastErr = FALSE /\ result = << >> /\ sent = 0
  BY SelectedAre DEF SearchInit
<1>2. /\ place \in {"merge", "habr_feed", "vc_urls", "vc_feed", "dzen_search", "rss_feed"}
      /\ todo = << >> <=> place = "merge"
      /\ place = "habr_feed" => Kind[Source] = "habr"
      /\ place \in {"vc_urls", "vc_feed"} => Kind[Source] = "vc"
      /\ place = "vc_urls" => provider # "none"
      /\ place = "dzen_search" => Kind[Source] = "dzen"
      /\ place = "rss_feed" => Kind[Source] = "rss"
  BY <1>1, StartIs DEF Source
<1>3. SearchTypeOK
  <2>1. work \in WorkType /\ pool \in PoolType /\ place \in Places
    BY <1>1, <1>2, NewOnesAre DEF Places
  <2>2. /\ buckets \in Seq(Seq(Candidates) \ {<< >>}) /\ result \in Seq(Candidates)
        /\ stats \in Seq([source : EnabledSources, status : {"ok", "empty", "failed"}, found : Nat,
                          accepted : Nat, filtered : Nat, returned : Nat, published : Nat])
    BY <1>1
  <2>3. sent \in 0..Len(result)
    BY <1>1
  <2>4. lastErr \in BOOLEAN /\ seen \subseteq Keys
    BY <1>1
  <2> QED BY <1>1, <2>1, <2>2, <2>3, <2>4 DEF SearchTypeOK, WorkType, PoolType
<1>4. PlaceInv
  BY <1>1, <1>2 DEF PlaceInv, NewWork, HabrPlaces, VcPlaces, DzenPlaces, EndPlaces
<1>5. WorkInv
  <2>1. query.limit \in 1..100 /\ MaxLinks \in Nat
    BY <1>1, QueryIs, ConstantsAre
  <2>2. /\ work.requests = 0 /\ work.attempt = 1 /\ work.next = 1 /\ work.pages = 0
        /\ work.urls = << >> /\ work.found = << >> /\ Len(work.urls) = 0
    BY <1>1 DEF NewWork
  <2>3. HabrInv
    BY <1>2, <2>2 DEF HabrInv
  <2>4. VcInv
    <3>1. 0 <= 2 * query.limit + MaxLinks /\ 0 < query.limit
      BY <2>1
    <3>2. place # "vc_article" /\ place # "vc_enrich"
      BY <1>2
    <3> QED BY <1>2, <2>2, <3>1, <3>2 DEF VcInv
  <2>5. DzenInv /\ AnsweredInv
    BY <1>1, <1>2, <2>2 DEF DzenInv, AnsweredInv
  <2> QED BY <2>3, <2>4, <2>5 DEF WorkInv
<1> QED BY <1>3, <1>4, <1>5 DEF ClientInv

-----------------------------------------------------------------------------
(* The types of what is used in every step. *)
LEMMA WorkIs ==
  ASSUME ClientInv
  PROVE  /\ work \in WorkType /\ pool \in PoolType
         /\ query \in Queries /\ query.limit \in 1..100 /\ query.limit \in Nat
         /\ provider \in Providers
         /\ todo \in Seq(EnabledSources)
         /\ todo # << >> => Source \in EnabledSources /\ Source \in Sources
         /\ work.attempt \in 1..MaxAttempts /\ work.next \in Nat \ {0} /\ work.requests \in Nat
         /\ work.pages \in 0..MaxSearchPages
         /\ work.urls \in Seq(Urls) /\ Len(work.urls) \in Nat
         /\ work.found \in Seq(Candidates) /\ Len(work.found) \in Nat
<1>1. work \in WorkType
  BY DEF ClientInv, SearchTypeOK, WorkType
<1>2. pool \in PoolType
  BY DEF ClientInv, SearchTypeOK, PoolType
<1>3. query \in Queries /\ provider \in Providers /\ todo \in Seq(EnabledSources)
  BY DEF ClientInv, SearchTypeOK
<1>9. query.limit \in 1..100
  BY <1>3, QueryIs
<1>4. query.limit \in 1..100 /\ query.limit \in Nat
  BY <1>9
<1>5. todo # << >> => Source \in EnabledSources /\ Source \in Sources
  BY <1>3, ConstantsAre DEF Source
<1>6. work.urls \in Seq(Urls) /\ work.found \in Seq(Candidates)
  BY <1>1 DEF WorkType
<1>7. Len(work.urls) \in Nat /\ Len(work.found) \in Nat
  BY <1>6
<1>8. /\ work.attempt \in 1..MaxAttempts /\ work.next \in Nat \ {0} /\ work.requests \in Nat
      /\ work.pages \in 0..MaxSearchPages
  BY <1>1 DEF WorkType
<1> QED BY <1>1, <1>2, <1>3, <1>4, <1>5, <1>6, <1>7, <1>8

(* A step of a client leaves the rest of the search as it is. *)
LEMMA ClientTypes ==
  ASSUME ClientInv, UNCHANGED searchVars, work' \in WorkType, pool' \in PoolType, place' \in Places
  PROVE  SearchTypeOK'
BY DEF ClientInv, SearchTypeOK, WorkType, PoolType, searchVars

(* A further request changes nothing else. *)
LEMMA RequestedIs ==
  ASSUME work \in WorkType
  PROVE  /\ Requested \in WorkType
         /\ Requested.requests = work.requests + 1
         /\ Requested.attempt = work.attempt /\ Requested.urls = work.urls
         /\ Requested.found = work.found /\ Requested.next = work.next
         /\ Requested.pages = work.pages /\ Requested.err = work.err
BY DEF Requested, WorkType

(* A source that fails, or has answered, is done with its requests. *)
LEMMA GivesUp ==
  ASSUME ClientInv, UNCHANGED <<pool, searchVars>>, work' = Requested, place' = "failed",
         todo # << >>, RequestsBounded'
  PROVE  ClientInv'
<1>1. work \in WorkType /\ pool \in PoolType
  BY WorkIs
<1>2. work' \in WorkType /\ work'.found = work.found
  BY <1>1, RequestedIs
<1>3. SearchTypeOK'
  BY <1>1, <1>2, ClientTypes DEF Places, searchVars
<1>4. PlaceInv'
  BY <1>2 DEF ClientInv, PlaceInv, searchVars, Source, HabrPlaces, VcPlaces, DzenPlaces, EndPlaces
<1>5. WorkInv'
  BY DEF WorkInv, HabrInv, VcInv, DzenInv, AnsweredInv
<1> QED BY <1>3, <1>4, <1>5 DEF ClientInv

(* What a source has found is collected. *)
LEMMA Answers ==
  ASSUME ClientInv, UNCHANGED <<pool, searchVars>>, work' \in WorkType, place' = "collect",
         todo # << >>, RequestsBounded',
         \A k \in DOMAIN work'.found : work'.found[k].source = Source
  PROVE  ClientInv'
<1>1. work \in WorkType /\ pool \in PoolType
  BY WorkIs
<1>3. SearchTypeOK'
  BY <1>1, ClientTypes DEF Places, searchVars
<1>4. PlaceInv'
  BY DEF ClientInv, PlaceInv, searchVars, Source, HabrPlaces, VcPlaces, DzenPlaces, EndPlaces
<1>5. WorkInv'
  BY DEF WorkInv, HabrInv, VcInv, DzenInv, AnsweredInv
<1> QED BY <1>3, <1>4, <1>5 DEF ClientInv

-----------------------------------------------------------------------------
(* habr requests its feed, and every article of it, MaxAttempts times at most. *)
LEMMA HabrKeeps ==
  ASSUME ClientInv, HabrStep
  PROVE  ClientInv'
<1>1. /\ work \in WorkType /\ pool \in PoolType
      /\ query \in Queries /\ query.limit \in 1..100 /\ query.limit \in Nat
      /\ todo # << >> => Source \in EnabledSources /\ Source \in Sources
      /\ work.attempt \in 1..MaxAttempts /\ work.next \in Nat \ {0} /\ work.requests \in Nat
      /\ work.found \in Seq(Candidates) /\ Len(work.found) \in Nat
  BY WorkIs
<1>2. MaxAttempts \in Nat /\ MaxAttempts >= 1 /\ 1 \in 1..MaxAttempts
  BY ConstantsAre
<1>18. DOMAIN work.found = 1..Len(work.found)
  BY <1>1
<1> DEFINE T(n) == MaxAttempts * n
<1>3. /\ Requested \in WorkType /\ Requested.requests = work.requests + 1
      /\ Requested.attempt = work.attempt /\ Requested.found = work.found /\ Requested.next = work.next
  BY <1>1, RequestedIs
<1>4. UNCHANGED <<pool, searchVars>>
  BY DEF HabrStep, HabrFeed, HabrRequestFails, HabrFeedUnreadable, HabrPage, HabrDone
<1>5. place \in HabrPlaces
  BY DEF HabrStep, HabrFeed, HabrRequestFails, HabrFeedUnreadable, HabrPage, HabrDone, HabrPlaces
<1>6. /\ todo # << >> /\ Kind[Source] = "habr"
      /\ \A k \in DOMAIN work.found : work.found[k].source = Source
  BY <1>5 DEF ClientInv, PlaceInv, HabrPlaces, EndPlaces
<1>7. /\ place = "habr_feed" => work.requests = work.attempt - 1 /\ work.next = 1
      /\ place = "habr_article" =>
            /\ work.requests <= T(work.next) + (work.attempt - 1)
            /\ work.next <= Len(work.found) + 1
            /\ work.next > Len(work.found) => work.attempt = 1
            /\ Len(work.found) <= query.limit
  BY DEF ClientInv, WorkInv, HabrInv
<1>8. todo' = todo /\ Source' = Source /\ query' = query /\ provider' = provider
  BY <1>4 DEF searchVars, Source
<1>9. ASSUME work'.requests <= T(query.limit + 1) PROVE RequestsBounded'
  BY <1>6, <1>8, <1>9 DEF RequestsBounded
<1>10. ASSUME NEW m \in Nat, NEW n \in Nat, m <= n
       PROVE  /\ T(m) \in Nat /\ T(n) \in Nat /\ T(m) <= T(n)
              /\ T(n + 1) = T(n) + MaxAttempts
  BY <1>2, <1>10, TimesGrows
<1>19. T(1) = MaxAttempts
  BY <1>2
<1>20. T(1) <= T(query.limit + 1) /\ T(query.limit + 1) \in Nat
  <2>1. 1 \in Nat /\ query.limit + 1 \in Nat /\ 1 <= query.limit + 1
    BY <1>1
  <2> HIDE DEF T
  <2> QED BY <1>10, <2>1
<1>11. ASSUME work.next <= query.limit
       PROVE  /\ T(work.next + 1) = T(work.next) + MaxAttempts
              /\ T(work.next + 1) <= T(query.limit + 1)
              /\ T(work.next) \in Nat /\ T(work.next + 1) \in Nat
  <2>1. work.next \in Nat /\ work.next + 1 \in Nat /\ work.next <= work.next
        /\ query.limit + 1 \in Nat /\ work.next + 1 <= query.limit + 1
    BY <1>1, <1>11
  <2> HIDE DEF T
  <2> QED BY <1>10, <2>1
<1>12. ASSUME place' = "habr_article", work' \in WorkType, work'.found \in Seq(Candidates),
              \A k \in DOMAIN work'.found : work'.found[k].source = Source,
              work'.requests <= T(work'.next) + (work'.attempt - 1),
              work'.next <= Len(work'.found) + 1,
              work'.next > Len(work'.found) => work'.attempt = 1,
              Len(work'.found) <= query.limit
       PROVE  ClientInv'
  <2>1. SearchTypeOK'
    BY <1>1, <1>4, <1>12, ClientTypes DEF Places, searchVars
  <2>2. PlaceInv'
    BY <1>6, <1>8, <1>12 DEF PlaceInv, HabrPlaces, VcPlaces, DzenPlaces, EndPlaces
  <2>3. WorkInv'
    BY <1>8, <1>12 DEF WorkInv, HabrInv, VcInv, DzenInv, AnsweredInv
  <2> QED BY <2>1, <2>2, <2>3 DEF ClientInv
<1> HIDE DEF T
<1>13. CASE HabrFeed
  <2>1. PICK feed \in Feeds[Source] :
           work' = [Requested EXCEPT !.found = HabrCandidates(Source, feed), !.attempt = 1]
    BY <1>13 DEF HabrFeed
  <2>2. /\ HabrCandidates(Source, feed) \in Seq(Candidates)
        /\ Len(HabrCandidates(Source, feed)) <= query.limit
        /\ \A k \in DOMAIN HabrCandidates(Source, feed) : HabrCandidates(Source, feed)[k].source = Source
    BY <1>1, <1>6, CandidatesOfFeed
  <2> DEFINE new == HabrCandidates(Source, feed)
  <2>8. new \in Seq(Candidates)
    BY <2>2
  <2> HIDE DEF new
  <2>9. work' = [Requested EXCEPT !.found = new, !.attempt = 1]
    BY <2>1 DEF new
  <2>3. /\ work' \in WorkType /\ work'.found = new /\ work'.attempt = 1
        /\ work'.next = work.next /\ work'.requests = work.requests + 1
    BY <1>2, <1>3, <2>8, <2>9 DEF WorkType
  <2>4. /\ work'.found \in Seq(Candidates) /\ Len(work'.found) <= query.limit /\ Len(work'.found) \in Nat
        /\ \A k \in DOMAIN work'.found : work'.found[k].source = Source
    BY <2>2, <2>3 DEF new
  <2>5. place = "habr_feed" /\ place' = "habr_article"
    BY <1>13 DEF HabrFeed, Go
  <2>6. work'.next = 1 /\ work'.requests <= MaxAttempts
    BY <1>1, <1>7, <2>3, <2>5
  <2>7. work'.requests <= T(work'.next) + (work'.attempt - 1)
    BY <1>1, <1>2, <1>19, <2>3, <2>6
  <2> QED BY <1>12, <2>3, <2>4, <2>5, <2>6, <2>7
<1>14. CASE HabrRequestFails
  <2>1. place = "habr_feed" \/ (place = "habr_article" /\ work.next <= Len(work.found))
    BY <1>14 DEF HabrRequestFails
  <2>2. CASE work.attempt < MaxAttempts
    <3>1. work' = [Requested EXCEPT !.attempt = work.attempt + 1] /\ place' = place
      BY <1>3, <1>14, <2>2 DEF HabrRequestFails
    <3>a. work.attempt + 1 \in 1..MaxAttempts
      BY <1>1, <1>2, <2>2
    <3>2. /\ work' \in WorkType /\ work'.found = work.found /\ work'.next = work.next
          /\ work'.attempt = work.attempt + 1 /\ work'.requests = work.requests + 1
      BY <1>3, <3>1, <3>a DEF WorkType
    <3>3. CASE place = "habr_feed"
      <4>1. SearchTypeOK'
        BY <1>1, <1>4, <3>1, <3>2, <3>3, ClientTypes DEF Places, searchVars
      <4>2. PlaceInv'
        BY <1>6, <1>8, <3>1, <3>2, <3>3 DEF PlaceInv, HabrPlaces, VcPlaces, DzenPlaces, EndPlaces
      <4>3. work'.requests = work'.attempt - 1 /\ work'.next = 1
        BY <1>1, <1>7, <3>2, <3>3
      <4>4. WorkInv'
        BY <3>1, <3>3, <4>3 DEF WorkInv, HabrInv, VcInv, DzenInv, AnsweredInv
      <4> QED BY <4>1, <4>2, <4>4 DEF ClientInv
    <3>4. CASE place = "habr_article" /\ work.next <= Len(work.found)
      <4>1. work.next <= query.limit
        BY <1>1, <1>7, <3>4
      <4>2. work'.requests <= T(work'.next) + (work'.attempt - 1)
        BY <1>1, <1>2, <1>7, <1>11, <3>2, <3>4, <4>1
      <4>3. work'.next <= Len(work'.found) + 1 /\ ~(work'.next > Len(work'.found))
        BY <1>1, <3>2, <3>4
      <4> QED BY <1>1, <1>6, <1>7, <1>12, <3>1, <3>2, <3>4, <4>2, <4>3
    <3> QED BY <2>1, <3>3, <3>4
  <2>3. CASE ~(work.attempt < MaxAttempts)
    <3>1. work' = Requested /\ place' = "failed"
      BY <1>14, <2>3 DEF HabrRequestFails, Go
    <3>2. work.attempt = MaxAttempts
      BY <1>1, <1>2, <2>3
    <3>3. CASE place = "habr_feed"
      <4>1. work'.requests <= MaxAttempts
        BY <1>1, <1>3, <1>7, <3>1, <3>2, <3>3
      <4>2. work'.requests <= T(query.limit + 1)
        BY <1>1, <1>2, <1>3, <1>20, <1>19, <3>1, <4>1
      <4> QED BY <1>4, <1>6, <1>9, <3>1, <4>2, GivesUp
    <3>4. CASE place = "habr_article" /\ work.next <= Len(work.found)
      <4>1. work.next <= query.limit
        BY <1>1, <1>7, <3>4
      <4>2. work'.requests <= T(work.next) + MaxAttempts
        BY <1>1, <1>2, <1>3, <1>7, <1>11, <3>1, <3>2, <3>4, <4>1
      <4>3. work'.requests <= T(query.limit + 1)
        BY <1>1, <1>2, <1>3, <1>20, <1>19, <1>11, <3>1, <4>1, <4>2
      <4> QED BY <1>4, <1>6, <1>9, <3>1, <4>3, GivesUp
    <3> QED BY <2>1, <3>3, <3>4
  <2> QED BY <2>2, <2>3
<1>15. CASE HabrFeedUnreadable
  <2>1. work' = Requested /\ place' = "failed" /\ place = "habr_feed"
    BY <1>15 DEF HabrFeedUnreadable, Go
  <2>2. work'.requests <= MaxAttempts
    BY <1>1, <1>3, <1>7, <2>1
  <2>3. work'.requests <= T(query.limit + 1)
    BY <1>1, <1>2, <1>3, <1>20, <1>19, <2>1, <2>2
  <2> QED BY <1>4, <1>6, <1>9, <2>1, <2>3, GivesUp
<1>16. CASE HabrPage
  <2> DEFINE c == work.found[work.next]
             a == HabrArticle(c.url)
  <2>1. place = "habr_article" /\ work.next <= Len(work.found) /\ Address(c.url) \in DOMAIN Page
    BY <1>16 DEF HabrPage
  <2>2. work.next \in 1..Len(work.found) /\ work.next \in DOMAIN work.found /\ work.next <= query.limit
    BY <1>1, <1>7, <2>1
  <2>3. c \in Candidates /\ c.source = Source
    BY <1>1, <1>6, <2>2
  <2>4. CASE Valid(a)
    <3>1. work' = [Requested EXCEPT !.attempt = 1, !.next = work.next + 1,
                      !.found = [work.found EXCEPT ![work.next] = Enriched(c, a)]]
          /\ place' = "habr_article"
      BY <1>3, <1>16, <2>4 DEF HabrPage
    <3>2. a.title \in Titles /\ a.date \in Nat /\ a.score \in Int
      BY <2>1, PageIs DEF HabrArticle
    <3>3. Enriched(c, a) \in Candidates /\ Enriched(c, a).source = Source
      BY <2>3, <3>2, EnrichedIs
    <3> DEFINE new == [work.found EXCEPT ![work.next] = Enriched(c, a)]
    <3>4. new \in Seq(Candidates) /\ Len(new) = Len(work.found) /\ DOMAIN new = DOMAIN work.found
      BY <1>1, <1>18, <2>2, <3>3
    <3>5. \A k \in DOMAIN new : new[k].source = Source
      BY <1>1, <1>6, <2>2, <3>3, <3>4
    <3> HIDE DEF new, c, a
    <3>6. work' = [Requested EXCEPT !.attempt = 1, !.next = work.next + 1, !.found = new]
      BY <3>1 DEF new
    <3>a. work.next + 1 \in Nat \ {0} /\ new \in Seq(Candidates)
      BY <1>1, <3>4
    <3>7. /\ work' \in WorkType /\ work'.found = new /\ work'.attempt = 1
          /\ work'.next = work.next + 1 /\ work'.requests = work.requests + 1
      BY <1>2, <1>3, <3>6, <3>a DEF WorkType
    <3>8. work'.requests <= T(work.next + 1)
      BY <1>1, <1>2, <1>7, <1>11, <2>1, <2>2, <3>7
    <3>9. /\ work'.requests <= T(work'.next) + (work'.attempt - 1)
          /\ work'.next <= Len(work'.found) + 1 /\ Len(work'.found) <= query.limit
      BY <1>1, <1>2, <1>7, <1>11, <2>1, <2>2, <3>4, <3>7, <3>8
    <3> QED BY <1>12, <3>1, <3>4, <3>5, <3>7, <3>9
  <2>5. CASE ~Valid(a)
    <3>1. work' = Requested /\ place' = "failed"
      BY <1>16, <2>5 DEF HabrPage, Go
    <3> HIDE DEF a, c
    <3>2. work'.requests <= T(work.next) + MaxAttempts
      BY <1>1, <1>2, <1>3, <1>7, <1>11, <2>1, <2>2, <3>1
    <3>3. work'.requests <= T(query.limit + 1)
      BY <1>1, <1>2, <1>3, <1>20, <1>19, <1>11, <2>2, <3>1, <3>2
    <3> QED BY <1>4, <1>6, <1>9, <3>1, <3>3, GivesUp
  <2> QED BY <2>4, <2>5
<1>17. CASE HabrDone
  <2>1. work' = work /\ place' = "collect" /\ place = "habr_article" /\ work.next > Len(work.found)
    BY <1>17 DEF HabrDone, Go
  <2>2. work.attempt = 1 /\ work.next <= query.limit + 1
    BY <1>1, <1>7, <2>1
  <2>3. work.next \in Nat /\ query.limit + 1 \in Nat
    BY <1>1
  <2>4. T(work.next) <= T(query.limit + 1) /\ T(work.next) \in Nat
        /\ T(query.limit + 1) \in Nat
    BY <1>10, <2>2, <2>3
  <2>5. work'.requests <= T(query.limit + 1)
    BY <1>1, <1>7, <2>1, <2>2, <2>4
  <2> QED BY <1>1, <1>4, <1>6, <1>9, <2>1, <2>5, Answers
<1> QED BY <1>13, <1>14, <1>15, <1>16, <1>17 DEF HabrStep

(* How the requests of vc add up: r requests, u addresses or f articles, of which n is next. *)
LEMMA VcSums ==
  ASSUME NEW r \in Nat, NEW u \in Nat, NEW n \in Nat, NEW l \in Nat, NEW m \in Nat
  PROVE  /\ (r + u <= 2 * l + m + (n - 1)) =>
               ((r + 1) + u <= 2 * l + m + ((n + 1) - 1))
         /\ (r + u <= 2 * l + m + (n - 1) /\ n <= u + 1) => r <= 2 * l + m
         /\ (r <= 2 * l + m + n) => r + 1 <= 2 * l + m + (n + 1)
         /\ (r <= 2 * l + m + n /\ n <= u + 1 /\ u <= l) => r <= 3 * l + 1 + m
         /\ (r <= 2 * l + m) => r <= 3 * l + 1 + m
OBVIOUS

(* vc requests addresses, the articles there, and with none of them its feed and the articles
   of that. *)
LEMMA VcKeeps ==
  ASSUME ClientInv, VcStep
  PROVE  ClientInv'
<1>1. /\ work \in WorkType /\ pool \in PoolType
      /\ query.limit \in 1..100 /\ query.limit \in Nat /\ provider \in Providers
      /\ todo # << >> => Source \in EnabledSources /\ Source \in Sources
      /\ work.next \in Nat \ {0} /\ work.requests \in Nat
      /\ work.urls \in Seq(Urls) /\ Len(work.urls) \in Nat
      /\ work.found \in Seq(Candidates) /\ Len(work.found) \in Nat
  BY WorkIs
<1>2. MaxLinks \in Nat
  BY ConstantsAre
<1>21. /\ query.limit \in Nat /\ query.limit >= 1 /\ MaxLinks \in Nat
       /\ work.next \in Nat /\ work.next >= 1 /\ work.requests \in Nat
       /\ Len(work.urls) \in Nat /\ Len(work.found) \in Nat
  <2>3. query.limit \in 1..100
    BY <1>1
  <2>1. query.limit >= 1
    BY <2>3
  <2>2. work.next \in Nat /\ work.next >= 1
    BY <1>1
  <2> QED BY <1>1, <1>2, <2>1, <2>2
<1>3. /\ Requested \in WorkType /\ Requested.requests = work.requests + 1
      /\ Requested.urls = work.urls /\ Requested.found = work.found /\ Requested.next = work.next
  BY <1>1, RequestedIs
<1>4. UNCHANGED <<pool, searchVars>>
  BY DEF VcStep, DiscoveryPage, WebSearch, UrlSearchFails, VcPage, VcPagesDone, VcFeed, VcFeedFails,
         VcEnrich, VcFeedDone
<1>5. place \in VcPlaces
  BY DEF VcStep, DiscoveryPage, WebSearch, UrlSearchFails, VcPage, VcPagesDone, VcFeed, VcFeedFails,
         VcEnrich, VcFeedDone, VcPlaces
<1>6. /\ todo # << >> /\ Kind[Source] = "vc"
      /\ \A k \in DOMAIN work.found : work.found[k].source = Source
  BY <1>5 DEF ClientInv, PlaceInv, VcPlaces, EndPlaces
<1>7. Source = "vc" /\ "vc" \in Sources
  BY <1>1, <1>6, KindsAre
<1>8. todo' = todo /\ Source' = Source /\ query' = query /\ provider' = provider
  BY <1>4 DEF searchVars, Source
<1>9. VcInv
  BY DEF ClientInv, WorkInv
<1>10. ASSUME work'.requests <= 3 * query.limit + 1 + MaxLinks PROVE RequestsBounded'
  BY <1>6, <1>8, <1>10 DEF RequestsBounded
<1>11. ASSUME place' \in VcPlaces, work' \in WorkType, VcInv',
              \A k \in DOMAIN work'.found : work'.found[k].source = Source
       PROVE  ClientInv'
  <2>1. SearchTypeOK'
    BY <1>1, <1>4, <1>11, ClientTypes DEF Places, VcPlaces, searchVars
  <2>2. PlaceInv'
    BY <1>6, <1>8, <1>11 DEF PlaceInv, HabrPlaces, VcPlaces, DzenPlaces, EndPlaces
  <2>3. WorkInv'
    BY <1>11 DEF WorkInv, HabrInv, DzenInv, AnsweredInv, VcPlaces
  <2> QED BY <2>1, <2>2, <2>3 DEF ClientInv
<1>12. CASE DiscoveryPage
  <2>1. place = "vc_urls" /\ provider = "discovery"
    BY <1>12 DEF DiscoveryPage
  <2>2. /\ work.found = << >> /\ work.next = 1 /\ work.requests <= Len(work.urls)
        /\ Len(work.urls) < query.limit
    BY <1>9, <2>1 DEF VcInv
  <2>3. PICK page \in DiscoveryPages :
           LET added == AppendNew(work.urls, PageEntries[page], query.limit)
               ended == added = work.urls \/ ~page.more \/ Len(added) >= query.limit
           IN  /\ work' = [Requested EXCEPT !.urls = added]
               /\ place' = IF ended THEN "vc_article" ELSE "vc_urls"
    BY <1>12 DEF DiscoveryPage, Go
  <2> DEFINE added == AppendNew(work.urls, PageEntries[page], query.limit)
  <2>4. PageEntries[page] \in Seq(Urls) /\ Len(work.urls) <= query.limit
    BY <1>1, <2>2, AnswersAreUrls
  <2>5. /\ added \in Seq(Urls) /\ Len(added) \in Nat
        /\ Len(work.urls) <= Len(added) /\ Len(added) <= query.limit
        /\ added # work.urls => Len(work.urls) < Len(added)
    BY <1>1, <2>4, AppendNewIs
  <2>6. /\ work' = [Requested EXCEPT !.urls = added]
        /\ place' \in {"vc_article", "vc_urls"}
        /\ place' = "vc_urls" => added # work.urls /\ ~(Len(added) >= query.limit)
    BY <2>3
  <2> HIDE DEF added
  <2>7. /\ work' \in WorkType /\ work'.found = << >> /\ work'.urls = added
        /\ work'.next = 1 /\ work'.requests = work.requests + 1
    BY <1>3, <2>2, <2>5, <2>6 DEF WorkType
  <2>8. CASE place' = "vc_urls"
    <3>1. Len(work.urls) < Len(added) /\ Len(added) < query.limit
      BY <1>1, <2>5, <2>6, <2>8
    <3>2. work'.requests <= Len(added)
      BY <1>1, <2>2, <2>5, <2>7, <3>1
    <3>3. VcInv'
      BY <1>8, <2>1, <2>7, <2>8, <3>1, <3>2 DEF VcInv
    <3>4. \A k \in DOMAIN work'.found : work'.found[k].source = Source
      BY <2>7
    <3> QED BY <1>11, <2>7, <2>8, <3>3, <3>4 DEF VcPlaces
  <2>9. CASE place' = "vc_article"
    <3>1. work'.requests <= query.limit
      BY <1>1, <2>2, <2>7
    <3>2. work'.requests + Len(added) <= 2 * query.limit + MaxLinks + (1 - 1)
      BY <1>1, <1>2, <2>5, <2>7, <3>1
    <3>3. 1 <= Len(added) + 1 /\ Len(work'.found) <= query.limit
      BY <1>1, <2>5, <2>7
    <3>4. VcInv'
      BY <1>8, <2>7, <2>9, <3>2, <3>3 DEF VcInv
    <3>5. \A k \in DOMAIN work'.found : work'.found[k].source = Source
      BY <2>7
    <3> QED BY <1>11, <2>7, <2>9, <3>4, <3>5 DEF VcPlaces
  <2> QED BY <2>6, <2>8, <2>9
<1>13. CASE WebSearch
  <2>1. place = "vc_urls" /\ provider = "web" /\ place' = "vc_article"
    BY <1>13 DEF WebSearch, Go
  <2>2. work.found = << >> /\ work.next = 1 /\ work.requests = 0
    BY <1>9, <2>1 DEF VcInv
  <2>3. PICK links \in WebAnswers : work' = [Requested EXCEPT !.urls = SiteLinks[links]]
    BY <1>13 DEF WebSearch
  <2> DEFINE urls == SiteLinks[links]
  <2>4. urls \in Seq(Urls) /\ Len(urls) <= MaxLinks
    BY AnswersAreUrls
  <2> HIDE DEF urls
  <2>5. Len(urls) \in Nat
    BY <2>4
  <2>6. work' = [Requested EXCEPT !.urls = urls]
    BY <2>3 DEF urls
  <2>7. /\ work' \in WorkType /\ work'.found = << >> /\ work'.urls = urls
        /\ work'.next = 1 /\ work'.requests = work.requests + 1
    BY <1>3, <2>2, <2>4, <2>6 DEF WorkType
  <2>8. work'.requests + Len(urls) <= 2 * query.limit + MaxLinks + (1 - 1)
    BY <1>21, <2>2, <2>4, <2>5, <2>7
  <2>9. 1 <= Len(urls) + 1 /\ Len(work'.found) <= query.limit
    BY <1>1, <2>5, <2>7
  <2>10. VcInv'
    BY <1>8, <2>1, <2>7, <2>8, <2>9 DEF VcInv
  <2>11. \A k \in DOMAIN work'.found : work'.found[k].source = Source
    BY <2>7
  <2> QED BY <1>11, <2>1, <2>7, <2>10, <2>11 DEF VcPlaces
<1>14. CASE UrlSearchFails
  <2>1. /\ place = "vc_urls" /\ place' = "vc_feed"
        /\ work' = [Requested EXCEPT !.err = TRUE, !.urls = << >>]
    BY <1>14 DEF UrlSearchFails, Go
  <2>2. /\ work.found = << >> /\ work.next = 1 /\ provider # "none"
        /\ provider = "discovery" => work.requests <= Len(work.urls) /\ Len(work.urls) < query.limit
        /\ provider = "web" => work.requests = 0
    BY <1>9, <2>1 DEF VcInv
  <2>9. provider \in {"discovery", "web", "none"}
    BY <1>1, SearchAssumption
  <2>3. provider \in {"discovery", "web"}
    BY <2>2, <2>9
  <2>4. work.requests < query.limit
    BY <1>21, <2>2, <2>3
  <2>10. TRUE \in BOOLEAN /\ << >> \in Seq(Urls)
    OBVIOUS
  <2>5. /\ work' \in WorkType /\ work'.found = << >> /\ work'.next = 1
        /\ work'.requests = work.requests + 1
    BY <1>3, <2>1, <2>2, <2>10 DEF WorkType
  <2>6. work'.requests <= 2 * query.limit + MaxLinks
    BY <1>21, <2>4, <2>5
  <2>7. VcInv'
    BY <1>8, <2>1, <2>5, <2>6 DEF VcInv
  <2>8. \A k \in DOMAIN work'.found : work'.found[k].source = Source
    BY <2>5
  <2> QED BY <1>11, <2>1, <2>5, <2>7, <2>8 DEF VcPlaces
<1>15. CASE VcPage
  <2> DEFINE u == work.urls[work.next]
  <2>1. /\ place = "vc_article" /\ place' = "vc_article"
        /\ work.next <= Len(work.urls) /\ Len(work.found) < query.limit
    BY <1>15 DEF VcPage, MoreVcPages
  <2>2. work.requests + Len(work.urls) <= 2 * query.limit + MaxLinks + (work.next - 1)
    BY <1>9, <2>1 DEF VcInv
  <2>3. u \in Urls
    BY <1>1, <2>1
  <2>4. PICK new \in Seq(Candidates) :
           /\ work' = [Requested EXCEPT !.next = work.next + 1, !.found = new]
           /\ Len(new) <= Len(work.found) + 1
           /\ \A k \in DOMAIN new : new[k].source = Source
    <3>1. CASE work' = [Requested EXCEPT !.next = @ + 1]
      <4>1. work' = [Requested EXCEPT !.next = work.next + 1, !.found = work.found]
        BY <1>3, <3>1 DEF WorkType
      <4>2. Len(work.found) <= Len(work.found) + 1
        BY <1>1
      <4> QED BY <1>1, <1>6, <4>1, <4>2
    <3>2. CASE /\ Address(u) \in DOMAIN Page
               /\ \E entry \in VcEntries(u) :
                     work' = [Requested EXCEPT !.next = @ + 1,
                                 !.found = IF Valid(VcArticle(u, entry))
                                           THEN Append(@, VcArticle(u, entry)) ELSE @]
      <4>1. PICK entry \in VcEntries(u) :
                     work' = [Requested EXCEPT !.next = @ + 1,
                                 !.found = IF Valid(VcArticle(u, entry))
                                           THEN Append(@, VcArticle(u, entry)) ELSE @]
        BY <3>2
      <4> DEFINE a == VcArticle(u, entry)
                 new == IF Valid(a) THEN Append(work.found, a) ELSE work.found
      <4>2. a \in Candidates /\ a.source = Source
        BY <1>7, <2>3, <3>2, VcArticleIs
      <4>3. work' = [Requested EXCEPT !.next = work.next + 1, !.found = new]
        BY <1>3, <4>1 DEF WorkType
      <4> HIDE DEF a
      <4>4. new \in Seq(Candidates) /\ Len(new) <= Len(work.found) + 1
        BY <1>1, <4>2
      <4>5. \A k \in DOMAIN new : new[k].source = Source
        BY <1>1, <1>6, <4>2
      <4> HIDE DEF new
      <4> QED BY <4>3, <4>4, <4>5
    <3> QED BY <1>15, <3>1, <3>2 DEF VcPage
  <2> HIDE DEF u
  <2>5. /\ work' \in WorkType /\ work'.found = new /\ work'.urls = work.urls
        /\ work'.next = work.next + 1 /\ work'.requests = work.requests + 1
    <3>1. work.next + 1 \in Nat \ {0}
      BY <1>1
    <3> QED BY <1>3, <2>4, <3>1 DEF WorkType
  <2>6. Len(new) \in Nat /\ Len(new) <= query.limit
    BY <1>1, <2>1, <2>4
  <2>7. work'.requests + Len(work'.urls) <= 2 * query.limit + MaxLinks + (work'.next - 1)
    <3>1. work'.requests = work.requests + 1 /\ work'.urls = work.urls /\ work'.next = work.next + 1
      BY <2>5
    <3>2. work.requests + Len(work.urls) <= 2 * query.limit + MaxLinks + (work.next - 1)
      BY <2>2
    <3>3. (work.requests + 1) + Len(work.urls)
             <= 2 * query.limit + MaxLinks + ((work.next + 1) - 1)
      BY <1>21, <3>2, VcSums, Zenon
    <3> QED BY <3>1, <3>3, Zenon
  <2>8. work'.next <= Len(work'.urls) + 1
    BY <1>1, <2>1, <2>5
  <2>9. VcInv'
    BY <1>8, <2>1, <2>5, <2>6, <2>7, <2>8 DEF VcInv
  <2> QED BY <1>11, <2>1, <2>4, <2>5, <2>9 DEF VcPlaces
<1>16. CASE VcPagesDone
  <2>1. /\ place = "vc_article" /\ work' = [work EXCEPT !.next = 1]
        /\ place' = IF work.found # << >> THEN "collect" ELSE "vc_feed"
    BY <1>16 DEF VcPagesDone, Go
  <2>2. /\ work.requests + Len(work.urls) <= 2 * query.limit + MaxLinks + (work.next - 1)
        /\ work.next <= Len(work.urls) + 1
    BY <1>9, <2>1 DEF VcInv
  <2>3. work.requests <= 2 * query.limit + MaxLinks
    BY <1>21, <2>2, VcSums, Zenon
  <2>4. /\ work' \in WorkType /\ work'.found = work.found /\ work'.next = 1
        /\ work'.requests = work.requests
    BY <1>1, <2>1 DEF WorkType
  <2>5. CASE place' = "collect"
    <3>1. work'.requests <= 3 * query.limit + 1 + MaxLinks
      BY <1>21, <2>3, <2>4
    <3> QED BY <1>4, <1>6, <1>10, <2>4, <2>5, <3>1, Answers
  <2>6. CASE place' = "vc_feed"
    <3>1. VcInv'
      BY <1>8, <2>3, <2>4, <2>6 DEF VcInv
    <3> QED BY <1>6, <1>11, <2>4, <2>6, <3>1 DEF VcPlaces
  <2> QED BY <2>1, <2>5, <2>6
<1>17. CASE VcFeed
  <2>1. place = "vc_feed" /\ place' = "vc_enrich"
    BY <1>17 DEF VcFeed, Go
  <2>2. work.requests <= 2 * query.limit + MaxLinks /\ work.next = 1
    BY <1>9, <2>1 DEF VcInv
  <2>3. PICK feed \in Feeds[Source] : work' = [Requested EXCEPT !.found = RssCandidates(Source, feed)]
    BY <1>17 DEF VcFeed
  <2> DEFINE new == RssCandidates(Source, feed)
  <2>4. new \in Seq(Candidates) /\ Len(new) <= query.limit
        /\ \A k \in DOMAIN new : new[k].source = Source
    BY <1>1, <1>6, CandidatesOfFeed
  <2> HIDE DEF new
  <2>5. work' = [Requested EXCEPT !.found = new]
    BY <2>3 DEF new
  <2>6. /\ work' \in WorkType /\ work'.found = new /\ work'.next = work.next
        /\ work'.requests = work.requests + 1
    BY <1>3, <2>4, <2>5 DEF WorkType
  <2>7. Len(new) \in Nat
    BY <2>4
  <2>8. work'.requests <= 2 * query.limit + MaxLinks + work'.next /\ work'.next <= Len(new) + 1
    BY <1>21, <2>2, <2>6, <2>7
  <2>9. VcInv'
    BY <1>8, <2>1, <2>4, <2>6, <2>8 DEF VcInv
  <2> QED BY <1>11, <2>1, <2>4, <2>6, <2>9 DEF VcPlaces
<1>18. CASE VcFeedFails
  <2>1. place = "vc_feed" /\ place' = "failed" /\ work' = Requested
    BY <1>18 DEF VcFeedFails, Go
  <2>2. work.requests <= 2 * query.limit + MaxLinks
    BY <1>9, <2>1 DEF VcInv
  <2>3. work'.requests <= 3 * query.limit + 1 + MaxLinks
    BY <1>21, <1>3, <2>1, <2>2
  <2> QED BY <1>4, <1>6, <1>10, <2>1, <2>3, GivesUp
<1>19. CASE VcEnrich
  <2> DEFINE c == work.found[work.next]
  <2>1. place = "vc_enrich" /\ place' = "vc_enrich" /\ work.next <= Len(work.found)
    BY <1>19 DEF VcEnrich
  <2>2. /\ work.requests <= 2 * query.limit + MaxLinks + work.next
        /\ Len(work.found) <= query.limit
    BY <1>9, <2>1 DEF VcInv
  <2>3. work.next \in 1..Len(work.found) /\ DOMAIN work.found = 1..Len(work.found)
    BY <1>1, <2>1
  <2>4. c \in Candidates /\ c.source = Source
    BY <1>1, <1>6, <2>3
  <2>5. PICK new \in Seq(Candidates) :
           /\ work' = [Requested EXCEPT !.next = work.next + 1, !.found = new]
           /\ Len(new) = Len(work.found)
           /\ \A k \in DOMAIN new : new[k].source = Source
    <3>1. CASE work' = [Requested EXCEPT !.next = @ + 1]
      <4>1. work' = [Requested EXCEPT !.next = work.next + 1, !.found = work.found]
        BY <1>3, <3>1 DEF WorkType
      <4> QED BY <1>1, <1>6, <4>1
    <3>2. CASE /\ Address(c.url) \in DOMAIN Page
               /\ \E entry \in VcEntries(c.url) :
                     work' = [Requested EXCEPT !.next = @ + 1,
                                 !.found[work.next] =
                                     IF Valid(VcArticle(c.url, entry))
                                     THEN [Enriched(c, VcArticle(c.url, entry))
                                              EXCEPT !.url = VcArticle(c.url, entry).url]
                                     ELSE c]
      <4>1. PICK entry \in VcEntries(c.url) :
                     work' = [Requested EXCEPT !.next = @ + 1,
                                 !.found[work.next] =
                                     IF Valid(VcArticle(c.url, entry))
                                     THEN [Enriched(c, VcArticle(c.url, entry))
                                              EXCEPT !.url = VcArticle(c.url, entry).url]
                                     ELSE c]
        BY <3>2
      <4> DEFINE a == VcArticle(c.url, entry)
                 b == IF Valid(a) THEN [Enriched(c, a) EXCEPT !.url = a.url] ELSE c
                 new == [work.found EXCEPT ![work.next] = b]
      <4>2. c.url \in Urls
        BY <2>4 DEF Candidates
      <4>3. a \in Candidates
        BY <1>7, <3>2, <4>2, VcArticleIs
      <4>4. work' = [Requested EXCEPT !.next = work.next + 1, !.found = new]
        BY <1>3, <4>1 DEF WorkType
      <4> HIDE DEF a
      <4>5. a.url \in Urls /\ a.title \in Titles /\ a.date \in Nat /\ a.score \in Int
        BY <4>3 DEF Candidates
      <4>6. Enriched(c, a) \in Candidates /\ Enriched(c, a).source = Source
        BY <2>4, <4>5, EnrichedIs
      <4>7. b \in Candidates /\ b.source = Source
        BY <2>4, <4>5, <4>6 DEF Candidates
      <4> HIDE DEF b
      <4>8. new \in Seq(Candidates) /\ Len(new) = Len(work.found) /\ DOMAIN new = DOMAIN work.found
        BY <1>1, <2>3, <4>7
      <4>9. \A k \in DOMAIN new : new[k].source = Source
        BY <1>1, <1>6, <2>3, <4>7, <4>8
      <4> HIDE DEF new
      <4> QED BY <4>4, <4>8, <4>9
    <3> QED BY <1>19, <3>1, <3>2 DEF VcEnrich
  <2> HIDE DEF c
  <2>6. /\ work' \in WorkType /\ work'.found = new
        /\ work'.next = work.next + 1 /\ work'.requests = work.requests + 1
    <3>1. work.next + 1 \in Nat \ {0}
      BY <1>1
    <3> QED BY <1>3, <2>5, <3>1 DEF WorkType
  <2>7. work'.requests <= 2 * query.limit + MaxLinks + work'.next /\ work'.next <= Len(new) + 1
    <3>1. work.requests + 1 <= 2 * query.limit + MaxLinks + (work.next + 1)
      BY <1>21, <2>2, VcSums, Zenon
    <3>2. work'.requests <= 2 * query.limit + MaxLinks + work'.next
      BY <2>6, <3>1, Zenon
    <3>3. work'.next <= Len(new) + 1
      BY <1>21, <2>1, <2>5, <2>6
    <3> QED BY <3>2, <3>3
  <2>8. VcInv'
    BY <1>8, <2>1, <2>2, <2>5, <2>6, <2>7 DEF VcInv
  <2> QED BY <1>11, <2>1, <2>5, <2>6, <2>8 DEF VcPlaces
<1>20. CASE VcFeedDone
  <2>1. /\ place = "vc_enrich" /\ work' = work
        /\ place' = IF work.found = << >> /\ work.err THEN "failed" ELSE "collect"
    BY <1>20 DEF VcFeedDone, Go
  <2>2. /\ work.requests <= 2 * query.limit + MaxLinks + work.next
        /\ work.next <= Len(work.found) + 1
        /\ Len(work.found) <= query.limit
    BY <1>9, <2>1 DEF VcInv
  <2>3. work'.requests <= 3 * query.limit + 1 + MaxLinks
    <3>1. work.requests <= 3 * query.limit + 1 + MaxLinks
      BY <1>21, <2>2, VcSums, Zenon
    <3> QED BY <2>1, <3>1, Zenon
  <2>4. CASE place' = "collect"
    BY <1>1, <1>4, <1>6, <1>10, <2>1, <2>3, <2>4, Answers
  <2>5. CASE place' = "failed"
    <3>1. SearchTypeOK'
      BY <1>1, <1>4, <2>1, <2>5, ClientTypes DEF Places, searchVars
    <3>2. PlaceInv'
      BY <1>6, <1>8, <2>1, <2>5 DEF PlaceInv, HabrPlaces, VcPlaces, DzenPlaces, EndPlaces
    <3>3. WorkInv'
      BY <1>10, <2>3, <2>5 DEF WorkInv, HabrInv, VcInv, DzenInv, AnsweredInv
    <3> QED BY <3>1, <3>2, <3>3 DEF ClientInv
  <2> QED BY <2>1, <2>4, <2>5
<1> QED BY <1>12, <1>13, <1>14, <1>15, <1>16, <1>17, <1>18, <1>19, <1>20 DEF VcStep

-----------------------------------------------------------------------------
(* Numbers that are all different, and all the numbers there are. *)
Different(f, m) == \A j, k \in 1..m : f[j] = f[k] => j = k
AllNumbers(f, m, n) == \A i \in 1..n : \E k \in 1..m : f[k] = i

(* Numbers of a list that are all different are not more than there are, and as many if none
   is missing. *)
LEMMA DifferentNumbers ==
  ASSUME NEW m \in Nat, NEW n \in Nat, NEW f \in [1..m -> 1..n], Different(f, m)
  PROVE  m <= n /\ (AllNumbers(f, m, n) => m = n)
<1>1. f \in Injection(1..m, 1..n)
  BY DEF Different, Injection, IsInjective
<1>2. IsFiniteSet(1..m) /\ Cardinality(1..m) = m /\ IsFiniteSet(1..n) /\ Cardinality(1..n) = n
  BY FS_Interval
<1>3. m <= n /\ (m = n <=> f \in Surjection(1..m, 1..n))
  BY <1>1, <1>2, FS_Injection
<1>4. AllNumbers(f, m, n) => f \in Surjection(1..m, 1..n)
  BY DEF AllNumbers, Surjection
<1> QED BY <1>3, <1>4

(* dzen collects a number of addresses. *)
LEMMA TargetIs ==
  ASSUME query.limit \in Nat
  PROVE  Target \in Nat
BY ConstantsAre DEF Target

(* The addresses of a search page are added up to the target. *)
LEMMA AddLinksIs ==
  ASSUME NEW urls \in Seq(Urls), NEW page \in DzenPages, Target \in Nat, Len(urls) <= Target
  PROVE  AddLinks(urls, page) \in Seq(Urls) /\ Len(AddLinks(urls, page)) \in Nat
         /\ Len(AddLinks(urls, page)) <= Target
<1> DEFINE more == Cut(PageLinks[page], Target - Len(urls))
<1>1. PageLinks[page] \in Seq(Urls)
  BY AnswersAreUrls
<1>2. Target - Len(urls) \in Nat
  OBVIOUS
<1>3. more \in Seq(Urls)
  BY <1>1, <1>2, CutIs
<1>4. AddLinks(urls, page) = AppendNew(urls, more, Target)
  BY DEF AddLinks
<1> HIDE DEF more
<1> QED BY <1>3, <1>4, AppendNewIs

(* The pool begins with nothing handed out. *)
LEMMA PoolStarts ==
  ASSUME pool' = NewPool, Len(work'.urls) \in Nat
  PROVE  PoolInv'
<1>1. pool'.given = 0 /\ pool'.busy = [w \in Workers |-> 0] /\ pool'.results = << >>
  BY DEF NewPool
<1>2. DOMAIN pool'.results = {} /\ 1..pool'.given = {}
  BY <1>1
<1>3. pool'.given <= Len(work'.urls)
  BY <1>1
<1>4. \A w \in Workers : pool'.busy[w] = 0
  BY <1>1
<1> QED BY <1>1, <1>2, <1>3, <1>4 DEF PoolInv

(* An address is handed to one worker. *)
LEMMA GiveAddressKeeps ==
  ASSUME ClientInv, NEW w \in Workers, GiveAddress(w)
  PROVE  ClientInv'
<1>1. work \in WorkType /\ pool \in PoolType /\ Len(work.urls) \in Nat
  BY WorkIs
<1>2. /\ place = "dzen_fetch" /\ pool.given < Len(work.urls) /\ pool.busy[w] = 0
      /\ pool' = [pool EXCEPT !.given = pool.given + 1, !.busy[w] = pool.given + 1]
      /\ UNCHANGED <<place, work, searchVars>>
  BY <1>1 DEF GiveAddress, PoolType
<1>3. pool.given \in Nat /\ pool.busy \in [Workers -> Nat] /\ pool.results \in Seq([index : Nat, ok : BOOLEAN])
  BY <1>1 DEF PoolType
<1>4. pool.given + 1 \in Nat
  BY <1>3
<1>5. /\ pool' \in PoolType /\ pool'.given = pool.given + 1
      /\ pool'.busy = [pool.busy EXCEPT ![w] = pool.given + 1]
      /\ pool'.results = pool.results
  BY <1>1, <1>2, <1>3, <1>4 DEF PoolType
<1>6. PoolInv
  BY <1>2 DEF ClientInv, WorkInv, DzenInv
<1>7. SearchTypeOK'
  BY <1>1, <1>2, <1>5, ClientTypes DEF ClientInv, SearchTypeOK
<1>8. PlaceInv'
  BY <1>2 DEF ClientInv, PlaceInv, searchVars, Source
<1>9. PoolInv'
  <2>1. pool'.given <= Len(work'.urls)
    BY <1>1, <1>2, <1>3, <1>5
  <2>2. /\ pool'.busy[w] = pool.given + 1
        /\ \A v \in Workers : v # w => pool'.busy[v] = pool.busy[v]
    BY <1>3, <1>5
  <2>3. \A v \in Workers : pool.busy[v] \in Nat /\ pool.busy[v] <= pool.given
    BY <1>3, <1>6 DEF PoolInv
  <2>4. \A v \in Workers : pool'.busy[v] <= pool'.given
    BY <1>3, <1>5, <2>2, <2>3
  <2>5. \A v \in Workers : v # w => pool'.busy[v] # pool.given + 1
    BY <1>3, <2>2, <2>3
  <2>6. \A u, v \in Workers : u # v /\ pool'.busy[u] # 0 => pool'.busy[u] # pool'.busy[v]
    BY <1>6, <2>2, <2>5 DEF PoolInv
  <2>7. ASSUME NEW k \in DOMAIN pool.results
        PROVE  /\ pool.results[k].index \in 1..(pool.given + 1)
               /\ pool.results[k].index # pool.given + 1
    BY <1>3, <1>6 DEF PoolInv
  <2>8. \A k \in DOMAIN pool.results :
          /\ pool.results[k].index \in 1..(pool.given + 1)
          /\ \A v \in Workers : pool'.busy[v] # pool.results[k].index
          /\ \A m \in DOMAIN pool.results : pool.results[k].index = pool.results[m].index => k = m
          /\ pool.results[k].ok => Address(work.urls[pool.results[k].index]) \in DOMAIN Page
    BY <1>6, <2>2, <2>7 DEF PoolInv
  <2>9. ASSUME NEW i \in 1..(pool.given + 1)
        PROVE  \/ \E v \in Workers : pool'.busy[v] = i
               \/ \E k \in DOMAIN pool.results : pool.results[k].index = i
    <3>1. CASE i = pool.given + 1
      BY <2>2, <3>1
    <3>2. CASE i # pool.given + 1
      <4>1. i \in 1..pool.given /\ i # 0
        BY <1>3, <3>2
      <4>2. CASE \E k \in DOMAIN pool.results : pool.results[k].index = i
        BY <4>2
      <4>3. CASE \E v \in Workers : pool.busy[v] = i
        BY <1>2, <2>2, <4>1, <4>3
      <4> QED BY <1>6, <4>1, <4>2, <4>3 DEF PoolInv
    <3> QED BY <3>1, <3>2
  <2> QED BY <1>2, <1>5, <2>1, <2>4, <2>6, <2>8, <2>9 DEF PoolInv
<1>10. WorkInv'
  <2>1. Target' = Target
    BY <1>2 DEF Target, searchVars
  <2> QED BY <1>2, <1>5, <1>9, <2>1 DEF ClientInv, WorkInv, HabrInv, VcInv, DzenInv, AnsweredInv
<1> QED BY <1>7, <1>8, <1>10 DEF ClientInv

(* A worker that has requested its page has sent its result, and has nothing to do. *)
LEMMA FetchPageKeeps ==
  ASSUME ClientInv, NEW w \in Workers, FetchPage(w)
  PROVE  ClientInv'
<1> DEFINE index == pool.busy[w]
<1>1. /\ work \in WorkType /\ pool \in PoolType /\ Len(work.urls) \in Nat /\ work.requests \in Nat
      /\ query.limit \in Nat
  BY WorkIs
<1>2. PICK ok \in BOOLEAN :
         /\ pool' = [pool EXCEPT !.busy[w] = 0,
                                 !.results = Append(pool.results, [index |-> index, ok |-> ok])]
         /\ ok => Address(work.urls[index]) \in DOMAIN Page
  BY <1>1 DEF FetchPage, PoolType
<1>3. place = "dzen_fetch" /\ index # 0 /\ work' = Requested /\ UNCHANGED <<place, searchVars>>
  BY DEF FetchPage
<1>4. pool.given \in Nat /\ pool.busy \in [Workers -> Nat] /\ pool.results \in Seq([index : Nat, ok : BOOLEAN])
  BY <1>1 DEF PoolType
<1>5. index \in Nat
  BY <1>4
<1> DEFINE new == [index |-> index, ok |-> ok]
           n == Len(pool.results)
<1>6. new \in [index : Nat, ok : BOOLEAN] /\ new.index = index /\ new.ok = ok
  BY <1>5
<1>7. n \in Nat
  BY <1>4
<1>8. /\ Append(pool.results, new) \in Seq([index : Nat, ok : BOOLEAN])
      /\ Len(Append(pool.results, new)) = n + 1
      /\ DOMAIN Append(pool.results, new) = 1..(n + 1)
      /\ DOMAIN pool.results = 1..n
      /\ \A k \in 1..n : Append(pool.results, new)[k] = pool.results[k]
      /\ Append(pool.results, new)[n + 1] = new
  BY <1>4, <1>6
<1>18. pool' = [pool EXCEPT !.busy[w] = 0, !.results = Append(pool.results, new)]
  BY <1>2
<1> HIDE DEF new, n
<1>9. /\ pool' \in PoolType /\ pool'.given = pool.given
      /\ pool'.busy = [pool.busy EXCEPT ![w] = 0]
      /\ pool'.results = Append(pool.results, new)
  BY <1>1, <1>4, <1>8, <1>18 DEF PoolType
<1>10. PoolInv
  BY <1>3 DEF ClientInv, WorkInv, DzenInv
<1>11. /\ work' \in WorkType /\ work'.urls = work.urls /\ work'.found = work.found
       /\ work'.requests = work.requests + 1
  BY <1>1, <1>3, RequestedIs
<1>12. SearchTypeOK'
  BY <1>1, <1>3, <1>9, <1>11, ClientTypes DEF ClientInv, SearchTypeOK
<1>13. PlaceInv'
  BY <1>3, <1>11 DEF ClientInv, PlaceInv, searchVars, Source
<1>14. PoolInv'
  <2>1. pool'.given <= Len(work'.urls)
    BY <1>9, <1>10, <1>11 DEF PoolInv
  <2>2. /\ pool'.busy[w] = 0
        /\ \A v \in Workers : v # w => pool'.busy[v] = pool.busy[v]
    BY <1>4, <1>9
  <2>3. index \in 1..pool.given
    BY <1>3, <1>4, <1>5, <1>10 DEF PoolInv
  <2>4. \A v \in Workers : pool'.busy[v] <= pool'.given
    BY <1>4, <1>9, <1>10, <2>2 DEF PoolInv
  <2>5. \A u, v \in Workers : u # v /\ pool'.busy[u] # 0 => pool'.busy[u] # pool'.busy[v]
    BY <1>10, <2>2 DEF PoolInv
  <2>6. \A v \in Workers : pool'.busy[v] # index
    BY <1>3, <1>10, <2>2 DEF PoolInv
  <2>7. \A k \in 1..n : pool'.results[k] = pool.results[k]
    BY <1>8, <1>9
  <2>8. pool'.results[n + 1] = new
    BY <1>8, <1>9
  <2>9. \A k \in 1..n : pool.results[k].index # index
    BY <1>8, <1>10 DEF PoolInv
  <2>10. \A k \in 1..(n + 1) : k \in 1..n \/ k = n + 1
    BY <1>7
  <2>11. \A k \in 1..n :
          /\ pool.results[k].index \in 1..pool.given
          /\ \A v \in Workers : pool'.busy[v] # pool.results[k].index
          /\ \A m \in 1..n : pool.results[k].index = pool.results[m].index => k = m
          /\ pool.results[k].ok => Address(work.urls[pool.results[k].index]) \in DOMAIN Page
    <3>1. \A k \in 1..n :
             /\ pool.results[k].index \in 1..pool.given
             /\ \A v \in Workers : pool.busy[v] # pool.results[k].index
             /\ \A m \in 1..n : pool.results[k].index = pool.results[m].index => k = m
             /\ pool.results[k].ok => Address(work.urls[pool.results[k].index]) \in DOMAIN Page
      BY <1>8, <1>10, Zenon DEF PoolInv
    <3>2. \A g : g \in 1..pool.given => g # 0
      BY <1>4
    <3>3. \A k \in 1..n : \A v \in Workers : pool'.busy[v] # pool.results[k].index
      BY <2>2, <3>1, <3>2, Zenon
    <3> QED BY <3>1, <3>3, Zenon
  <2>12. \A k \in DOMAIN pool'.results :
          /\ pool'.results[k].index \in 1..pool'.given
          /\ \A v \in Workers : pool'.busy[v] # pool'.results[k].index
          /\ \A m \in DOMAIN pool'.results : pool'.results[k].index = pool'.results[m].index => k = m
          /\ pool'.results[k].ok => Address(work'.urls[pool'.results[k].index]) \in DOMAIN Page
    <3>1. DOMAIN pool'.results = 1..(n + 1)
      BY <1>8, <1>9
    <3>2. ASSUME NEW k \in 1..n
          PROVE  /\ pool'.results[k].index \in 1..pool'.given
                 /\ \A v \in Workers : pool'.busy[v] # pool'.results[k].index
                 /\ \A m \in 1..(n + 1) : pool'.results[k].index = pool'.results[m].index => k = m
                 /\ pool'.results[k].ok => Address(work'.urls[pool'.results[k].index]) \in DOMAIN Page
      <4>1. pool'.results[k] = pool.results[k] /\ pool.results[k].index # index
        BY <2>7, <2>9
      <4>2. ASSUME NEW m \in 1..(n + 1), pool.results[k].index = pool'.results[m].index PROVE k = m
        <5>1. m # n + 1
          BY <1>6, <2>8, <4>1, <4>2
        <5>2. m \in 1..n /\ pool'.results[m] = pool.results[m]
          BY <2>7, <2>10, <5>1
        <5> QED BY <2>11, <4>2, <5>2
      <4>3. /\ pool.results[k].index \in 1..pool.given
            /\ \A v \in Workers : pool'.busy[v] # pool.results[k].index
            /\ pool.results[k].ok => Address(work.urls[pool.results[k].index]) \in DOMAIN Page
        BY <2>11, Zenon
      <4>4. pool'.given = pool.given /\ work'.urls = work.urls /\ pool'.results[k] = pool.results[k]
        BY <1>9, <1>11, <4>1
      <4> QED BY <4>2, <4>3, <4>4, Zenon
    <3>3. /\ new.index \in 1..pool'.given
          /\ \A v \in Workers : pool'.busy[v] # new.index
          /\ \A m \in 1..(n + 1) : new.index = pool'.results[m].index => n + 1 = m
          /\ new.ok => Address(work'.urls[new.index]) \in DOMAIN Page
      BY <1>2, <1>6, <1>9, <1>11, <2>3, <2>6, <2>7, <2>9, <2>10
    <3> QED BY <2>8, <2>10, <3>1, <3>2, <3>3
  <2>13. ASSUME NEW i \in 1..pool.given
         PROVE  \/ \E v \in Workers : pool'.busy[v] = i
                \/ \E k \in DOMAIN pool'.results : pool'.results[k].index = i
    <3>1. n + 1 \in DOMAIN pool'.results
      BY <1>7, <1>8, <1>9
    <3>2. CASE i = index
      BY <1>6, <2>8, <3>1, <3>2
    <3>3. CASE i # index
      <4>1. CASE \E v \in Workers : pool.busy[v] = i
        BY <2>2, <3>3, <4>1
      <4>2. CASE \E k \in DOMAIN pool.results : pool.results[k].index = i
        <5>1. PICK k \in 1..n : pool.results[k].index = i
          BY <1>8, <4>2
        <5>2. k \in DOMAIN pool'.results
          BY <1>7, <1>8, <1>9
        <5> QED BY <2>7, <5>1, <5>2
      <4> QED BY <1>10, <4>1, <4>2 DEF PoolInv
    <3> QED BY <3>2, <3>3
  <2> QED BY <1>9, <2>1, <2>4, <2>5, <2>12, <2>13 DEF PoolInv
<1>15. WorkInv'
  <2>1. Target' = Target
    BY <1>3 DEF Target, searchVars
  <2>2. work.requests <= MaxSearchPages + n /\ Len(work.urls) <= Target
    BY <1>3 DEF ClientInv, WorkInv, DzenInv, n
  <2>3. Len(pool'.results) = n + 1
    BY <1>8, <1>9
  <2>4. MaxSearchPages \in Nat
    BY ConstantsAre
  <2>5. work'.requests <= MaxSearchPages + (n + 1)
    BY <1>1, <1>7, <1>11, <2>2, <2>4
  <2> QED BY <1>3, <1>11, <1>14, <2>1, <2>2, <2>3, <2>5 DEF WorkInv, HabrInv, VcInv, DzenInv, AnsweredInv
<1> QED BY <1>12, <1>13, <1>15 DEF ClientInv

(* When all addresses are handed out and no worker is busy, every address has one result. *)
LEMMA PoolIsDone ==
  ASSUME work \in WorkType, pool \in PoolType, PoolInv, PoolDone
  PROVE  /\ Len(pool.results) = Len(work.urls)
         /\ \A k \in DOMAIN pool.results : pool.results[k].index \in DOMAIN work.urls
         /\ \A i \in DOMAIN work.urls : \E r \in Range(pool.results) : r.index = i
         /\ \A r, t \in Range(pool.results) : r.index = t.index => r = t
         /\ \A r \in Range(pool.results) : r \in [index : Nat, ok : BOOLEAN]
                                           /\ (r.ok => Address(work.urls[r.index]) \in DOMAIN Page)
<1> DEFINE m == Len(pool.results)
           n == Len(work.urls)
           f == [k \in 1..m |-> pool.results[k].index]
<1>1. pool.results \in Seq([index : Nat, ok : BOOLEAN]) /\ work.urls \in Seq(Urls)
  BY DEF WorkType, PoolType
<1>2. m \in Nat /\ n \in Nat /\ DOMAIN pool.results = 1..m /\ DOMAIN work.urls = 1..n
  BY <1>1
<1>3. pool.given = n /\ \A w \in Workers : pool.busy[w] = 0
  BY DEF PoolDone
<1>4. Range(pool.results) = {pool.results[k] : k \in 1..m}
  BY <1>2 DEF Range
<1>13. \A k \in 1..m : pool.results[k] \in [index : Nat, ok : BOOLEAN]
  <2> DEFINE R == [index : Nat, ok : BOOLEAN]
  <2>1. pool.results \in Seq(R)
    BY <1>1
  <2> HIDE DEF R
  <2>2. \A k \in 1..m : pool.results[k] \in R
    BY <2>1
  <2> QED BY <2>2 DEF R
<1> HIDE DEF m, n
<1>5. \A k \in 1..m : pool.results[k].index \in 1..n
  BY <1>2, <1>3 DEF PoolInv
<1>6. \A j, k \in 1..m : pool.results[j].index = pool.results[k].index => j = k
  BY <1>2 DEF PoolInv
<1>7. ASSUME NEW i \in 1..n PROVE \E k \in 1..m : pool.results[k].index = i
  <2>1. i # 0
    BY <1>2
  <2> QED BY <1>2, <1>3, <2>1 DEF PoolInv
<1>8. m = n
  <2>1. f \in [1..m -> 1..n]
    BY <1>5
  <2>4. \A k \in 1..m : f[k] = pool.results[k].index
    OBVIOUS
  <2> HIDE DEF f
  <2>2. Different(f, m)
    BY <1>6, <2>4 DEF Different
  <2>3. AllNumbers(f, m, n)
    BY <1>7, <2>4 DEF AllNumbers
  <2>5. m \in Nat /\ n \in Nat
    BY <1>2
  <2> QED BY <2>1, <2>2, <2>3, <2>5, DifferentNumbers
<1>9. \A k \in 1..m : pool.results[k] \in [index : Nat, ok : BOOLEAN]
                      /\ (pool.results[k].ok => Address(work.urls[pool.results[k].index]) \in DOMAIN Page)
  <2>2. \A k \in 1..m : pool.results[k].ok => Address(work.urls[pool.results[k].index]) \in DOMAIN Page
    BY <1>2 DEF PoolInv
  <2> QED BY <1>13, <2>2
<1>10. \A i \in 1..n : \E r \in Range(pool.results) : r.index = i
  BY <1>4, <1>7
<1>11. \A r, t \in Range(pool.results) : r.index = t.index => r = t
  BY <1>4, <1>6
<1>12. \A r \in Range(pool.results) : r \in [index : Nat, ok : BOOLEAN]
                                      /\ (r.ok => Address(work.urls[r.index]) \in DOMAIN Page)
  BY <1>4, <1>9
<1> QED BY <1>2, <1>5, <1>8, <1>10, <1>11, <1>12 DEF m, n

(* The results in the order of the addresses are what one worker would have had. *)
LEMMA ResultsInOrder ==
  ASSUME ClientInv, OrderResults
  PROVE  ClientInv' /\ PoolIsSequential'
<1>1. /\ work \in WorkType /\ pool \in PoolType /\ Len(work.urls) \in Nat /\ work.requests \in Nat
      /\ query.limit \in Nat /\ work.urls \in Seq(Urls)
      /\ todo # << >> => Source \in EnabledSources /\ Source \in Sources
  BY WorkIs
<1>2. /\ place = "dzen_fetch" /\ place' = "collect" /\ PoolDone
      /\ UNCHANGED <<pool, searchVars>>
  BY DEF OrderResults, Go
<1>3. /\ todo # << >> /\ Kind[Source] = "dzen" /\ todo' = todo /\ Source' = Source /\ query' = query
      /\ Target' = Target
  BY <1>2 DEF ClientInv, PlaceInv, DzenPlaces, EndPlaces, searchVars, Source, Target
<1>4. Source = "dzen" /\ "dzen" \in Sources
  BY <1>1, <1>3, KindsAre
<1>5. /\ work.requests <= MaxSearchPages + Len(pool.results) /\ Len(work.urls) <= Target /\ PoolInv
  BY <1>2 DEF ClientInv, WorkInv, DzenInv
<1>6. /\ Len(pool.results) = Len(work.urls)
      /\ \A i \in DOMAIN work.urls : \E r \in Range(pool.results) : r.index = i
      /\ \A r, t \in Range(pool.results) : r.index = t.index => r = t
      /\ \A r \in Range(pool.results) : r \in [index : Nat, ok : BOOLEAN]
                                        /\ (r.ok => Address(work.urls[r.index]) \in DOMAIN Page)
  BY <1>1, <1>2, <1>5, PoolIsDone
<1> DEFINE Results == Range(pool.results)
           ordered == [i \in DOMAIN work.urls |-> CHOOSE r \in Results : r.index = i]
           Got(i) == [index |-> i, ok |-> TRUE] \in Results
           fresh == {i \in DOMAIN work.urls : Got(i) /\ ~Stale(DzenArticle(work.urls[i]))}
           wanted == Ascending(fresh)
           order == Cut(wanted, query.limit)
           found == [k \in DOMAIN order |-> DzenArticle(work.urls[order[k]])]
<1>7. ASSUME NEW i \in DOMAIN work.urls
      PROVE  ordered[i].ok <=> Got(i)
  <2>1. ordered[i] \in Results /\ ordered[i].index = i
    BY <1>6
  <2>2. ordered[i] \in [index : Nat, ok : BOOLEAN]
    BY <1>6, <2>1
  <2>3. ASSUME ordered[i].ok PROVE Got(i)
    <3>1. ordered[i] = [index |-> i, ok |-> TRUE]
      BY <2>1, <2>2, <2>3
    <3> QED BY <2>1, <3>1
  <2>4. ASSUME Got(i) PROVE ordered[i].ok
    <3>1. [index |-> i, ok |-> TRUE].index = i /\ [index |-> i, ok |-> TRUE].ok
      OBVIOUS
    <3>2. ordered[i] = [index |-> i, ok |-> TRUE]
      BY <1>6, <2>1, <2>4, <3>1
    <3> QED BY <3>1, <3>2
  <2> QED BY <2>3, <2>4
<1>8. {i \in DOMAIN ordered : ordered[i].ok /\ ~Stale(DzenArticle(work.urls[i]))} = fresh
  <2>1. DOMAIN ordered = DOMAIN work.urls
    OBVIOUS
  <2> HIDE DEF ordered, Got
  <2> QED BY <1>7, <2>1
<1>9. work' = [work EXCEPT !.found = found]
  <2>1. \E fr \in {{i \in DOMAIN ordered : ordered[i].ok /\ ~Stale(DzenArticle(work.urls[i]))}} :
           work' = [work EXCEPT !.found = [k \in DOMAIN Cut(Ascending(fr), query.limit) |->
                       DzenArticle(work.urls[Cut(Ascending(fr), query.limit)[k]])]]
    BY DEF OrderResults
  <2> HIDE DEF ordered, fresh
  <2> QED BY <1>8, <2>1
<1> HIDE DEF ordered
<1>10. IsFiniteSet(fresh) /\ fresh \subseteq Nat /\ fresh \subseteq DOMAIN work.urls
  <2>1. fresh \in SUBSET (1..Len(work.urls)) /\ DOMAIN work.urls = 1..Len(work.urls)
    BY <1>1
  <2>2. IsFiniteSet(1..Len(work.urls))
    BY <1>1, FS_Interval
  <2> HIDE DEF fresh
  <2>3. IsFiniteSet(fresh)
    BY <2>1, <2>2, FS_Subset
  <2>4. fresh \subseteq Nat
    BY <2>1
  <2> QED BY <2>1, <2>3, <2>4
<1>11. \A i \in fresh : DzenArticle(work.urls[i]) \in Candidates /\ DzenArticle(work.urls[i]).source = Source
  <2> SUFFICES ASSUME NEW i \in fresh
               PROVE  DzenArticle(work.urls[i]) \in Candidates /\ DzenArticle(work.urls[i]).source = Source
    OBVIOUS
  <2>1. i \in DOMAIN work.urls /\ [index |-> i, ok |-> TRUE] \in Results
    OBVIOUS
  <2>2. work.urls[i] \in Urls /\ Address(work.urls[i]) \in DOMAIN Page
    BY <1>1, <1>6, <2>1
  <2> QED BY <1>4, <2>2, DzenArticleIs
<1> DEFINE c == Cardinality(fresh)
<1> HIDE DEF fresh
<1>12. c \in Nat /\ wanted \in [1..c -> fresh]
  BY <1>10, AscendingLists
<1> HIDE DEF c, wanted
<1>13. wanted \in Seq(fresh) /\ Len(wanted) = c
  BY <1>12, ListOfLength
<1>14. /\ order \in Seq(fresh)
       /\ Len(order) = IF query.limit <= Len(wanted) THEN query.limit ELSE Len(wanted)
       /\ \A k \in 1..Len(order) : order[k] = wanted[k]
  BY <1>1, <1>13, CutIs
<1> HIDE DEF order
<1>15. Len(order) \in Nat /\ DOMAIN order = 1..Len(order)
  BY <1>14
<1>16. \A k \in 1..Len(order) : order[k] \in fresh
  BY <1>14
<1>17. \A k \in 1..Len(order) : found[k] \in Candidates /\ found[k].source = Source
  BY <1>11, <1>15, <1>16
<1>18. found = [k \in 1..Len(order) |-> DzenArticle(work.urls[wanted[k]])]
  BY <1>14, <1>15
<1>19. found \in [1..Len(order) -> Candidates]
  BY <1>15, <1>17
<1> HIDE DEF found
<1>20. found \in Seq(Candidates) /\ DOMAIN found = 1..Len(order)
  BY <1>15, <1>19, ListOfLength
<1>21. work' \in WorkType /\ work'.found = found /\ work'.requests = work.requests /\ work'.urls = work.urls
  BY <1>1, <1>9, <1>20 DEF WorkType
<1>22. RequestsBounded'
  <2>1. Target \in Nat /\ MaxSearchPages \in Nat
    BY <1>1, TargetIs, ConstantsAre
  <2>2. work'.requests <= MaxSearchPages + Target
    BY <1>1, <1>5, <1>6, <1>21, <2>1
  <2> QED BY <1>3, <2>2 DEF RequestsBounded
<1>23. ClientInv'
  BY <1>2, <1>3, <1>17, <1>20, <1>21, <1>22, Answers
<1>24. Min({query.limit, Len(wanted)}) = Len(order)
  <2>1. Len(wanted) \in Nat
    BY <1>13
  <2> QED BY <1>1, <1>14, <2>1, MinOfTwo
<1>25. PoolIsSequential'
  <2>1. pool' = pool /\ pool'.results = pool.results
    BY <1>2
  <2>2. found = [k \in 1..Min({query'.limit, Len(wanted)}) |-> DzenArticle(work'.urls[wanted[k]])]
    BY <1>3, <1>18, <1>21, <1>24
  <2>3. wanted = Ascending({i \in DOMAIN work'.urls : [index |-> i, ok |-> TRUE] \in Range(pool'.results)
                                                 /\ ~Stale(DzenArticle(work'.urls[i]))})
    BY <1>21, <2>1 DEF wanted, fresh
  <2> QED BY <1>6, <1>21, <2>1, <2>2, <2>3 DEF PoolIsSequential
<1> QED BY <1>23, <1>25

(* dzen requests search pages, MaxSearchPages at most, and then its articles. *)
LEMMA DzenKeeps ==
  ASSUME ClientInv, DzenSearchPage \/ DzenSearchFails
  PROVE  ClientInv'
<1>1. /\ work \in WorkType /\ pool \in PoolType /\ Len(work.urls) \in Nat /\ work.requests \in Nat
      /\ query.limit \in Nat /\ work.urls \in Seq(Urls) /\ work.pages \in 0..MaxSearchPages
      /\ work.found \in Seq(Candidates)
  BY WorkIs
<1>2. MaxSearchPages \in Nat /\ MaxSearchPages >= 1
  BY ConstantsAre
<1>3. Target \in Nat
  BY <1>1, TargetIs
<1>4. place \in {"dzen_search", "dzen_more"} /\ UNCHANGED <<pool, searchVars>>
  BY DEF DzenSearchPage, DzenSearchFails
<1>5. /\ todo # << >> /\ Kind[Source] = "dzen"
      /\ \A k \in DOMAIN work.found : work.found[k].source = Source
  BY <1>4 DEF ClientInv, PlaceInv, DzenPlaces, EndPlaces
<1>6. todo' = todo /\ Source' = Source /\ query' = query /\ Target' = Target
  BY <1>4 DEF searchVars, Source, Target
<1>7. /\ work.requests = work.pages /\ work.pages < MaxSearchPages /\ pool = NewPool
      /\ Len(work.urls) <= Target
      /\ place = "dzen_search" => work.requests = 0
  <2>1. /\ place = "dzen_search" => work.requests = 0 /\ work.pages = 0 /\ work.urls = << >>
        /\ place = "dzen_more" =>
              /\ work.requests = work.pages /\ work.pages < MaxSearchPages
              /\ Len(work.urls) < Target
        /\ pool = NewPool
    BY <1>4 DEF ClientInv, WorkInv, DzenInv
  <2>2. CASE place = "dzen_search"
    <3>1. work.requests = 0 /\ work.pages = 0 /\ Len(work.urls) = 0
      BY <2>1, <2>2
    <3> QED BY <1>2, <1>3, <2>1, <3>1
  <2>3. CASE place = "dzen_more"
    BY <1>1, <1>3, <2>1, <2>3
  <2> QED BY <1>4, <2>2, <2>3
<1>8. /\ Requested \in WorkType /\ Requested.requests = work.requests + 1
      /\ Requested.found = work.found /\ Requested.urls = work.urls /\ Requested.pages = work.pages
  BY <1>1, RequestedIs
<1>9. ASSUME place' \in {"dzen_more", "dzen_fetch"}, work' \in WorkType, work'.found = work.found,
             Len(work'.urls) \in Nat, Len(work'.urls) <= Target,
             work'.requests <= MaxSearchPages,
             place' = "dzen_more" => /\ work'.requests = work'.pages /\ work'.pages < MaxSearchPages
                                     /\ Len(work'.urls) < Target
      PROVE  ClientInv'
  <2>1. SearchTypeOK'
    BY <1>1, <1>4, <1>9, ClientTypes DEF Places, searchVars
  <2>2. PlaceInv'
    BY <1>5, <1>6, <1>9 DEF PlaceInv, HabrPlaces, VcPlaces, DzenPlaces, EndPlaces
  <2>3. pool' = NewPool /\ PoolInv'
    BY <1>4, <1>7, <1>9, PoolStarts
  <2>4. Len(pool'.results) = 0
    BY <2>3 DEF NewPool
  <2>5. work'.requests \in Nat
    BY <1>9 DEF WorkType
  <2>6. work'.requests <= MaxSearchPages + 0
    BY <1>2, <1>9, <2>5
  <2>7. DzenInv'
    BY <1>6, <1>9, <2>3, <2>4, <2>6 DEF DzenInv
  <2>8. HabrInv' /\ VcInv' /\ AnsweredInv'
    BY <1>9 DEF HabrInv, VcInv, AnsweredInv
  <2> QED BY <2>1, <2>2, <2>7, <2>8 DEF ClientInv, WorkInv
<1>10. CASE DzenSearchPage
  <2>1. PICK page \in DzenPages :
          /\ work' = [Requested EXCEPT !.urls = AddLinks(work.urls, page), !.pages = work.pages + 1]
          /\ place' = IF WantsMore(AddLinks(work.urls, page), page, work.pages + 1)
                      THEN "dzen_more" ELSE "dzen_fetch"
    BY <1>10 DEF DzenSearchPage, Go
  <2> DEFINE urls == AddLinks(work.urls, page)
  <2>2. urls \in Seq(Urls) /\ Len(urls) \in Nat /\ Len(urls) <= Target
    BY <1>1, <1>3, <1>7, AddLinksIs
  <2>3. /\ place' \in {"dzen_more", "dzen_fetch"}
        /\ place' = "dzen_more" => Len(urls) < Target /\ work.pages + 1 < MaxSearchPages
    BY <2>1 DEF WantsMore
  <2> HIDE DEF urls
  <2>4. work' = [Requested EXCEPT !.urls = urls, !.pages = work.pages + 1]
    BY <2>1 DEF urls
  <2>5. work.pages + 1 \in 0..MaxSearchPages /\ work.pages + 1 <= MaxSearchPages
    BY <1>1, <1>2, <1>7
  <2>6. /\ work' \in WorkType /\ work'.found = work.found /\ work'.urls = urls
        /\ work'.pages = work.pages + 1 /\ work'.requests = work.requests + 1
    BY <1>8, <2>2, <2>4, <2>5 DEF WorkType
  <2> QED BY <1>7, <1>9, <2>2, <2>3, <2>5, <2>6
<1>11. CASE DzenSearchFails
  <2>1. /\ work' = Requested
        /\ place' = IF place = "dzen_search" THEN "failed" ELSE "dzen_fetch"
    BY <1>11 DEF DzenSearchFails, Go
  <2>2. CASE place = "dzen_search"
    <3>1. work'.requests <= MaxSearchPages + Target
      BY <1>2, <1>3, <1>7, <1>8, <2>1, <2>2
    <3>2. RequestsBounded'
      BY <1>5, <1>6, <3>1 DEF RequestsBounded
    <3> QED BY <1>4, <1>5, <2>1, <2>2, <3>2, GivesUp
  <2>3. CASE place # "dzen_search"
    <3>1. work'.requests <= MaxSearchPages
      BY <1>1, <1>2, <1>7, <1>8, <2>1
    <3> QED BY <1>1, <1>7, <1>8, <1>9, <2>1, <2>3, <3>1
  <2> QED BY <2>2, <2>3
<1> QED BY <1>10, <1>11

(* A feed is one request. *)
LEMMA RssKeeps ==
  ASSUME ClientInv, RssFeed \/ RssFeedFails
  PROVE  ClientInv'
<1>1. /\ work \in WorkType /\ work.requests \in Nat /\ query.limit \in Nat
      /\ todo # << >> => Source \in Sources
  BY WorkIs
<1>2. place = "rss_feed" /\ UNCHANGED <<pool, searchVars>>
  BY DEF RssFeed, RssFeedFails
<1>3. todo # << >> /\ Kind[Source] = "rss" /\ work.requests = 0
  BY <1>2 DEF ClientInv, PlaceInv, WorkInv, AnsweredInv, EndPlaces
<1>4. todo' = todo /\ Source' = Source
  BY <1>2 DEF searchVars, Source
<1>5. Requested \in WorkType /\ Requested.requests = 1
  BY <1>1, <1>3, RequestedIs
<1>6. ASSUME work'.requests = 1 PROVE RequestsBounded'
  BY <1>3, <1>4, <1>6 DEF RequestsBounded
<1>7. CASE RssFeed
  <2>1. PICK feed \in Feeds[Source] : work' = [Requested EXCEPT !.found = RssCandidates(Source, feed)]
    BY <1>7 DEF RssFeed
  <2> DEFINE new == RssCandidates(Source, feed)
  <2>2. new \in Seq(Candidates) /\ \A k \in DOMAIN new : new[k].source = Source
    BY <1>1, <1>3, CandidatesOfFeed
  <2> HIDE DEF new
  <2>3. work' = [Requested EXCEPT !.found = new]
    BY <2>1 DEF new
  <2>4. work' \in WorkType /\ work'.found = new /\ work'.requests = 1
    BY <1>5, <2>2, <2>3 DEF WorkType
  <2>5. place' = "collect"
    BY <1>7 DEF RssFeed, Go
  <2> QED BY <1>2, <1>3, <1>6, <2>2, <2>4, <2>5, Answers
<1>8. CASE RssFeedFails
  <2>1. work' = Requested /\ place' = "failed"
    BY <1>8 DEF RssFeedFails, Go
  <2> QED BY <1>2, <1>3, <1>5, <1>6, <2>1, GivesUp
<1> QED BY <1>7, <1>8

-----------------------------------------------------------------------------
(* sortScoredCandidates returns a list of the candidates it is given, each once. *)
LEMMA SortedIs ==
  ASSUME NEW list \in Seq(Candidates), NEW places \in SUBSET DOMAIN list
  PROVE  LET n == Cardinality(places)
             bucket == SortScored(list, places)
         IN  /\ n \in Nat /\ IsFiniteSet(places)
             /\ bucket \in Seq(Candidates) /\ Len(bucket) = n
             /\ \E order \in [1..n -> places] :
                   /\ \A k, m \in 1..n : order[k] = order[m] => k = m
                   /\ \A k \in 1..n : bucket[k] = list[order[k]]
<1> DEFINE Before(j, i) == \/ list[j].score > list[i].score
                           \/ list[j].score = list[i].score /\ list[j].date > list[i].date
                           \/ list[j].score = list[i].score /\ list[j].date = list[i].date /\ j < i
           ahead == [i \in places |-> {j \in places : Before(j, i)}]
           order == InOrder(ahead, places)
           n == Cardinality(places)
           bucket == SortScored(list, places)
<1>1. DOMAIN list = 1..Len(list) /\ Len(list) \in Nat
  OBVIOUS
<1>2. IsFiniteSet(1..Len(list))
  BY <1>1, FS_Interval
<1>3. places \in SUBSET (1..Len(list))
  BY <1>1
<1>4. IsFiniteSet(places)
  BY <1>2, <1>3, FS_Subset
<1>5. bucket = [k \in DOMAIN order |-> list[order[k]]]
  BY DEF SortScored
<1>6. \A i \in places : list[i] \in Candidates
  BY <1>3
<1>7. \A i \in places : i \in Nat /\ list[i].score \in Int /\ list[i].date \in Nat
  BY <1>3, <1>6 DEF Candidates
<1>8. \A i, j \in places : j \in ahead[i] <=> Before(j, i)
  <2> HIDE DEF Before
  <2> QED OBVIOUS
<1> HIDE DEF ahead, bucket
<1>9. Orders(ahead, places)
  <2>1. \A i \in places : i \notin ahead[i]
    BY <1>7, <1>8
  <2>2. ASSUME NEW r \in places, NEW s \in places, NEW t \in places, s \in ahead[r], t \in ahead[s]
        PROVE  t \in ahead[r]
    <3>1. Before(s, r) /\ Before(t, s)
      BY <1>8, <2>2
    <3>2. Before(t, r)
      BY <1>7, <3>1
    <3> HIDE DEF Before
    <3> QED BY <1>8, <3>2
  <2>3. ASSUME NEW r \in places, NEW s \in places PROVE r = s \/ r \in ahead[s] \/ s \in ahead[r]
    <3>1. r = s \/ Before(r, s) \/ Before(s, r)
      BY <1>7
    <3> HIDE DEF Before
    <3> QED BY <1>8, <3>1
  <2> QED BY <2>1, <2>2, <2>3 DEF Orders
<1>10. /\ n \in Nat /\ order \in [1..n -> places]
       /\ IsInjective(order)
  BY <1>4, <1>9, InOrderLists
<1> HIDE DEF order, n
<1>11. \A k, m \in 1..n : order[k] = order[m] => k = m
  BY <1>10 DEF IsInjective
<1>12. DOMAIN order = 1..n /\ \A k \in 1..n : order[k] \in places
  BY <1>10
<1>13. bucket \in [1..n -> Candidates] /\ \A k \in 1..n : bucket[k] = list[order[k]]
  BY <1>5, <1>6, <1>12
<1>14. bucket \in Seq(Candidates) /\ Len(bucket) = n
  BY <1>10, <1>13, ListOfLength
<1> QED BY <1>4, <1>10, <1>11, <1>13, <1>14 DEF n, bucket

-----------------------------------------------------------------------------
(* The search of the whole: what the sources contributed, and what is returned. *)

(* The keys of every candidate let through are kept, and no two of them share a key. *)
KeysInv ==
    \A b, c \in DOMAIN buckets : \A i \in DOMAIN buckets[b] : \A j \in DOMAIN buckets[c] :
        /\ DedupKeys(buckets[b][i]) \subseteq seen
        /\ (b = c => i # j) => DedupKeys(buckets[b][i]) \intersect DedupKeys(buckets[c][j]) = {}

(* There is a record for every source searched, in the order in which they were selected. *)
StatInv ==
    /\ \A i \in DOMAIN stats : stats[i].found = stats[i].accepted + stats[i].filtered
    /\ Len(SelectedSources(query)) = Len(stats) + Len(todo)
    /\ \A i \in DOMAIN stats : stats[i].source = SelectedSources(query)[i]
    /\ \A k \in DOMAIN todo : todo[k] = SelectedSources(query)[Len(stats) + k]

(* Bucket b is what source i contributed. *)
Owns(i, b) ==
    /\ stats[i].accepted = Len(buckets[b])
    /\ \A k \in DOMAIN buckets[b] : buckets[b][k].source = stats[i].source

(* Every bucket is what some source contributed, and no source has two. *)
OwnerInv ==
    /\ \A b \in DOMAIN buckets : \E i \in DOMAIN stats : Owns(i, b)
    /\ IsInjective(SelectedSources(query)) =>
          \A b, c \in DOMAIN buckets : b # c => buckets[b][1].source # buckets[c][1].source

(* After the merge, the result and what the records say of it. *)
MergeInv ==
    IF place \in {"publish", "done", "error"}
    THEN /\ result = InterleaveBuckets(buckets, query.limit)
         /\ \A i \in DOMAIN stats : stats[i].returned = Returned(stats[i].source, result)
    ELSE result = << >>

SearchInv == ClientInv /\ PoolIsSequential /\ KeysInv /\ StatInv /\ OwnerInv /\ MergeInv

(* The keys of a candidate. *)
LEMMA KeysAre ==
  ASSUME NEW c \in Candidates
  PROVE  DedupKeys(c) \subseteq Keys
<1>1. c.url \in Urls /\ c.source \in Sources /\ c.id \in Ids
  BY DEF Candidates
<1> QED BY <1>1 DEF DedupKeys, Keys

(* What is let through shares no key with what was seen, nor with another. *)
LEMMA LetThroughIs ==
  ASSUME NEW list \in Seq(Candidates), NEW kept \in SUBSET DOMAIN list, LetThrough(list, kept)
  PROVE  /\ \A i \in kept : DedupKeys(list[i]) \intersect seen = {}
         /\ \A i, j \in kept : i # j => DedupKeys(list[i]) \intersect DedupKeys(list[j]) = {}
<1>1. \A i \in kept : /\ DedupKeys(list[i]) \intersect seen = {}
                      /\ \A j \in kept : j < i => DedupKeys(list[j]) \intersect DedupKeys(list[i]) = {}
  BY DEF LetThrough
<1>2. ASSUME NEW i \in kept, NEW j \in kept, i # j
      PROVE  DedupKeys(list[i]) \intersect DedupKeys(list[j]) = {}
  <2>1. i \in Nat /\ j \in Nat
    OBVIOUS
  <2>2. i < j \/ j < i
    BY <1>2, <2>1
  <2> QED BY <1>1, <2>2
<1> QED BY <1>1, <1>2

(* What a source contributes: a list of its candidates, new ones, and none twice; what it found
   is in the list or was dropped. *)
Contributes(bucket, dropped) ==
    /\ seen \subseteq seen' /\ seen' \subseteq Keys
    /\ buckets' = IF bucket = << >> THEN buckets ELSE Append(buckets, bucket)
    /\ stats' = Append(stats, Stat(IF bucket = << >> THEN "empty" ELSE "ok",
                                   Len(work.found), Len(bucket), dropped))
    /\ Len(work.found) = Len(bucket) + dropped
    /\ \A i \in DOMAIN bucket : /\ bucket[i].source = Source
                                /\ DedupKeys(bucket[i]) \subseteq seen'
                                /\ DedupKeys(bucket[i]) \intersect seen = {}
    /\ \A i, j \in DOMAIN bucket : i # j =>
          DedupKeys(bucket[i]) \intersect DedupKeys(bucket[j]) = {}

(* When a source is collected, it contributes. *)
LEMMA CollectIs ==
  ASSUME ClientInv, Collect
  PROVE  \E bucket \in Seq(Candidates) : \E dropped \in Nat : Contributes(bucket, dropped)
<1> DEFINE all == [i \in DOMAIN work.found |-> Normalized(work.found[i])]
           N == Len(work.found)
<1>1. work.found \in Seq(Candidates) /\ N \in Nat /\ DOMAIN work.found = 1..N
  <2>1. work.found \in Seq(Candidates)
    BY WorkIs
  <2> QED BY <2>1
<1>2. todo # << >> /\ \A k \in DOMAIN work.found : work.found[k].source = Source
  BY DEF ClientInv, PlaceInv, Collect, EndPlaces
<1>3. \A i \in 1..N : all[i] \in Candidates /\ all[i].source = Source
  <2> SUFFICES ASSUME NEW i \in 1..N PROVE all[i] \in Candidates /\ all[i].source = Source
    OBVIOUS
  <2>1. work.found[i] \in Candidates /\ work.found[i].source = Source /\ all[i] = Normalized(work.found[i])
    BY <1>1, <1>2
  <2> HIDE DEF all
  <2> QED BY <2>1, NormalizedIs
<1>4. PICK kept \in SUBSET DOMAIN all :
         LET scored  == {i \in kept : all[i].score > 0}
             chosen  == IF scored = {} THEN kept ELSE scored
             bucket  == SortScored(all, chosen)
             dropped == Cardinality(DOMAIN all \ chosen)
         IN  /\ LetThrough(all, kept)
             /\ seen' = seen \union UNION {DedupKeys(all[i]) : i \in kept}
             /\ buckets' = IF bucket = << >> THEN buckets ELSE Append(buckets, bucket)
             /\ stats' = Append(stats, Stat(IF bucket = << >> THEN "empty" ELSE "ok",
                                            Len(work.found), Len(bucket), dropped))
  BY DEF Collect
<1>5. all \in [1..N -> Candidates]
  BY <1>1, <1>3
<1> DEFINE scored == {i \in kept : all[i].score > 0}
           chosen == IF scored = {} THEN kept ELSE scored
<1> HIDE DEF all
<1>6. all \in Seq(Candidates) /\ Len(all) = N /\ DOMAIN all = 1..N
  BY <1>1, <1>5, ListOfLength
<1>7. chosen \subseteq kept /\ kept \subseteq 1..N
  BY <1>6
<1> DEFINE n == Cardinality(chosen)
           bucket == SortScored(all, chosen)
           dropped == Cardinality(DOMAIN all \ chosen)
<1>8. /\ LetThrough(all, kept)
      /\ seen' = seen \union UNION {DedupKeys(all[i]) : i \in kept}
      /\ buckets' = IF bucket = << >> THEN buckets ELSE Append(buckets, bucket)
      /\ stats' = Append(stats, Stat(IF bucket = << >> THEN "empty" ELSE "ok",
                                     Len(work.found), Len(bucket), dropped))
  BY <1>4
<1> HIDE DEF scored, chosen
<1>9. chosen \in SUBSET DOMAIN all
  BY <1>6, <1>7
<1>10. /\ n \in Nat /\ IsFiniteSet(chosen) /\ bucket \in Seq(Candidates) /\ Len(bucket) = n
       /\ \E order \in [1..n -> chosen] : /\ \A k, m \in 1..n : order[k] = order[m] => k = m
                                          /\ \A k \in 1..n : bucket[k] = all[order[k]]
  BY <1>6, <1>9, SortedIs
<1>11. PICK order \in [1..n -> chosen] : /\ \A k, m \in 1..n : order[k] = order[m] => k = m
                                         /\ \A k \in 1..n : bucket[k] = all[order[k]]
  BY <1>10
<1>12. dropped \in Nat /\ N = n + dropped
  <2> DEFINE rest == (1..N) \ chosen
  <2>1. IsFiniteSet(1..N) /\ Cardinality(1..N) = N
    BY <1>1, FS_Interval
  <2>2. rest \in SUBSET (1..N) /\ rest \union chosen = 1..N /\ chosen \intersect rest = {}
    BY <1>7
  <2>3. dropped = Cardinality(rest)
    BY <1>6
  <2> HIDE DEF rest, n, dropped
  <2>4. IsFiniteSet(rest)
    BY <2>1, <2>2, FS_Subset
  <2>5. Cardinality(chosen \union rest) = Cardinality(chosen) + Cardinality(rest) - Cardinality(chosen \intersect rest)
    BY <1>10, <2>4, FS_Union
  <2>6. Cardinality(rest) \in Nat /\ Cardinality({}) = 0
    BY <2>4, FS_CardinalityType, FS_EmptySet
  <2>7. chosen \union rest = 1..N
    BY <2>2
  <2>8. N = n + Cardinality(rest) - 0
    BY <2>1, <2>2, <2>5, <2>6, <2>7 DEF n
  <2> QED BY <1>1, <1>10, <2>3, <2>6, <2>8
<1> HIDE DEF n, bucket, dropped
<1>13. DOMAIN bucket = 1..n
  BY <1>10
<1>14. \A k \in 1..n : order[k] \in kept /\ order[k] \in 1..N
  BY <1>7, <1>11
<1>15. /\ \A i \in kept : DedupKeys(all[i]) \intersect seen = {}
       /\ \A i, j \in kept : i # j => DedupKeys(all[i]) \intersect DedupKeys(all[j]) = {}
  BY <1>6, <1>8, LetThroughIs
<1>16. \A i \in kept : DedupKeys(all[i]) \subseteq seen'
  BY <1>8
<1>17. seen \subseteq seen' /\ seen' \subseteq Keys
  <2>1. seen \subseteq Keys
    BY DEF ClientInv, SearchTypeOK
  <2>2. \A i \in kept : DedupKeys(all[i]) \subseteq Keys
    BY <1>3, <1>7, KeysAre DEF all
  <2> QED BY <1>8, <2>1, <2>2
<1>18. \A i \in 1..n : /\ bucket[i].source = Source
                       /\ DedupKeys(bucket[i]) \subseteq seen'
                       /\ DedupKeys(bucket[i]) \intersect seen = {}
  <2> SUFFICES ASSUME NEW i \in 1..n
               PROVE  /\ bucket[i].source = Source
                      /\ DedupKeys(bucket[i]) \subseteq seen'
                      /\ DedupKeys(bucket[i]) \intersect seen = {}
    OBVIOUS
  <2>1. bucket[i] = all[order[i]] /\ order[i] \in kept /\ order[i] \in 1..N
    BY <1>11, <1>14
  <2>2. all[order[i]].source = Source
    BY <1>3, <2>1 DEF all
  <2> QED BY <1>15, <1>16, <2>1, <2>2
<1>19. \A i, j \in 1..n : i # j => DedupKeys(bucket[i]) \intersect DedupKeys(bucket[j]) = {}
  BY <1>11, <1>14, <1>15
<1>20. Contributes(bucket, dropped)
  BY <1>8, <1>10, <1>12, <1>13, <1>17, <1>18, <1>19 DEF Contributes
<1> QED BY <1>10, <1>12, <1>20

(* A limit is positive. *)
LEMMA LimitIs ==
  ASSUME query \in Queries
  PROVE  0 <= 2 * query.limit + MaxLinks /\ 0 < query.limit
<1>1. query.limit \in 1..100 /\ MaxLinks \in Nat
  BY QueryIs, ConstantsAre
<1> QED BY <1>1

(* The next source is searched like the first. *)
LEMMA NextStarts ==
  ASSUME ClientInv, todo # << >>, NextSource, UNCHANGED <<query, provider>>
  PROVE  /\ PlaceInv' /\ WorkInv' /\ todo' \in Seq(EnabledSources)
         /\ work' \in WorkType /\ pool' \in PoolType /\ place' \in Places
         /\ place' \notin {"collect", "publish", "done", "error"}
<1>1. /\ query \in Queries /\ provider \in Providers /\ todo \in Seq(EnabledSources)
      /\ query.limit \in 1..100
  BY WorkIs
<1>2. /\ todo' = Tail(todo) /\ place' = Start(todo', provider) /\ work' = NewWork /\ pool' = NewPool
      /\ query' = query /\ provider' = provider
  BY DEF NextSource, Go
<1>3. todo' \in Seq(EnabledSources)
  BY <1>1, <1>2
<1>4. /\ place' \in {"merge", "habr_feed", "vc_urls", "vc_feed", "dzen_search", "rss_feed"}
      /\ todo' = << >> <=> place' = "merge"
      /\ place' = "habr_feed" => Kind[Source'] = "habr"
      /\ place' \in {"vc_urls", "vc_feed"} => Kind[Source'] = "vc"
      /\ place' = "vc_urls" => provider # "none"
      /\ place' = "dzen_search" => Kind[Source'] = "dzen"
      /\ place' = "rss_feed" => Kind[Source'] = "rss"
  BY <1>1, <1>2, <1>3, StartIs DEF Source
<1>5. PlaceInv'
  BY <1>2, <1>4 DEF PlaceInv, NewWork, HabrPlaces, VcPlaces, DzenPlaces, EndPlaces
<1>6. WorkInv'
  <2>1. query'.limit \in 1..100 /\ MaxLinks \in Nat
    BY <1>1, <1>2, ConstantsAre
  <2>2. /\ work'.requests = 0 /\ work'.attempt = 1 /\ work'.next = 1 /\ work'.pages = 0
        /\ work'.urls = << >> /\ work'.found = << >> /\ Len(work'.urls) = 0
    BY <1>2 DEF NewWork
  <2>3. HabrInv'
    BY <1>4, <2>2 DEF HabrInv
  <2>4. VcInv'
    <3>1. 0 <= 2 * query.limit + MaxLinks /\ 0 < query.limit
      BY <1>1, LimitIs
    <3>2. place' # "vc_article" /\ place' # "vc_enrich"
      BY <1>4
    <3> QED BY <1>2, <1>4, <2>2, <3>1, <3>2 DEF VcInv
  <2>5. DzenInv' /\ AnsweredInv'
    BY <1>2, <1>4, <2>2 DEF DzenInv, AnsweredInv
  <2> QED BY <2>3, <2>4, <2>5 DEF WorkInv
<1>7. work' \in WorkType /\ pool' \in PoolType
  BY <1>2, NewOnesAre
<1> QED BY <1>3, <1>4, <1>5, <1>6, <1>7 DEF Places

-----------------------------------------------------------------------------
StatType == [source : EnabledSources, status : {"ok", "empty", "failed"}, found : Nat,
             accepted : Nat, filtered : Nat, returned : Nat, published : Nat]

(* The types of what the whole search keeps. *)
LEMMA WholeIs ==
  ASSUME SearchTypeOK
  PROVE  /\ stats \in Seq(StatType) /\ Len(stats) \in Nat /\ DOMAIN stats = 1..Len(stats)
         /\ buckets \in Seq(Seq(Candidates) \ {<< >>}) /\ buckets \in Seq(Seq(Candidates))
         /\ Len(buckets) \in Nat /\ DOMAIN buckets = 1..Len(buckets)
         /\ todo \in Seq(EnabledSources) /\ Len(todo) \in Nat
         /\ result \in Seq(Candidates) /\ seen \subseteq Keys /\ lastErr \in BOOLEAN
         /\ query \in Queries /\ provider \in Providers
<1>1. /\ stats \in Seq(StatType) /\ buckets \in Seq(Seq(Candidates) \ {<< >>})
      /\ todo \in Seq(EnabledSources) /\ result \in Seq(Candidates) /\ seen \subseteq Keys
      /\ lastErr \in BOOLEAN /\ query \in Queries /\ provider \in Providers
  BY DEF SearchTypeOK, StatType
<1>2. Len(stats) \in Nat /\ DOMAIN stats = 1..Len(stats)
  BY <1>1
<1>3. Len(buckets) \in Nat /\ DOMAIN buckets = 1..Len(buckets)
  BY <1>1
<1>4. buckets \in Seq(Seq(Candidates))
  <2>1. \A b \in 1..Len(buckets) : buckets[b] \in Seq(Candidates)
    BY <1>1
  <2>2. buckets \in [1..Len(buckets) -> Seq(Candidates)]
    BY <1>1, <2>1
  <2> QED BY <1>3, <2>2, ListOfLength
<1>5. Len(todo) \in Nat
  BY <1>1
<1> QED BY <1>1, <1>2, <1>3, <1>4, <1>5

(* What a bucket holds. *)
LEMMA BucketIs ==
  ASSUME SearchTypeOK, NEW b \in DOMAIN buckets
  PROVE  /\ buckets[b] \in Seq(Candidates) /\ buckets[b] # << >>
         /\ Len(buckets[b]) \in Nat /\ Len(buckets[b]) >= 1
         /\ DOMAIN buckets[b] = 1..Len(buckets[b]) /\ 1 \in DOMAIN buckets[b]
<1>1. buckets \in Seq(Seq(Candidates) \ {<< >>}) /\ b \in 1..Len(buckets)
  BY WholeIs
<1>2. buckets[b] \in Seq(Candidates) \ {<< >>}
  BY <1>1
<1>3. buckets[b] \in Seq(Candidates) /\ buckets[b] # << >>
  BY <1>2
<1>4. Len(buckets[b]) \in Nat /\ DOMAIN buckets[b] = 1..Len(buckets[b])
  BY <1>3
<1>5. Len(buckets[b]) # 0
  BY <1>3
<1>6. Len(buckets[b]) >= 1
  BY <1>4, <1>5
<1> QED BY <1>3, <1>4, <1>6

(* The places of a list without its first element. *)
LEMMA NextPlace ==
  ASSUME NEW n \in Nat, NEW l \in Nat, NEW k \in Nat, k >= 1, k <= l - 1
  PROVE  k + 1 \in 1..l /\ n + (k + 1) = (n + 1) + k
OBVIOUS

(* The record of a source that is done. *)
LEMMA StatsGrow ==
  ASSUME SearchInv, todo # << >>, todo' = Tail(todo), query' = query,
         NEW st \in StatType, st.source = Source, st.found = st.accepted + st.filtered,
         stats' = Append(stats, st)
  PROVE  /\ StatInv' /\ stats' \in Seq(StatType)
         /\ DOMAIN stats' = 1..(Len(stats) + 1)
         /\ \A i \in DOMAIN stats : i \in DOMAIN stats' /\ stats'[i] = stats[i]
         /\ Len(stats) + 1 \in DOMAIN stats' /\ stats'[Len(stats) + 1] = st
         /\ Source = SelectedSources(query)[Len(stats) + 1]
         /\ Len(stats) + 1 <= Len(SelectedSources(query))
<1> DEFINE n == Len(stats)
           selected == SelectedSources(query)
<1>1. /\ stats \in Seq(StatType) /\ n \in Nat /\ DOMAIN stats = 1..n
      /\ todo \in Seq(EnabledSources) /\ Len(todo) \in Nat
  BY WholeIs DEF SearchInv, ClientInv
<1>2. /\ \A i \in DOMAIN stats : stats[i].found = stats[i].accepted + stats[i].filtered
      /\ Len(selected) = n + Len(todo)
      /\ \A i \in DOMAIN stats : stats[i].source = selected[i]
      /\ \A k \in DOMAIN todo : todo[k] = selected[n + k]
  BY DEF SearchInv, StatInv
<1>3. Len(todo) >= 1 /\ 1 \in DOMAIN todo /\ Source = todo[1]
  BY <1>1 DEF Source
<1>4. /\ Len(todo') = Len(todo) - 1 /\ todo' \in Seq(EnabledSources)
      /\ \A k \in 1..Len(todo') : todo'[k] = todo[k + 1]
  BY <1>1, <1>3
<1>5. /\ stats' \in Seq(StatType) /\ Len(stats') = n + 1
      /\ \A i \in 1..n : stats'[i] = stats[i]
      /\ stats'[n + 1] = st
  BY <1>1
<1>6. DOMAIN stats' = 1..(n + 1) /\ DOMAIN todo' = 1..Len(todo')
  BY <1>4, <1>5
<1>7. \A i \in 1..(n + 1) : i \in 1..n \/ i = n + 1
  BY <1>1
<1>8. Source = selected[n + 1]
  BY <1>2, <1>3
<1>9. \A i \in DOMAIN stats' : /\ stats'[i].found = stats'[i].accepted + stats'[i].filtered
                               /\ stats'[i].source = selected[i]
  BY <1>1, <1>2, <1>5, <1>6, <1>7, <1>8
<1>10. Len(selected) = Len(stats') + Len(todo')
  BY <1>1, <1>2, <1>4, <1>5
<1>11. ASSUME NEW k \in DOMAIN todo' PROVE todo'[k] = selected[Len(stats') + k]
  <2>1. k \in Nat /\ k >= 1 /\ k <= Len(todo) - 1
    BY <1>4, <1>6
  <2>4. n \in Nat /\ Len(todo) \in Nat
    BY <1>1
  <2>2. k + 1 \in 1..Len(todo) /\ n + (k + 1) = (n + 1) + k
    <3> HIDE DEF n
    <3> QED BY <2>1, <2>4, NextPlace
  <2>3. k + 1 \in DOMAIN todo
    BY <1>1, <2>2
  <2> QED BY <1>2, <1>4, <1>5, <1>6, <2>2, <2>3
<1>12. StatInv'
  BY <1>9, <1>10, <1>11 DEF StatInv
<1>13. \A i \in 1..n : i \in 1..(n + 1)
  BY <1>1
<1>14. n + 1 \in 1..(n + 1) /\ n + 1 <= Len(selected)
  BY <1>1, <1>2, <1>3
<1> QED BY <1>1, <1>5, <1>6, <1>8, <1>12, <1>13, <1>14

(* A source that failed contributes nothing. *)
LEMMA GiveUpKeeps ==
  ASSUME SearchInv, GiveUp
  PROVE  SearchInv'
<1>1. /\ place = "failed" /\ lastErr' = TRUE /\ NextSource
      /\ stats' = Append(stats, Stat("failed", 0, 0, 0))
      /\ query' = query /\ provider' = provider /\ seen' = seen /\ buckets' = buckets
      /\ result' = result /\ sent' = sent
  BY DEF GiveUp
<1>2. ClientInv /\ todo # << >>
  BY <1>1 DEF SearchInv, ClientInv, PlaceInv, EndPlaces
<1> DEFINE st == Stat("failed", 0, 0, 0)
<1>3. Source \in EnabledSources
  BY <1>2, WorkIs
<1>4. st \in StatType /\ st.source = Source /\ st.found = st.accepted + st.filtered
  BY <1>3 DEF Stat, StatType
<1> HIDE DEF st
<1>5. todo' = Tail(todo)
  BY <1>1 DEF NextSource
<1>6. stats' = Append(stats, st)
  BY <1>1 DEF st
<1>7. /\ StatInv' /\ stats' \in Seq(StatType)
      /\ \A i \in DOMAIN stats : i \in DOMAIN stats' /\ stats'[i] = stats[i]
  BY <1>1, <1>2, <1>4, <1>5, <1>6, StatsGrow
<1>8. /\ PlaceInv' /\ WorkInv' /\ todo' \in Seq(EnabledSources)
      /\ work' \in WorkType /\ pool' \in PoolType /\ place' \in Places
      /\ place' \notin {"collect", "publish", "done", "error"}
  BY <1>1, <1>2, NextStarts
<1>9. SearchTypeOK'
  <2>1. lastErr' \in BOOLEAN
    BY <1>1
  <2> QED BY <1>1, <1>2, <1>7, <1>8, <2>1 DEF SearchTypeOK, ClientInv, WorkType, PoolType, StatType
<1>10. KeysInv'
  BY <1>1 DEF SearchInv, KeysInv
<1>11. OwnerInv'
  <2>1. \A b \in DOMAIN buckets : \E i \in DOMAIN stats : Owns(i, b)
    BY DEF SearchInv, OwnerInv
  <2>2. \A b \in DOMAIN buckets' : \E i \in DOMAIN stats' : Owns(i, b)'
    BY <1>1, <1>7, <2>1 DEF Owns
  <2> QED BY <1>1, <2>2 DEF SearchInv, OwnerInv
<1>12. MergeInv'
  BY <1>1, <1>8 DEF SearchInv, MergeInv
<1>13. PoolIsSequential'
  BY <1>8 DEF PoolIsSequential
<1> QED BY <1>7, <1>8, <1>9, <1>10, <1>11, <1>12, <1>13 DEF SearchInv, ClientInv

(* A source that has answered contributes a bucket, if anything of it was let through. *)
LEMMA CollectKeeps ==
  ASSUME SearchInv, Collect
  PROVE  SearchInv'
<1>1. /\ place = "collect" /\ NextSource
      /\ query' = query /\ provider' = provider /\ lastErr' = lastErr
      /\ result' = result /\ sent' = sent
  BY DEF Collect
<1>2. ClientInv /\ todo # << >> /\ SearchTypeOK
  BY <1>1 DEF SearchInv, ClientInv, PlaceInv, EndPlaces
<1>3. PICK bucket \in Seq(Candidates), dropped \in Nat : Contributes(bucket, dropped)
  BY <1>2, CollectIs
<1> DEFINE status == IF bucket = << >> THEN "empty" ELSE "ok"
           st == Stat(status, Len(work.found), Len(bucket), dropped)
           n == Len(buckets)
           m == Len(stats)
<1>4. /\ seen \subseteq seen' /\ seen' \subseteq Keys
      /\ buckets' = IF bucket = << >> THEN buckets ELSE Append(buckets, bucket)
      /\ stats' = Append(stats, st)
      /\ Len(work.found) = Len(bucket) + dropped
      /\ \A i \in DOMAIN bucket : /\ bucket[i].source = Source
                                  /\ DedupKeys(bucket[i]) \subseteq seen'
                                  /\ DedupKeys(bucket[i]) \intersect seen = {}
      /\ \A i, j \in DOMAIN bucket : i # j =>
            DedupKeys(bucket[i]) \intersect DedupKeys(bucket[j]) = {}
  BY <1>3 DEF Contributes
<1>5. Source \in EnabledSources /\ Len(work.found) \in Nat
  BY <1>2, WorkIs
<1>6. Len(bucket) \in Nat /\ DOMAIN bucket = 1..Len(bucket)
  OBVIOUS
<1>7. /\ stats \in Seq(StatType) /\ m \in Nat /\ DOMAIN stats = 1..m
      /\ buckets \in Seq(Seq(Candidates) \ {<< >>}) /\ n \in Nat /\ DOMAIN buckets = 1..n
  BY <1>2, WholeIs
<1>8. /\ st \in StatType /\ st.source = Source /\ st.found = st.accepted + st.filtered
      /\ st.accepted = Len(bucket)
  <2>1. status \in {"ok", "empty", "failed"}
    OBVIOUS
  <2> HIDE DEF status
  <2> QED BY <1>4, <1>5, <1>6, <2>1 DEF Stat, StatType
<1> HIDE DEF st, status
<1>9. todo' = Tail(todo)
  BY <1>1 DEF NextSource
<1>10. /\ StatInv' /\ stats' \in Seq(StatType)
       /\ \A i \in DOMAIN stats : i \in DOMAIN stats' /\ stats'[i] = stats[i]
       /\ m + 1 \in DOMAIN stats' /\ stats'[m + 1] = st
       /\ Source = SelectedSources(query)[m + 1]
       /\ m + 1 <= Len(SelectedSources(query))
  BY <1>1, <1>2, <1>4, <1>8, <1>9, StatsGrow
<1>11. /\ PlaceInv' /\ WorkInv' /\ todo' \in Seq(EnabledSources)
       /\ work' \in WorkType /\ pool' \in PoolType /\ place' \in Places
       /\ place' \notin {"collect", "publish", "done", "error"}
  BY <1>1, <1>2, NextStarts
<1>12. MergeInv' /\ PoolIsSequential'
  BY <1>1, <1>11 DEF SearchInv, MergeInv, PoolIsSequential
<1>13. /\ \A b, c \in DOMAIN buckets : \A i \in DOMAIN buckets[b] : \A j \in DOMAIN buckets[c] :
             /\ DedupKeys(buckets[b][i]) \subseteq seen
             /\ (b = c => i # j) => DedupKeys(buckets[b][i]) \intersect DedupKeys(buckets[c][j]) = {}
       /\ \A b \in DOMAIN buckets : \E i \in DOMAIN stats : Owns(i, b)
       /\ IsInjective(SelectedSources(query)) =>
             \A b, c \in DOMAIN buckets : b # c => buckets[b][1].source # buckets[c][1].source
  BY DEF SearchInv, KeysInv, OwnerInv
<1>14. buckets' \in Seq(Seq(Candidates) \ {<< >>}) /\ KeysInv' /\ OwnerInv'
  <2>1. CASE bucket = << >>
    <3>1. buckets' = buckets
      BY <1>4, <2>1
    <3>2. KeysInv'
      BY <1>4, <1>13, <3>1 DEF KeysInv
    <3>3. \A b \in DOMAIN buckets' : \E i \in DOMAIN stats' : Owns(i, b)'
      BY <1>10, <1>13, <3>1 DEF Owns
    <3>4. OwnerInv'
      BY <1>1, <1>13, <3>1, <3>3 DEF OwnerInv
    <3> QED BY <1>7, <3>1, <3>2, <3>4
  <2>2. CASE bucket # << >>
    <3>1. buckets' = Append(buckets, bucket) /\ bucket \in Seq(Candidates) \ {<< >>}
      BY <1>4, <2>2
    <3>2. /\ buckets' \in Seq(Seq(Candidates) \ {<< >>}) /\ Len(buckets') = n + 1
          /\ \A b \in 1..n : buckets'[b] = buckets[b]
          /\ buckets'[n + 1] = bucket
      BY <1>7, <3>1
    <3>3. DOMAIN buckets' = 1..(n + 1)
      BY <3>2
    <3>4. \A b \in 1..(n + 1) : b \in 1..n \/ b = n + 1
      BY <1>7
    <3>5. n + 1 \notin 1..n
      BY <1>7
    <3>6. ASSUME NEW b \in 1..n, NEW i \in DOMAIN buckets[b]
          PROVE  DedupKeys(buckets[b][i]) \subseteq seen
      BY <1>7, <1>13, <3>6
    <3>7. KeysInv'
      <4> SUFFICES ASSUME NEW b \in DOMAIN buckets', NEW c \in DOMAIN buckets',
                          NEW i \in DOMAIN buckets'[b], NEW j \in DOMAIN buckets'[c]
                   PROVE  /\ DedupKeys(buckets'[b][i]) \subseteq seen'
                          /\ (b = c => i # j) =>
                                DedupKeys(buckets'[b][i]) \intersect DedupKeys(buckets'[c][j]) = {}
        BY DEF KeysInv
      <4>1. CASE b \in 1..n /\ c \in 1..n
        <5>1. buckets'[b] = buckets[b] /\ buckets'[c] = buckets[c] /\ b \in DOMAIN buckets /\ c \in DOMAIN buckets
          BY <1>7, <3>2, <4>1
        <5> QED BY <1>4, <1>13, <5>1
      <4>2. CASE b \in 1..n /\ c = n + 1
        <5>1. buckets'[b] = buckets[b] /\ buckets'[c] = bucket
          BY <3>2, <4>2
        <5>2. DedupKeys(buckets[b][i]) \subseteq seen
          BY <3>6, <4>2, <5>1
        <5>3. DedupKeys(bucket[j]) \intersect seen = {}
          BY <1>4, <5>1
        <5> QED BY <1>4, <5>1, <5>2, <5>3
      <4>3. CASE b = n + 1 /\ c \in 1..n
        <5>1. buckets'[b] = bucket /\ buckets'[c] = buckets[c]
          BY <3>2, <4>3
        <5>2. DedupKeys(buckets[c][j]) \subseteq seen
          BY <3>6, <4>3, <5>1
        <5>3. DedupKeys(bucket[i]) \intersect seen = {} /\ DedupKeys(bucket[i]) \subseteq seen'
          BY <1>4, <5>1
        <5> QED BY <5>1, <5>2, <5>3
      <4>4. CASE b = n + 1 /\ c = n + 1
        <5>1. buckets'[b] = bucket /\ buckets'[c] = bucket
          BY <3>2, <4>4
        <5> QED BY <1>4, <4>4, <5>1
      <4> QED BY <3>3, <3>4, <4>1, <4>2, <4>3, <4>4
    <3>8. ASSUME NEW b \in 1..n PROVE \E i \in DOMAIN stats' : Owns(i, b)'
      <4>1. PICK i \in DOMAIN stats : Owns(i, b)
        BY <1>7, <1>13
      <4>2. i \in DOMAIN stats' /\ stats'[i] = stats[i] /\ buckets'[b] = buckets[b]
        BY <1>10, <3>2
      <4>3. Owns(i, b)'
        BY <4>1, <4>2 DEF Owns
      <4> QED BY <4>2, <4>3
    <3>9. ASSUME NEW b, b = n + 1 PROVE \E i \in DOMAIN stats' : Owns(i, b)'
      <4>1. PICK i : i = m + 1
        OBVIOUS
      <4>2. buckets'[b] = bucket /\ stats'[i] = st /\ i \in DOMAIN stats'
        BY <1>10, <3>2, <3>9, <4>1
      <4>3. Owns(i, b)'
        BY <1>4, <1>8, <4>2 DEF Owns
      <4> QED BY <4>2, <4>3
    <3>10. ASSUME NEW b \in 1..n, IsInjective(SelectedSources(query))
           PROVE  buckets[b][1].source # bucket[1].source
      <4>1. PICK i \in DOMAIN stats : Owns(i, b)
        BY <1>7, <1>13
      <4>2. 1 \in DOMAIN buckets[b]
        BY <1>2, <1>7, BucketIs
      <4>3. buckets[b][1].source = SelectedSources(query)[i]
        BY <4>1, <4>2 DEF Owns, SearchInv, StatInv
      <4>4. 1 \in DOMAIN bucket
        <5>1. Len(bucket) # 0
          BY <2>2
        <5> QED BY <1>6, <5>1
      <4>5. bucket[1].source = SelectedSources(query)[m + 1]
        BY <1>4, <1>10, <4>4
      <4>6. i \in Nat /\ i >= 1 /\ i <= m
        BY <1>7
      <4>7. SelectedSources(query) \in Seq(EnabledSources)
        BY <1>2, WholeIs, SelectedAre
      <4>8. DOMAIN SelectedSources(query) = 1..Len(SelectedSources(query)) /\ Len(SelectedSources(query)) \in Nat
        BY <4>7
      <4>9. i \in DOMAIN SelectedSources(query) /\ m + 1 \in DOMAIN SelectedSources(query) /\ i # m + 1
        BY <1>7, <1>10, <4>6, <4>8
      <4> QED BY <3>10, <4>3, <4>5, <4>9 DEF IsInjective
    <3>11. OwnerInv'
      <4>1. \A b \in DOMAIN buckets' : \E i \in DOMAIN stats' : Owns(i, b)'
        BY <3>3, <3>4, <3>8, <3>9
      <4>2. ASSUME IsInjective(SelectedSources(query)), NEW b \in 1..(n + 1), NEW c \in 1..(n + 1), b # c
            PROVE  buckets'[b][1].source # buckets'[c][1].source
        <5>1. CASE b \in 1..n /\ c \in 1..n
          BY <1>7, <1>13, <3>2, <4>2, <5>1
        <5>2. CASE b \in 1..n /\ c = n + 1
          BY <3>2, <3>10, <4>2, <5>2
        <5>3. CASE b = n + 1 /\ c \in 1..n
          BY <3>2, <3>10, <4>2, <5>3
        <5> QED BY <3>4, <4>2, <5>1, <5>2, <5>3
      <4> QED BY <1>1, <3>3, <4>1, <4>2 DEF OwnerInv
    <3> QED BY <3>2, <3>7, <3>11
  <2> QED BY <2>1, <2>2
<1>15. SearchTypeOK'
  BY <1>1, <1>2, <1>4, <1>10, <1>11, <1>14 DEF SearchTypeOK, WorkType, PoolType, StatType
<1> QED BY <1>10, <1>11, <1>12, <1>14, <1>15 DEF SearchInv, ClientInv

(* What is counted of a list is a number. *)
LEMMA ReturnedIs ==
  ASSUME NEW s, NEW list \in Seq(Candidates)
  PROVE  Returned(s, list) \in Nat /\ IsFiniteSet({i \in DOMAIN list : list[i].source = s})
<1> DEFINE P == {i \in DOMAIN list : list[i].source = s}
<1>1. Len(list) \in Nat /\ P \in SUBSET (1..Len(list))
  OBVIOUS
<1>2. IsFiniteSet(1..Len(list))
  BY <1>1, FS_Interval
<1>3. Returned(s, list) = Cardinality(P)
  BY DEF Returned
<1> HIDE DEF P
<1>4. IsFiniteSet(P)
  BY <1>1, <1>2, FS_Subset
<1> QED BY <1>3, <1>4, FS_CardinalityType DEF P

(* What the merge and the end of the search write into the records is not what the rest of them
   says. *)
LEMMA RecordsStay ==
  ASSUME SearchInv, UNCHANGED <<query, todo, seen, buckets>>,
         DOMAIN stats' = DOMAIN stats, stats' \in Seq(StatType),
         \A i \in DOMAIN stats : /\ stats'[i].source = stats[i].source
                                 /\ stats'[i].found = stats[i].found
                                 /\ stats'[i].accepted = stats[i].accepted
                                 /\ stats'[i].filtered = stats[i].filtered
  PROVE  KeysInv' /\ StatInv' /\ OwnerInv'
<1>1. Len(stats') = Len(stats)
  <2>1. stats \in Seq(StatType)
    BY WholeIs DEF SearchInv, ClientInv
  <2>2. DOMAIN stats = 1..Len(stats) /\ DOMAIN stats' = 1..Len(stats') /\ Len(stats) \in Nat /\ Len(stats') \in Nat
    BY <2>1
  <2>3. \A a, b \in Nat : 1..a = 1..b => a = b
    <3> SUFFICES ASSUME NEW a \in Nat, NEW b \in Nat, 1..a = 1..b PROVE a = b
      OBVIOUS
    <3>1. a \in 1..b \/ a = 0
      OBVIOUS
    <3>2. b \in 1..a \/ b = 0
      OBVIOUS
    <3> QED BY <3>1, <3>2
  <2> QED BY <2>2, <2>3
<1>2. KeysInv'
  BY DEF SearchInv, KeysInv
<1>3. StatInv'
  BY <1>1 DEF SearchInv, StatInv
<1>4. OwnerInv'
  <2>1. ASSUME NEW b \in DOMAIN buckets PROVE \E i \in DOMAIN stats' : Owns(i, b)'
    <3>1. PICK i \in DOMAIN stats : Owns(i, b)
      BY DEF SearchInv, OwnerInv
    <3>2. Owns(i, b)'
      BY <3>1 DEF Owns
    <3> QED BY <3>2
  <2> QED BY <2>1 DEF SearchInv, OwnerInv
<1> QED BY <1>2, <1>3, <1>4

(* Behind the last source the client has nothing to do. *)
LEMMA AtTheEnd ==
  ASSUME SearchInv, todo = << >>, place' \in {"publish", "done", "error"},
         UNCHANGED <<query, provider, todo, work, pool, seen, buckets, lastErr>>
  PROVE  PlaceInv' /\ WorkInv' /\ PoolIsSequential'
<1>1. PlaceInv'
  BY DEF PlaceInv, HabrPlaces, VcPlaces, DzenPlaces, EndPlaces
<1>2. WorkInv'
  BY DEF WorkInv, HabrInv, VcInv, DzenInv, AnsweredInv
<1>3. PoolIsSequential'
  BY DEF PoolIsSequential
<1> QED BY <1>1, <1>2, <1>3

(* The merge. *)
LEMMA MergeKeeps ==
  ASSUME SearchInv, Merge
  PROVE  SearchInv'
<1> DEFINE merged == InterleaveBuckets(buckets, query.limit)
<1>1. /\ place = "merge" /\ result' = merged
      /\ stats' = [i \in DOMAIN stats |->
                      [stats[i] EXCEPT !.returned = Returned(stats[i].source, merged)]]
      /\ place' = IF merged = << >> /\ lastErr THEN "error" ELSE "publish"
      /\ UNCHANGED <<query, provider, todo, work, pool, seen, buckets, lastErr, sent>>
  BY DEF Merge, Go
<1>2. ClientInv /\ SearchTypeOK /\ todo = << >> /\ result = << >>
  BY <1>1 DEF SearchInv, ClientInv, PlaceInv, MergeInv, EndPlaces
<1>3. /\ stats \in Seq(StatType) /\ Len(stats) \in Nat /\ DOMAIN stats = 1..Len(stats)
      /\ buckets \in Seq(Seq(Candidates)) /\ query \in Queries
  BY <1>2, WholeIs
<1>4. query.limit \in Nat
  BY <1>2, WorkIs
<1>5. merged \in Seq(Candidates)
  BY <1>3, <1>4, InterleaveTakes
<1> HIDE DEF merged
<1>6. \A i \in 1..Len(stats) :
        /\ [stats[i] EXCEPT !.returned = Returned(stats[i].source, merged)] \in StatType
        /\ [stats[i] EXCEPT !.returned = Returned(stats[i].source, merged)].source = stats[i].source
        /\ [stats[i] EXCEPT !.returned = Returned(stats[i].source, merged)].found = stats[i].found
        /\ [stats[i] EXCEPT !.returned = Returned(stats[i].source, merged)].accepted = stats[i].accepted
        /\ [stats[i] EXCEPT !.returned = Returned(stats[i].source, merged)].filtered = stats[i].filtered
        /\ [stats[i] EXCEPT !.returned = Returned(stats[i].source, merged)].returned
              = Returned(stats[i].source, merged)
  <2> SUFFICES ASSUME NEW i \in 1..Len(stats), NEW st, st = stats[i], NEW r, r = Returned(stats[i].source, merged)
               PROVE  /\ [st EXCEPT !.returned = r] \in StatType
                      /\ [st EXCEPT !.returned = r].source = st.source
                      /\ [st EXCEPT !.returned = r].found = st.found
                      /\ [st EXCEPT !.returned = r].accepted = st.accepted
                      /\ [st EXCEPT !.returned = r].filtered = st.filtered
                      /\ [st EXCEPT !.returned = r].returned = r
    OBVIOUS
  <2>2. st \in StatType
    BY <1>3
  <2>3. r \in Nat
    BY <1>5, ReturnedIs
  <2>1. st \in StatType /\ r \in Nat
    BY <2>2, <2>3
  <2> QED BY <2>1 DEF StatType
<1>7. \A i \in DOMAIN stats : stats'[i] = [stats[i] EXCEPT !.returned = Returned(stats[i].source, merged)]
  BY <1>1
<1>8. stats' \in [1..Len(stats) -> StatType]
  BY <1>1, <1>3, <1>6
<1>9. stats' \in Seq(StatType) /\ DOMAIN stats' = DOMAIN stats
  BY <1>3, <1>8, ListOfLength
<1>10. \A i \in DOMAIN stats :
          /\ stats'[i].source = stats[i].source /\ stats'[i].found = stats[i].found
          /\ stats'[i].accepted = stats[i].accepted /\ stats'[i].filtered = stats[i].filtered
          /\ stats'[i].returned = Returned(stats[i].source, merged)
  BY <1>3, <1>6, <1>7
<1>11. KeysInv' /\ StatInv' /\ OwnerInv'
  BY <1>1, <1>9, <1>10, RecordsStay
<1>12. PlaceInv' /\ WorkInv' /\ PoolIsSequential'
  BY <1>1, <1>2, AtTheEnd
<1>13. MergeInv'
  <2>1. \A i \in DOMAIN stats' : stats'[i].returned = Returned(stats'[i].source, result')
    BY <1>1, <1>9, <1>10
  <2> QED BY <1>1, <2>1 DEF MergeInv, merged
<1>14. SearchTypeOK'
  <2>1. sent' \in 0..Len(result')
    <3>1. sent \in 0..Len(result) /\ Len(result) = 0
      BY <1>2 DEF SearchTypeOK
    <3>2. sent' = 0 /\ Len(result') \in Nat
      BY <1>1, <1>5, <3>1
    <3> QED BY <3>2
  <2>2. place' \in Places
    BY <1>1 DEF Places
  <2> QED BY <1>1, <1>2, <1>5, <1>9, <2>1, <2>2 DEF SearchTypeOK, StatType
<1> QED BY <1>11, <1>12, <1>13, <1>14 DEF SearchInv, ClientInv

(* Publishing leaves the result as it is. *)
LEMMA PublishKeeps ==
  ASSUME SearchInv, Publish
  PROVE  SearchInv'
<1>1. /\ place = "publish" /\ sent < Len(result)
      /\ (sent' = sent + 1 /\ place' = place) \/ (place' = "error" /\ sent' = sent)
      /\ UNCHANGED <<query, provider, todo, work, pool, seen, buckets, stats, lastErr, result>>
  BY DEF Publish, Go
<1>2. ClientInv /\ SearchTypeOK /\ todo = << >>
  BY <1>1 DEF SearchInv, ClientInv, PlaceInv, EndPlaces
<1>3. place' \in {"publish", "error"}
  BY <1>1
<1>4. PlaceInv' /\ WorkInv' /\ PoolIsSequential'
  BY <1>1, <1>2, <1>3, AtTheEnd
<1>5. KeysInv' /\ StatInv' /\ OwnerInv'
  BY <1>1, <1>2, WholeIs, RecordsStay
<1>6. MergeInv'
  BY <1>1, <1>3 DEF SearchInv, MergeInv
<1>7. sent' \in 0..Len(result')
  <2>1. sent \in 0..Len(result) /\ result \in Seq(Candidates)
    BY <1>2 DEF SearchTypeOK
  <2>2. Len(result) \in Nat
    BY <2>1
  <2> QED BY <1>1, <2>1, <2>2
<1>8. SearchTypeOK'
  BY <1>1, <1>2, <1>3, <1>7 DEF SearchTypeOK, Places
<1> QED BY <1>4, <1>5, <1>6, <1>8 DEF SearchInv, ClientInv

(* At the end the records say what was published. *)
LEMMA ReturnKeeps ==
  ASSUME SearchInv, Return
  PROVE  SearchInv'
<1>1. /\ place = "publish" /\ place' = "done"
      /\ stats' = [i \in DOMAIN stats |->
                      [stats[i] EXCEPT !.published = Returned(stats[i].source, result)]]
      /\ UNCHANGED <<query, provider, todo, work, pool, seen, buckets, lastErr, result, sent>>
  BY DEF Return, Go
<1>2. ClientInv /\ SearchTypeOK /\ todo = << >>
  BY <1>1 DEF SearchInv, ClientInv, PlaceInv, EndPlaces
<1>3. /\ stats \in Seq(StatType) /\ Len(stats) \in Nat /\ DOMAIN stats = 1..Len(stats)
      /\ result \in Seq(Candidates)
  BY <1>2, WholeIs
<1>4. ASSUME NEW i \in DOMAIN stats
      PROVE  /\ stats'[i] \in StatType
             /\ stats'[i].source = stats[i].source /\ stats'[i].found = stats[i].found
             /\ stats'[i].accepted = stats[i].accepted /\ stats'[i].filtered = stats[i].filtered
             /\ stats'[i].returned = stats[i].returned
  <2>1. PICK st, r : st = stats[i] /\ r = Returned(stats[i].source, result)
    OBVIOUS
  <2>5. st \in StatType
    BY <1>3, <2>1
  <2>6. r \in Nat
    BY <1>3, <2>1, ReturnedIs
  <2>2. st \in StatType /\ r \in Nat
    BY <2>5, <2>6
  <2>3. stats'[i] = [st EXCEPT !.published = r]
    BY <1>1, <2>1
  <2>4. /\ stats'[i] \in StatType
        /\ stats'[i].source = st.source /\ stats'[i].found = st.found
        /\ stats'[i].accepted = st.accepted /\ stats'[i].filtered = st.filtered
        /\ stats'[i].returned = st.returned
    BY <2>2, <2>3 DEF StatType
  <2> QED BY <2>1, <2>4
<1>5. stats' \in [1..Len(stats) -> StatType]
  BY <1>1, <1>3, <1>4
<1>6. stats' \in Seq(StatType) /\ DOMAIN stats' = DOMAIN stats
  BY <1>3, <1>5, ListOfLength
<1>7. KeysInv' /\ StatInv' /\ OwnerInv'
  BY <1>1, <1>4, <1>6, RecordsStay
<1>8. PlaceInv' /\ WorkInv' /\ PoolIsSequential'
  BY <1>1, <1>2, AtTheEnd
<1>9. MergeInv'
  BY <1>1, <1>4, <1>6 DEF SearchInv, MergeInv
<1>10. SearchTypeOK'
  BY <1>1, <1>2, <1>6 DEF SearchTypeOK, Places, StatType
<1> QED BY <1>7, <1>8, <1>9, <1>10 DEF SearchInv, ClientInv

(* A step of a client, or of a worker of the pool, leaves what was contributed as it is. *)
LEMMA ClientStepKeeps ==
  ASSUME SearchInv, ClientInv', UNCHANGED searchVars, place \notin EndPlaces,
         place' \notin {"publish", "done", "error"}, PoolIsSequential'
  PROVE  SearchInv'
<1>1. /\ query' = query /\ todo' = todo /\ seen' = seen /\ buckets' = buckets /\ stats' = stats
      /\ result' = result
  BY DEF searchVars
<1>2. KeysInv' /\ StatInv' /\ OwnerInv'
  <2>1. stats \in Seq(StatType)
    BY WholeIs DEF SearchInv, ClientInv
  <2> QED BY <1>1, <2>1, RecordsStay
<1>3. MergeInv'
  BY <1>1 DEF SearchInv, MergeInv, EndPlaces
<1> QED BY <1>2, <1>3 DEF SearchInv

(* Every step keeps the invariant. *)
LEMMA SearchKeeps ==
  ASSUME SearchInv, [SearchNext]_vars
  PROVE  SearchInv'
<1>1. ClientInv
  BY DEF SearchInv
<1>2. CASE HabrStep
  <2>1. ClientInv'
    BY <1>1, <1>2, HabrKeeps
  <2>2. /\ UNCHANGED searchVars /\ place \in HabrPlaces
        /\ place' \in {"habr_feed", "habr_article", "failed", "collect"}
    BY <1>2 DEF HabrStep, HabrFeed, HabrRequestFails, HabrFeedUnreadable, HabrPage, HabrDone,
                HabrPlaces, Go
  <2>3. Kind[Source'] = "habr"
    BY <1>1, <2>2 DEF ClientInv, PlaceInv, searchVars, Source
  <2>4. PoolIsSequential'
    BY <2>3 DEF PoolIsSequential
  <2> QED BY <2>1, <2>2, <2>4, ClientStepKeeps DEF HabrPlaces, EndPlaces
<1>3. CASE VcStep
  <2>1. ClientInv'
    BY <1>1, <1>3, VcKeeps
  <2>2. /\ UNCHANGED searchVars /\ place \in VcPlaces
        /\ place' \in {"vc_urls", "vc_article", "vc_feed", "vc_enrich", "failed", "collect"}
    BY <1>3 DEF VcStep, DiscoveryPage, WebSearch, UrlSearchFails, VcPage, VcPagesDone, VcFeed,
                VcFeedFails, VcEnrich, VcFeedDone, VcPlaces, Go
  <2>3. Kind[Source'] = "vc"
    BY <1>1, <2>2 DEF ClientInv, PlaceInv, searchVars, Source
  <2>4. PoolIsSequential'
    BY <2>3 DEF PoolIsSequential
  <2> QED BY <2>1, <2>2, <2>4, ClientStepKeeps DEF VcPlaces, EndPlaces
<1>4. CASE DzenSearchPage \/ DzenSearchFails
  <2>1. ClientInv'
    BY <1>1, <1>4, DzenKeeps
  <2>2. /\ UNCHANGED searchVars /\ place \in DzenPlaces
        /\ place' \in {"dzen_more", "dzen_fetch", "failed"}
    BY <1>4 DEF DzenSearchPage, DzenSearchFails, DzenPlaces, Go
  <2>3. PoolIsSequential'
    BY <2>2 DEF PoolIsSequential
  <2> QED BY <2>1, <2>2, <2>3, ClientStepKeeps DEF DzenPlaces, EndPlaces
<1>5. CASE OrderResults
  <2>1. ClientInv' /\ PoolIsSequential'
    BY <1>1, <1>5, ResultsInOrder
  <2>2. UNCHANGED searchVars /\ place = "dzen_fetch" /\ place' = "collect"
    BY <1>5 DEF OrderResults, Go
  <2> QED BY <2>1, <2>2, ClientStepKeeps DEF EndPlaces
<1>6. CASE RssFeed \/ RssFeedFails
  <2>1. ClientInv'
    BY <1>1, <1>6, RssKeeps
  <2>2. UNCHANGED searchVars /\ place = "rss_feed" /\ place' \in {"collect", "failed"}
    BY <1>6 DEF RssFeed, RssFeedFails, Go
  <2>3. Kind[Source'] = "rss"
    BY <1>1, <2>2 DEF ClientInv, PlaceInv, searchVars, Source
  <2>4. PoolIsSequential'
    BY <2>3 DEF PoolIsSequential
  <2> QED BY <2>1, <2>2, <2>4, ClientStepKeeps DEF EndPlaces
<1>7. CASE \E w \in Workers : WorkerStep(w)
  <2>1. PICK w \in Workers : GiveAddress(w) \/ FetchPage(w)
    BY <1>7 DEF WorkerStep
  <2>2. ClientInv'
    BY <1>1, <2>1, GiveAddressKeeps, FetchPageKeeps
  <2>3. UNCHANGED searchVars /\ place = "dzen_fetch" /\ place' = "dzen_fetch"
    BY <2>1 DEF GiveAddress, FetchPage
  <2>4. PoolIsSequential'
    BY <2>3 DEF PoolIsSequential
  <2> QED BY <2>2, <2>3, <2>4, ClientStepKeeps DEF EndPlaces
<1>8. CASE UNCHANGED vars
  <2>1. UNCHANGED <<query, provider, todo, place, work, pool, seen, buckets, stats, lastErr, result, sent>>
    BY <1>8 DEF vars, clientVars, searchVars
  <2>2. SearchTypeOK' /\ PlaceInv' /\ PoolIsSequential'
    <3>1. SearchTypeOK'
      BY <2>1 DEF SearchInv, ClientInv, SearchTypeOK
    <3>2. PlaceInv'
      BY <2>1 DEF SearchInv, ClientInv, PlaceInv, Source
    <3>3. PoolIsSequential'
      BY <2>1 DEF SearchInv, PoolIsSequential, Source
    <3> QED BY <3>1, <3>2, <3>3
  <2>3. WorkInv'
    <3>1. Target' = Target /\ RequestsBounded' = RequestsBounded /\ PoolInv' = PoolInv
      BY <2>1 DEF Target, RequestsBounded, PoolInv, Source
    <3>2. HabrInv' /\ VcInv'
      BY <2>1 DEF SearchInv, ClientInv, WorkInv, HabrInv, VcInv
    <3>3. DzenInv' /\ AnsweredInv'
      BY <2>1, <3>1 DEF SearchInv, ClientInv, WorkInv, DzenInv, AnsweredInv
    <3> QED BY <3>2, <3>3 DEF WorkInv
  <2>4. KeysInv' /\ StatInv' /\ OwnerInv'
    <3>1. stats \in Seq(StatType)
      BY <1>1, WholeIs DEF ClientInv
    <3> QED BY <2>1, <3>1, RecordsStay
  <2>5. MergeInv'
    BY <2>1 DEF SearchInv, MergeInv
  <2> QED BY <2>2, <2>3, <2>4, <2>5 DEF SearchInv, ClientInv
<1> QED BY <1>2, <1>3, <1>4, <1>5, <1>6, <1>7, <1>8, CollectKeeps, GiveUpKeeps, MergeKeeps, PublishKeeps,
           ReturnKeeps DEF SearchNext, SearchStep, DzenStep

(* The invariant of a search. *)
LEMMA SearchInvariant == SearchSpec => []SearchInv
<1>1. SearchInit => SearchInv
  <2> SUFFICES ASSUME SearchInit PROVE SearchInv
    OBVIOUS
  <2>1. ClientInv
    BY SearchStarts
  <2>2. /\ todo = SelectedSources(query) /\ place = Start(todo, provider)
        /\ buckets = << >> /\ stats = << >> /\ result = << >>
    BY DEF SearchInit
  <2>3. todo \in Seq(EnabledSources) /\ provider \in Providers
    BY <2>1, WorkIs
  <2>4. place \notin {"collect", "publish", "done", "error"}
    BY <2>2, <2>3, StartIs
  <2>5. KeysInv /\ OwnerInv
    BY <2>2 DEF KeysInv, OwnerInv
  <2>6. StatInv
    <3>1. Len(stats) = 0 /\ DOMAIN stats = {} /\ Len(todo) \in Nat /\ DOMAIN todo = 1..Len(todo)
      BY <2>2, <2>3
    <3>2. \A k \in DOMAIN todo : 0 + k = k
      BY <3>1
    <3>3. Len(SelectedSources(query)) = 0 + Len(todo)
      BY <2>2, <3>1
    <3> QED BY <2>2, <3>1, <3>2, <3>3 DEF StatInv
  <2>7. MergeInv /\ PoolIsSequential
    BY <2>2, <2>4 DEF MergeInv, PoolIsSequential
  <2> QED BY <2>1, <2>5, <2>6, <2>7 DEF SearchInv
<1>2. SearchInv /\ [SearchNext]_vars => SearchInv'
  BY SearchKeeps
<1> QED BY <1>1, <1>2, PTL DEF SearchSpec

-----------------------------------------------------------------------------
(* Every variable of a search has its type: in particular no request is tried more than
   MaxAttempts times, and only enabled sources are searched. *)
THEOREM SearchTypes == SearchSpec => []SearchTypeOK
<1>1. SearchInv => SearchTypeOK
  BY DEF SearchInv, ClientInv
<1> QED BY <1>1, SearchInvariant, PTL

(* There are no more results than addresses. *)
LEMMA ResultsAreFew ==
  ASSUME work \in WorkType, pool \in PoolType, PoolInv
  PROVE  Len(pool.results) \in Nat /\ Len(pool.results) <= Len(work.urls)
<1> DEFINE m == Len(pool.results)
           n == Len(work.urls)
           f == [k \in 1..m |-> pool.results[k].index]
<1>1. pool.results \in Seq([index : Nat, ok : BOOLEAN]) /\ work.urls \in Seq(Urls) /\ pool.given \in Nat
  BY DEF WorkType, PoolType
<1>2. m \in Nat /\ n \in Nat /\ DOMAIN pool.results = 1..m
  BY <1>1
<1>3. pool.given <= n
  BY DEF PoolInv
<1> HIDE DEF m, n
<1>4. \A k \in 1..m : pool.results[k].index \in 1..pool.given
  BY <1>2 DEF PoolInv
<1>5. \A i \in 1..pool.given : i \in 1..n
  BY <1>1, <1>2, <1>3
<1>6. \A j, k \in 1..m : pool.results[j].index = pool.results[k].index => j = k
  BY <1>2 DEF PoolInv
<1>7. f \in [1..m -> 1..n] /\ \A k \in 1..m : f[k] = pool.results[k].index
  BY <1>4, <1>5
<1> HIDE DEF f
<1>8. Different(f, m)
  BY <1>6, <1>7 DEF Different
<1>9. m <= n
  BY <1>2, <1>7, <1>8, DifferentNumbers
<1> QED BY <1>2, <1>9 DEF m, n

(* At every place of a client the requests are within their bound. *)
LEMMA RequestsAre ==
  ASSUME ClientInv
  PROVE  RequestsBounded
<1> SUFFICES ASSUME todo # << >> PROVE RequestsBounded
  BY DEF RequestsBounded
<1>1. /\ work \in WorkType /\ pool \in PoolType /\ query \in Queries /\ query.limit \in Nat
      /\ work.next \in Nat \ {0} /\ work.requests \in Nat /\ work.attempt \in 1..MaxAttempts
      /\ Len(work.urls) \in Nat /\ Len(work.found) \in Nat /\ provider \in Providers
      /\ Source \in EnabledSources
  BY WorkIs
<1>2. place \in HabrPlaces \union VcPlaces \union DzenPlaces \union {"rss_feed", "collect", "failed"}
  BY DEF ClientInv, SearchTypeOK, PlaceInv, EndPlaces, Places, HabrPlaces, VcPlaces, DzenPlaces
<1>3. /\ MaxAttempts \in Nat /\ MaxAttempts >= 1 /\ MaxSearchPages \in Nat /\ MaxLinks \in Nat
      /\ Target \in Nat
  BY <1>1, ConstantsAre, TargetIs
<1>4. CASE place \in {"collect", "failed"}
  BY <1>4 DEF ClientInv, WorkInv, AnsweredInv
<1>5. CASE place \in HabrPlaces
  <2> DEFINE T(n) == MaxAttempts * n
  <2>1. Kind[Source] = "habr"
    BY <1>5 DEF ClientInv, PlaceInv
  <2>2. /\ place = "habr_feed" => work.requests = work.attempt - 1 /\ work.next = 1
        /\ place = "habr_article" =>
              /\ work.requests <= T(work.next) + (work.attempt - 1)
              /\ work.next <= Len(work.found) + 1
              /\ work.next > Len(work.found) => work.attempt = 1
              /\ Len(work.found) <= query.limit
    BY DEF ClientInv, WorkInv, HabrInv
  <2>3. ASSUME NEW m \in Nat, NEW n \in Nat, m <= n
        PROVE  T(m) \in Nat /\ T(n) \in Nat /\ T(m) <= T(n) /\ T(n + 1) = T(n) + MaxAttempts
    BY <1>3, <2>3, TimesGrows
  <2> HIDE DEF T
  <2>4. /\ work.attempt \in Nat /\ work.attempt >= 1 /\ work.attempt <= MaxAttempts
        /\ work.next \in Nat /\ work.next >= 1
    BY <1>1, <1>3
  <2>5. query.limit \in Nat /\ query.limit + 1 \in Nat /\ Len(work.found) \in Nat /\ work.requests \in Nat
    BY <1>1
  <2>6. /\ T(query.limit + 1) \in Nat /\ T(query.limit) \in Nat
        /\ T(query.limit + 1) = T(query.limit) + MaxAttempts
    <3>1. query.limit <= query.limit /\ query.limit + 1 <= query.limit + 1
      BY <2>5
    <3>2. T(query.limit) \in Nat /\ T(query.limit + 1) = T(query.limit) + MaxAttempts
      BY <2>3, <2>5, <3>1
    <3>3. T(query.limit + 1) \in Nat
      BY <2>3, <2>5, <3>1
    <3> QED BY <3>2, <3>3
  <2>7. work.requests <= T(query.limit + 1)
    <3>1. CASE place = "habr_feed"
      BY <1>3, <2>2, <2>4, <2>5, <2>6, <3>1
    <3>2. CASE place = "habr_article" /\ work.next <= Len(work.found)
      <4>1. work.next <= query.limit
        BY <2>2, <2>4, <2>5, <3>2
      <4>2. T(work.next) <= T(query.limit) /\ T(work.next) \in Nat
        BY <2>3, <2>4, <2>5, <4>1
      <4> QED BY <1>3, <2>2, <2>4, <2>5, <2>6, <3>2, <4>2
    <3>3. CASE place = "habr_article" /\ work.next > Len(work.found)
      <4>1. work.attempt = 1 /\ work.next <= query.limit + 1
        BY <2>2, <2>4, <2>5, <3>3
      <4>2. T(work.next) <= T(query.limit + 1) /\ T(work.next) \in Nat
        BY <2>3, <2>4, <2>5, <4>1
      <4> QED BY <2>2, <2>5, <2>6, <3>3, <4>1, <4>2
    <3>4. work.next <= Len(work.found) \/ work.next > Len(work.found)
      BY <2>4, <2>5
    <3> QED BY <1>5, <3>1, <3>2, <3>3, <3>4 DEF HabrPlaces
  <2> QED BY <2>1, <2>7 DEF RequestsBounded, T
<1>6. CASE place \in VcPlaces
  <2>1. Kind[Source] = "vc"
    BY <1>6 DEF ClientInv, PlaceInv
  <2>2. VcInv
    BY DEF ClientInv, WorkInv
  <2>3. query.limit \in Nat /\ MaxLinks \in Nat /\ work.requests \in Nat /\ work.next \in Nat
        /\ Len(work.urls) \in Nat /\ Len(work.found) \in Nat
    BY <1>1, <1>3
  <2>4. work.requests <= 3 * query.limit + 1 + MaxLinks
    <3>1. CASE place = "vc_urls"
      <4>1. provider # "none" /\ provider \in {"discovery", "web", "none"}
        BY <1>1, <2>2, <3>1, SearchAssumption DEF VcInv
      <4>2. CASE provider = "discovery"
        <5>1. work.requests <= Len(work.urls) /\ Len(work.urls) < query.limit
          BY <2>2, <3>1, <4>2 DEF VcInv
        <5> QED BY <2>3, <5>1
      <4>3. CASE provider = "web"
        <5>1. work.requests = 0
          BY <2>2, <3>1, <4>3 DEF VcInv
        <5> QED BY <2>3, <5>1
      <4> QED BY <4>1, <4>2, <4>3
    <3>2. CASE place = "vc_article"
      <4>1. /\ work.requests + Len(work.urls) <= 2 * query.limit + MaxLinks + (work.next - 1)
            /\ work.next <= Len(work.urls) + 1
        BY <2>2, <3>2 DEF VcInv
      <4>2. work.requests <= 2 * query.limit + MaxLinks
        BY <2>3, <4>1, VcSums, Zenon
      <4> QED BY <2>3, <4>2, VcSums, Zenon
    <3>3. CASE place = "vc_feed"
      <4>1. work.requests <= 2 * query.limit + MaxLinks
        BY <2>2, <3>3 DEF VcInv
      <4> QED BY <2>3, <4>1
    <3>4. CASE place = "vc_enrich"
      <4>1. /\ work.requests <= 2 * query.limit + MaxLinks + work.next
            /\ work.next <= Len(work.found) + 1 /\ Len(work.found) <= query.limit
        BY <2>2, <3>4 DEF VcInv
      <4> QED BY <2>3, <4>1, VcSums, Zenon
    <3> QED BY <1>6, <3>1, <3>2, <3>3, <3>4 DEF VcPlaces
  <2> QED BY <2>1, <2>4 DEF RequestsBounded
<1>7. CASE place \in DzenPlaces
  <2>1. Kind[Source] = "dzen"
    BY <1>7 DEF ClientInv, PlaceInv
  <2>2. DzenInv
    BY DEF ClientInv, WorkInv
  <2>3. work.requests <= MaxSearchPages + Target
    <3>1. CASE place \in {"dzen_search", "dzen_more"}
      <4>1. work.requests = 0 \/ (work.requests = work.pages /\ work.pages < MaxSearchPages)
        BY <2>2, <3>1 DEF DzenInv
      <4> QED BY <1>1, <1>3, <4>1
    <3>2. CASE place = "dzen_fetch"
      <4>1. /\ work.requests <= MaxSearchPages + Len(pool.results) /\ Len(work.urls) <= Target
            /\ PoolInv
        BY <2>2, <3>2 DEF DzenInv
      <4>2. Len(pool.results) \in Nat /\ Len(pool.results) <= Len(work.urls)
        BY <1>1, <4>1, ResultsAreFew
      <4>3. work.requests \in Nat /\ Len(work.urls) \in Nat
        BY <1>1
      <4> QED BY <1>3, <4>1, <4>2, <4>3
    <3> QED BY <1>7, <3>1, <3>2 DEF DzenPlaces
  <2> QED BY <2>1, <2>3 DEF RequestsBounded
<1>8. CASE place = "rss_feed"
  <2>1. Kind[Source] = "rss" /\ work.requests = 0
    BY <1>8 DEF ClientInv, PlaceInv, WorkInv, AnsweredInv
  <2> QED BY <2>1 DEF RequestsBounded
<1> QED BY <1>2, <1>4, <1>5, <1>6, <1>7, <1>8

(* No source costs more requests than its client's bound. *)
THEOREM RequestsAreBounded == SearchSpec => []RequestsBounded
<1>1. SearchInv => RequestsBounded
  BY RequestsAre DEF SearchInv
<1> QED BY <1>1, SearchInvariant, PTL

(* The pool of workers does what one worker would do. *)
THEOREM PoolWorksLikeOne == SearchSpec => []PoolIsSequential
<1>1. SearchInv => PoolIsSequential
  BY DEF SearchInv
<1> QED BY <1>1, SearchInvariant, PTL

(* The turn at which each candidate of the result was taken; no turn is taken twice. *)
Draws(order) ==
    /\ \A k \in DOMAIN result : /\ order[k] \in Turns(buckets)
                                /\ result[k] = buckets[order[k][1]][order[k][2]]
    /\ \A j, k \in DOMAIN result : order[j] = order[k] => j = k

(* The result is drawn from the buckets. *)
LEMMA ResultDraws ==
  ASSUME SearchInv
  PROVE  \E order : Draws(order)
<1>1. CASE place \in {"publish", "done", "error"}
  <2> DEFINE c == Cardinality(Turns(buckets))
             n == Min({query.limit, c})
             order == TurnOrder(buckets)
  <2>1. result = InterleaveBuckets(buckets, query.limit)
    BY <1>1 DEF SearchInv, MergeInv
  <2>2. buckets \in Seq(Seq(Candidates)) /\ query.limit \in Nat
    BY WholeIs, WorkIs DEF SearchInv, ClientInv
  <2>3. /\ n \in Nat /\ n <= c /\ result \in Seq(Candidates) /\ Len(result) = n
        /\ \A k \in 1..n : order[k] \in Turns(buckets)
                           /\ result[k] = buckets[order[k][1]][order[k][2]]
    BY <2>1, <2>2, InterleaveTakes
  <2>4. c \in Nat /\ order \in [1..c -> Turns(buckets)] /\ IsInjective(order)
    BY <2>2, TurnsInOrder
  <2> HIDE DEF n, c, order
  <2>5. DOMAIN result = 1..n
    BY <2>3
  <2>6. \A k \in 1..n : k \in 1..c
    BY <2>3, <2>4
  <2>7. \A j, k \in 1..n : order[j] = order[k] => j = k
    BY <2>4, <2>6 DEF IsInjective
  <2>8. Draws(order)
    BY <2>3, <2>5, <2>7 DEF Draws
  <2> QED BY <2>8
<1>2. CASE place \notin {"publish", "done", "error"}
  <2>1. result = << >>
    BY <1>2 DEF SearchInv, MergeInv
  <2>2. DOMAIN result = {}
    BY <2>1
  <2>3. Draws(<< >>)
    BY <2>2 DEF Draws
  <2> QED BY <2>3
<1> QED BY <1>1, <1>2

(* Candidates of different turns share no key. *)
LEMMA TurnsApart ==
  ASSUME SearchInv, NEW s \in Turns(buckets), NEW t \in Turns(buckets), s # t
  PROVE  DedupKeys(buckets[s[1]][s[2]]) \intersect DedupKeys(buckets[t[1]][t[2]]) = {}
<1>1. /\ s = <<s[1], s[2]>> /\ s[1] \in DOMAIN buckets /\ s[2] \in DOMAIN buckets[s[1]]
      /\ t = <<t[1], t[2]>> /\ t[1] \in DOMAIN buckets /\ t[2] \in DOMAIN buckets[t[1]]
  BY TurnsAre
<1>2. s[1] = t[1] => s[2] # t[2]
  BY <1>1
<1> QED BY <1>1, <1>2 DEF SearchInv, KeysInv

(* No article is returned twice. *)
THEOREM NothingReturnedTwice == SearchSpec => []NoTwoAlike
<1>1. ASSUME SearchInv PROVE NoTwoAlike
  <2> SUFFICES ASSUME NEW i \in DOMAIN result, NEW j \in DOMAIN result, i # j
               PROVE  /\ result[i].url # result[j].url
                      /\ result[i].title = result[j].title => result[i].title \notin LongTitles
                      /\ result[i].source = result[j].source => result[i].id # result[j].id
    BY DEF NoTwoAlike
  <2>1. PICK order : Draws(order)
    BY <1>1, ResultDraws
  <2>2. /\ order[i] \in Turns(buckets) /\ result[i] = buckets[order[i][1]][order[i][2]]
        /\ order[j] \in Turns(buckets) /\ result[j] = buckets[order[j][1]][order[j][2]]
        /\ order[i] # order[j]
    BY <2>1 DEF Draws
  <2>3. DedupKeys(result[i]) \intersect DedupKeys(result[j]) = {}
    BY <1>1, <2>2, TurnsApart
  <2>4. \A c : /\ <<"url", c.url>> \in DedupKeys(c) /\ <<"source", c.source, c.id>> \in DedupKeys(c)
               /\ c.title \in LongTitles => <<"title", c.title>> \in DedupKeys(c)
    BY DEF DedupKeys
  <2>5. result[i].url # result[j].url
    BY <2>3, <2>4
  <2>6. result[i].title = result[j].title => result[i].title \notin LongTitles
    BY <2>3, <2>4
  <2>7. result[i].source = result[j].source => result[i].id # result[j].id
    BY <2>3, <2>4
  <2> QED BY <2>5, <2>6, <2>7
<1> QED BY <1>1, SearchInvariant, PTL

(* The sources take turns. *)
THEOREM NoSourceIsCrowdedOut == SearchSpec => []SourcesTakeTurns
<1>1. ASSUME SearchInv PROVE SourcesTakeTurns
  <2> SUFFICES ASSUME place \in {"publish", "done"} PROVE TakesTurns(result, buckets, query.limit)
    BY DEF SourcesTakeTurns
  <2>1. result = InterleaveBuckets(buckets, query.limit)
    BY <1>1 DEF SearchInv, MergeInv
  <2>2. buckets \in Seq(Seq(Candidates)) /\ query.limit \in Nat
    BY <1>1, WholeIs, WorkIs DEF SearchInv, ClientInv
  <2>3. ASSUME NEW s \in Turns(buckets), NEW t \in Turns(buckets),
               buckets[s[1]][s[2]] = buckets[t[1]][t[2]]
        PROVE  s = t
    <3>1. \A c : <<"url", c.url>> \in DedupKeys(c)
      BY DEF DedupKeys
    <3>2. DedupKeys(buckets[s[1]][s[2]]) \intersect DedupKeys(buckets[t[1]][t[2]]) # {}
      BY <2>3, <3>1
    <3> QED BY <1>1, <3>2, TurnsApart
  <2> QED BY <2>1, <2>2, <2>3, MergeTakesTurns
<1> QED BY <1>1, SearchInvariant, PTL

-----------------------------------------------------------------------------
(* With every source selected once, a record's source is its own, and every candidate of the
   result is of a source that has a record, from the bucket of it. *)
LEMMA OneRecordEach ==
  ASSUME SearchInv, IsInjective(SelectedSources(query))
  PROVE  \A i, j \in DOMAIN stats : stats[i].source = stats[j].source => i = j
<1>1. SelectedSources(query) \in Seq(EnabledSources) /\ Len(stats) \in Nat /\ Len(todo) \in Nat
      /\ DOMAIN stats = 1..Len(stats)
  BY WholeIs, SelectedAre DEF SearchInv, ClientInv
<1>2. Len(SelectedSources(query)) = Len(stats) + Len(todo)
  BY DEF SearchInv, StatInv
<1>3. DOMAIN SelectedSources(query) = 1..Len(SelectedSources(query))
  BY <1>1
<1>4. \A i \in DOMAIN stats : i \in DOMAIN SelectedSources(query)
  <2> SUFFICES ASSUME NEW i \in 1..Len(stats) PROVE i \in 1..(Len(stats) + Len(todo))
    BY <1>1, <1>2, <1>3
  <2>1. Len(stats) \in Nat /\ Len(todo) \in Nat
    BY <1>1
  <2> QED BY <2>1
<1>5. \A i \in DOMAIN stats : stats[i].source = SelectedSources(query)[i]
  BY DEF SearchInv, StatInv
<1> QED BY <1>4, <1>5 DEF IsInjective

(* The candidates of a source in the result are of its bucket, so they are not more than it
   contributed. *)
LEMMA ReturnedIsAccepted ==
  ASSUME SearchInv, IsInjective(SelectedSources(query)), NEW i \in DOMAIN stats
  PROVE  Returned(stats[i].source, result) <= stats[i].accepted
<1> DEFINE s == stats[i].source
           P == {n \in DOMAIN result : result[n].source = s}
<1>1. /\ stats \in Seq(StatType) /\ result \in Seq(Candidates) /\ SearchTypeOK
  BY WholeIs DEF SearchInv, ClientInv
<1>2. Returned(s, result) = Cardinality(P) /\ IsFiniteSet(P)
  BY <1>1, ReturnedIs DEF Returned
<1>3. stats[i].accepted \in Nat
  <2>1. stats[i] \in StatType
    BY <1>1, WholeIs
  <2> QED BY <2>1 DEF StatType
<1>4. PICK order : Draws(order)
  BY ResultDraws
<1> DEFINE b(n) == order[n][1]
           p(n) == order[n][2]
<1>5. ASSUME NEW n \in P
      PROVE  /\ b(n) \in DOMAIN buckets /\ p(n) \in DOMAIN buckets[b(n)]
             /\ order[n] = <<b(n), p(n)>>
             /\ buckets[b(n)][p(n)].source = s
             /\ Owns(i, b(n))
  <2>1. order[n] \in Turns(buckets) /\ result[n] = buckets[order[n][1]][order[n][2]]
    BY <1>4 DEF Draws
  <2>2. b(n) \in DOMAIN buckets /\ p(n) \in DOMAIN buckets[b(n)] /\ order[n] = <<b(n), p(n)>>
    BY <2>1, TurnsAre
  <2>3. buckets[b(n)][p(n)].source = s
    BY <2>1
  <2>4. PICK j \in DOMAIN stats : Owns(j, b(n))
    BY <2>2 DEF SearchInv, OwnerInv
  <2>5. stats[j].source = s
    BY <2>2, <2>3, <2>4 DEF Owns
  <2>6. j = i
    BY <2>5, OneRecordEach
  <2> QED BY <2>2, <2>3, <2>4, <2>6
<1>6. ASSUME NEW m \in P, NEW n \in P PROVE b(m) = b(n)
  <2>1. 1 \in DOMAIN buckets[b(m)] /\ 1 \in DOMAIN buckets[b(n)]
    BY <1>1, <1>5, BucketIs
  <2>2. buckets[b(m)][1].source = s /\ buckets[b(n)][1].source = s
    BY <1>5, <2>1 DEF Owns
  <2>3. b(m) # b(n) => buckets[b(m)][1].source # buckets[b(n)][1].source
    BY <1>5 DEF SearchInv, OwnerInv
  <2> QED BY <2>2, <2>3
<1>7. CASE P = {}
  <2>1. Cardinality(P) = 0
    BY <1>7, FS_EmptySet
  <2> QED BY <1>2, <1>3, <2>1
<1>8. CASE P # {}
  <2>1. PICK n0 \in P : TRUE
    BY <1>8
  <2> DEFINE a == stats[i].accepted
             f == [n \in P |-> p(n)]
  <2>2. DOMAIN buckets[b(n0)] = 1..a
    <3>1. DOMAIN buckets[b(n0)] = 1..Len(buckets[b(n0)])
      BY <1>1, <1>5, BucketIs
    <3> QED BY <1>5, <3>1 DEF Owns
  <2>3. \A n \in P : p(n) \in 1..a /\ order[n] = <<b(n0), p(n)>>
    BY <1>5, <1>6, <2>2
  <2>4. f \in [P -> 1..a]
    BY <2>3
  <2>5. \A m, n \in P : f[m] = f[n] => m = n
    BY <1>4, <2>3 DEF Draws
  <2>6. a \in Nat
    BY <1>3
  <2> HIDE DEF f, P, p, b, a
  <2>7. IsInjective(f)
    <3>1. DOMAIN f = P
      BY <2>4
    <3> QED BY <2>5, <3>1, Zenon DEF IsInjective
  <2>8. f \in Injection(P, 1..a)
    BY <2>4, <2>7, Zenon DEF Injection
  <2>9. IsFiniteSet(1..a) /\ Cardinality(1..a) = a
    BY <2>6, FS_Interval
  <2>10. Cardinality(P) <= a
    BY <2>8, <2>9, FS_Injection
  <2> QED BY <1>2, <2>10 DEF a
<1> QED BY <1>7, <1>8

(* The places of a source's candidates in a result, the first place first. *)
PlacesOf(s, list) == Ascending({n \in DOMAIN list : list[n].source = s})

(* The numbers Returned counts are the places of the source's candidates, each once. *)
LEMMA PlacesAre ==
  ASSUME NEW s, NEW list \in Seq(Candidates)
  PROVE  /\ \A k \in 1..Returned(s, list) :
               PlacesOf(s, list)[k] \in DOMAIN list /\ list[PlacesOf(s, list)[k]].source = s
         /\ \A n \in DOMAIN list : list[n].source = s =>
               \E k \in 1..Returned(s, list) : PlacesOf(s, list)[k] = n
         /\ \A j, k \in 1..Returned(s, list) : PlacesOf(s, list)[j] = PlacesOf(s, list)[k] => j = k
<1> DEFINE P == {n \in DOMAIN list : list[n].source = s}
           order == Ascending(P)
           m == Cardinality(P)
<1>1. IsFiniteSet(P) /\ P \subseteq Nat
  <2>1. DOMAIN list \subseteq Nat
    OBVIOUS
  <2> QED BY <2>1, ReturnedIs
<1>2. Returned(s, list) = m /\ PlacesOf(s, list) = order
  BY DEF Returned, PlacesOf
<1>3. \A n : n \in P <=> n \in DOMAIN list /\ list[n].source = s
  OBVIOUS
<1> HIDE DEF P
<1>4. /\ m \in Nat /\ order \in [1..m -> P]
      /\ \A n \in P : \E k \in 1..m : order[k] = n
      /\ \A k, j \in 1..m : j < k <=> order[j] < order[k]
  BY <1>1, AscendingLists
<1> HIDE DEF m, order
<1>5. \A k \in 1..m : order[k] \in P /\ order[k] \in Nat
  BY <1>1, <1>4
<1>6. ASSUME NEW j \in 1..m, NEW k \in 1..m, order[j] = order[k] PROVE j = k
  <2>1. ~(order[j] < order[k]) /\ ~(order[k] < order[j])
    BY <1>5, <1>6
  <2>2. ~(j < k) /\ ~(k < j)
    BY <1>4, <2>1
  <2> QED BY <1>4, <2>2
<1> QED BY <1>2, <1>3, <1>4, <1>5, <1>6

(* The counts of the records: a pair for every candidate a record says was returned. *)
Counted == UNION {{i} \X (1..stats[i].returned) : i \in DOMAIN stats}

(* The pairs are those of every record. *)
LEMMA CountedIs ==
  /\ \A t \in Counted : /\ t = <<t[1], t[2]>> /\ t[1] \in DOMAIN stats
                        /\ t[2] \in 1..stats[t[1]].returned
  /\ \A i \in DOMAIN stats : \A k \in 1..stats[i].returned : <<i, k>> \in Counted
<1>1. ASSUME NEW t \in Counted
      PROVE  t = <<t[1], t[2]>> /\ t[1] \in DOMAIN stats /\ t[2] \in 1..stats[t[1]].returned
  <2>1. PICK i \in DOMAIN stats : t \in {i} \X (1..stats[i].returned)
    BY <1>1, Zenon DEF Counted
  <2>2. t = <<t[1], t[2]>> /\ t[1] = i /\ t[2] \in 1..stats[i].returned
    BY <2>1
  <2> QED BY <2>2
<1>2. ASSUME NEW i \in DOMAIN stats, NEW k \in 1..stats[i].returned
      PROVE  <<i, k>> \in Counted
  <2>1. <<i, k>> \in {i} \X (1..stats[i].returned)
    OBVIOUS
  <2> QED BY <2>1, Zenon DEF Counted
<1> QED BY <1>1, <1>2

(* Every candidate of the result is counted, once, by the record of its source. *)
LEMMA CountedOnce ==
  ASSUME SearchInv, place \in {"publish", "done"}, IsInjective(SelectedSources(query))
  PROVE  Cardinality(Counted) = Len(result)
<1> DEFINE L == Len(result)
           f == [t \in Counted |-> PlacesOf(stats[t[1]].source, result)[t[2]]]
<1>1. result \in Seq(Candidates) /\ DOMAIN result = 1..L /\ L \in Nat
  BY WholeIs DEF SearchInv, ClientInv
<1>2. \A i \in DOMAIN stats : stats[i].returned = Returned(stats[i].source, result)
  BY DEF SearchInv, MergeInv
<1>3. ASSUME NEW t \in Counted
      PROVE  /\ t = <<t[1], t[2]>> /\ t[1] \in DOMAIN stats
             /\ t[2] \in 1..Returned(stats[t[1]].source, result)
             /\ f[t] \in 1..L /\ result[f[t]].source = stats[t[1]].source
  <2>1. /\ t = <<t[1], t[2]>> /\ t[1] \in DOMAIN stats
        /\ t[2] \in 1..Returned(stats[t[1]].source, result)
    BY <1>2, CountedIs
  <2>2. f[t] \in DOMAIN result /\ result[f[t]].source = stats[t[1]].source
    BY <1>1, <2>1, PlacesAre
  <2> QED BY <1>1, <2>1, <2>2
<1>4. ASSUME NEW t \in Counted, NEW u \in Counted, f[t] = f[u] PROVE t = u
  <2>1. stats[t[1]].source = stats[u[1]].source
    BY <1>3, <1>4
  <2>2. t[1] = u[1]
    BY <1>3, <2>1, OneRecordEach
  <2>3. PlacesOf(stats[t[1]].source, result)[t[2]] = PlacesOf(stats[t[1]].source, result)[u[2]]
    BY <1>4, <2>2
  <2>4. /\ t[2] \in 1..Returned(stats[t[1]].source, result)
        /\ u[2] \in 1..Returned(stats[t[1]].source, result)
    BY <1>3, <2>2
  <2>5. t[2] = u[2]
    BY <1>1, <2>3, <2>4, PlacesAre
  <2> QED BY <1>3, <2>2, <2>5
<1>5. ASSUME NEW n \in 1..L PROVE \E t \in Counted : f[t] = n
  <2>1. PICK order : Draws(order)
    BY ResultDraws
  <2> DEFINE b == order[n][1]
             p == order[n][2]
  <2>2. order[n] \in Turns(buckets) /\ result[n] = buckets[b][p]
    BY <1>1, <2>1 DEF Draws
  <2>3. b \in DOMAIN buckets /\ p \in DOMAIN buckets[b]
    BY <2>2, TurnsAre
  <2>4. PICK i \in DOMAIN stats : Owns(i, b)
    BY <2>3 DEF SearchInv, OwnerInv
  <2>5. result[n].source = stats[i].source
    BY <2>2, <2>3, <2>4 DEF Owns
  <2>6. PICK k \in 1..Returned(stats[i].source, result) :
           PlacesOf(stats[i].source, result)[k] = n
    BY <1>1, <2>5, PlacesAre
  <2>7. <<i, k>> \in Counted
    BY <1>2, <2>6, CountedIs
  <2>8. f[<<i, k>>] = n
    BY <2>6, <2>7
  <2> QED BY <2>7, <2>8
<1>6. f \in [Counted -> 1..L]
  BY <1>3
<1> HIDE DEF f
<1>7. f \in Injection(Counted, 1..L) /\ f \in Surjection(Counted, 1..L)
  BY <1>4, <1>5, <1>6 DEF Injection, IsInjective, Surjection
<1> HIDE DEF L
<1>8. IsFiniteSet(1..L) /\ Cardinality(1..L) = L
  BY <1>1, FS_Interval
<1>9. Cardinality(Counted) = Cardinality(1..L)
  BY <1>7, <1>8, FS_Injection
<1> QED BY <1>8, <1>9 DEF L

(* The statistics add up: what a source found was accepted or filtered, and what was returned
   was accepted, once for every candidate of the result. *)
THEOREM StatisticsAddUp == SearchSpec => []StatsAddUp
<1>1. ASSUME SearchInv PROVE StatsAddUp
  <2>1. \A i \in DOMAIN stats : stats[i].found = stats[i].accepted + stats[i].filtered
    BY <1>1 DEF SearchInv, StatInv
  <2>2. ASSUME place \in {"publish", "done"}, IsInjective(SelectedSources(query))
        PROVE  /\ \A i \in DOMAIN stats : stats[i].returned <= stats[i].accepted
               /\ Cardinality(Counted) = Len(result)
    <3>1. \A i \in DOMAIN stats : stats[i].returned = Returned(stats[i].source, result)
      BY <1>1, <2>2 DEF SearchInv, MergeInv
    <3>2. \A i \in DOMAIN stats : Returned(stats[i].source, result) <= stats[i].accepted
      BY <1>1, <2>2, ReturnedIsAccepted
    <3>3. \A i \in DOMAIN stats : stats[i].returned <= stats[i].accepted
      BY <3>1, <3>2
    <3> QED BY <1>1, <2>2, <3>3, CountedOnce
  <2> QED BY <2>1, <2>2 DEF StatsAddUp, Counted
<1> QED BY <1>1, SearchInvariant, PTL

-----------------------------------------------------------------------------
(* The page, for any number of requests under way, answered in any order. *)

(* The list of cards is a list of articles, none of them twice. *)
CardsInv == items \in Seq(Articles) /\ IsInjective(items)

-----------------------------------------------------------------------------
(* A response is a list of articles, none of them twice. *)
LEMMA PagesAreCards ==
  ASSUME NEW page \in Pages
  PROVE  page \in Seq(Articles) /\ IsInjective(page)
<1>1. IsInjective(page) /\ page \in SeqOf(Articles, PageSize)
  BY DEF Pages
<1>2. PICK m \in 0..PageSize : page \in [1..m -> Articles]
  BY <1>1 DEF SeqOf
<1>3. m \in Nat
  <2>1. PageSize \in Nat
    BY WebAssumption
  <2> QED BY <1>2, <2>1
<1> QED BY <1>1, <1>2, <1>3, ListOfLength

(* appendUniqueFeedItems appends no card that is there. *)
LEMMA AppendUniqueIsUnique ==
  ASSUME NEW list \in Seq(Articles), IsInjective(list),
         NEW page \in Seq(Articles), IsInjective(page)
  PROVE  /\ AppendUnique(list, page) \in Seq(Articles)
         /\ IsInjective(AppendUnique(list, page))
<1> DEFINE more == Keep(page, Articles \ Range(list))
           both == list \o more
<1>1. more \in Seq(Articles \intersect (Articles \ Range(list)))
  BY KeepFilters
<1>2. IsInjective(more)
  BY KeepInjective
<1> HIDE DEF more
<1>3. more \in Seq(Articles) /\ \A k \in DOMAIN more : more[k] \notin Range(list)
  BY <1>1
<1>4. /\ both \in Seq(Articles)
      /\ DOMAIN list = 1..Len(list) /\ Len(list) \in Nat
      /\ DOMAIN more = 1..Len(more) /\ Len(more) \in Nat
      /\ DOMAIN both = 1..(Len(list) + Len(more))
      /\ \A k \in 1..Len(list) : both[k] = list[k]
      /\ \A k \in (Len(list) + 1)..(Len(list) + Len(more)) :
            k - Len(list) \in DOMAIN more /\ both[k] = more[k - Len(list)]
  BY <1>3
<1>5. \A k \in 1..Len(list) : list[k] \in Range(list)
  BY <1>4 DEF Range
<1> HIDE DEF both
<1>a. \A k \in 1..Len(list) : both[k] \in Range(list)
  BY <1>4, <1>5
<1>b. \A k \in (Len(list) + 1)..(Len(list) + Len(more)) : both[k] \notin Range(list)
  BY <1>3, <1>4
<1>6. ASSUME NEW k \in DOMAIN both, NEW m \in DOMAIN both, both[k] = both[m]
      PROVE  k = m
  <2>1. CASE k <= Len(list) /\ m <= Len(list)
    <3>1. k \in DOMAIN list /\ m \in DOMAIN list
      BY <1>4, <2>1
    <3> QED BY <1>4, <1>6, <3>1 DEF IsInjective
  <2>2. CASE k > Len(list) /\ m > Len(list)
    <3>1. /\ k - Len(list) \in DOMAIN more /\ m - Len(list) \in DOMAIN more
          /\ more[k - Len(list)] = more[m - Len(list)]
      BY <1>4, <1>6, <2>2
    <3>2. k - Len(list) = m - Len(list)
      BY <1>2, <3>1 DEF IsInjective
    <3> QED BY <1>4, <3>2
  <2>3. CASE k <= Len(list) /\ m > Len(list)
    <3>1. both[k] \in Range(list) /\ both[m] \notin Range(list)
      BY <1>4, <1>a, <1>b, <2>3
    <3> QED BY <1>6, <3>1
  <2>4. CASE k > Len(list) /\ m <= Len(list)
    <3>1. both[m] \in Range(list) /\ both[k] \notin Range(list)
      BY <1>4, <1>a, <1>b, <2>4
    <3> QED BY <1>6, <3>1
  <2> QED BY <1>4, <2>1, <2>2, <2>3, <2>4
<1> QED BY <1>4, <1>6 DEF AppendUnique, IsInjective, both, more

(* A step that puts a response, or nothing, on display. *)
LEMMA DisplaysPage ==
  ASSUME items' \in Pages \union {<< >>}
  PROVE  CardsInv'
<1>1. CASE items' \in Pages
  BY <1>1, PagesAreCards DEF CardsInv
<1>2. CASE items' = << >>
  BY <1>2 DEF CardsInv, IsInjective
<1> QED BY <1>1, <1>2

(* Scheduling a poll leaves the cards, or displays the results of a job. *)
LEMMA PollKeepsCards ==
  ASSUME CardsInv, NEW job, NEW cs, ScheduleJobPoll(job, cs)
  PROVE  CardsInv'
<1>1. UNCHANGED items \/ items' \in Pages \union {<< >>}
  BY DEF ScheduleJobPoll, RenderCompletedJobResults, feedState
<1> QED BY <1>1, DisplaysPage DEF CardsInv

(* No article ever has two cards, however many responses of the feed, of searches, of pages and
   of jobs are under way, and in whichever order they extend, filter and overwrite the list. *)
THEOREM NoCardTwice == WebSpec => []NoDuplicateCards
<1>1. WebInit => CardsInv
  <2>1. << >> \in Seq(Articles) /\ IsInjective(<< >>)
    BY DEF IsInjective
  <2> QED BY <2>1 DEF WebInit, CardsInv
<1>2. CardsInv /\ [WebNext]_webVars => CardsInv'
  <2> SUFFICES ASSUME CardsInv, [WebNext]_webVars PROVE CardsInv'
    OBVIOUS
  <2>u. ASSUME UNCHANGED items PROVE CardsInv'
    BY <2>u DEF CardsInv
  <2>1. ASSUME \/ RefreshFeed \/ LoadMore \/ RefreshJobs \/ FireTimer \/ UNCHANGED webVars
               \/ \E q \in BOOLEAN : SearchStored(q) \/ StartSearchJob(q)
               \/ \E j \in Jobs : OpenJob(j) \/ JobProgress(j)
               \/ \E a \in Articles : Skip(a)
               \/ \E c \in BagToSet(calls), j \in Jobs : CreateJob(c, j)
        PROVE  CardsInv'
    BY <2>1, <2>u
       DEF RefreshFeed, LoadMore, RefreshJobs, FireTimer, webVars, feedState, SearchStored,
           StartSearchJob, OpenJob, JobProgress, Skip, CreateJob
  <2>2. ASSUME NEW c, FeedLoaded(c) \/ SearchLoaded(c) PROVE CardsInv'
    BY <2>2, DisplaysPage DEF FeedLoaded, SearchLoaded
  <2>3. ASSUME NEW c, MoreLoaded(c) PROVE CardsInv'
    <3>1. PICK page \in Pages : items' = AppendUnique(items, page)
      BY <2>3 DEF MoreLoaded
    <3>2. page \in Seq(Articles) /\ IsInjective(page)
      BY PagesAreCards
    <3>3. items \in Seq(Articles) /\ IsInjective(items)
      BY DEF CardsInv
    <3>4. AppendUnique(items, page) \in Seq(Articles) /\ IsInjective(AppendUnique(items, page))
      BY <3>2, <3>3, AppendUniqueIsUnique
    <3> QED BY <3>1, <3>4 DEF CardsInv
  <2>4. ASSUME NEW c, JobStarted(c) \/ PollAnswered(c) PROVE CardsInv'
    BY <2>4, PollKeepsCards DEF JobStarted, PollAnswered
  <2>5. ASSUME NEW c, JobOpened(c) PROVE CardsInv'
    <3>1. PICK job \in Shown(c) :
             IF shouldPollJob(job)
             THEN ScheduleJobPoll(job, Answered(c))
             ELSE /\ RenderCompletedJobResults(job)
                  /\ calls' = Answered(c)
                  /\ UNCHANGED <<pollTimer, timers>>
      BY <2>5 DEF JobOpened
    <3>2. CASE ScheduleJobPoll(job, Answered(c))
      BY <3>2, PollKeepsCards
    <3>3. CASE RenderCompletedJobResults(job)
      BY <3>3, DisplaysPage DEF RenderCompletedJobResults
    <3> QED BY <3>1, <3>2, <3>3
  <2>6. ASSUME NEW c, Skipped(c) PROVE CardsInv'
    <3>1. items' = Keep(items, Articles \ {c.article})
      BY <2>6 DEF Skipped
    <3>2. items \in Seq(Articles) /\ IsInjective(items)
      BY DEF CardsInv
    <3>3. /\ Keep(items, Articles \ {c.article}) \in Seq(Articles \intersect (Articles \ {c.article}))
          /\ IsInjective(Keep(items, Articles \ {c.article}))
      BY <3>2, KeepFilters, KeepInjective
    <3> QED BY <3>1, <3>3 DEF CardsInv
  <2>7. ASSUME NEW c, HistoryLoaded(c) \/ Failed(c) PROVE CardsInv'
    BY <2>7, <2>u DEF HistoryLoaded, Failed, feedState
  <2> QED BY <2>1, <2>2, <2>3, <2>4, <2>5, <2>6, <2>7 DEF WebNext, Respond
<1>3. CardsInv => NoDuplicateCards
  BY DEF CardsInv, NoDuplicateCards
<1>4. WebSpec => WebInit /\ [][WebNext]_webVars
  BY PTL DEF WebSpec
<1> QED BY <1>1, <1>2, <1>3, <1>4, PTL

-----------------------------------------------------------------------------
(* scheduleJobPoll leaves at most the timer it knows. *)
LEMMA PollKeepsOneTimer ==
  ASSUME OnePollTimer, NEW job, NEW cs, ScheduleJobPoll(job, cs)
  PROVE  OnePollTimer'
BY DEF OnePollTimer, ScheduleJobPoll, ClearTimer

(* There is never a poll timer besides the one state.pollTimer knows, however many chains of
   polls are started by new jobs, by opened jobs and by late responses. *)
THEOREM OneTimer == WebSpec => []OnePollTimer
<1>1. WebInit => OnePollTimer
  BY DEF WebInit, OnePollTimer
<1>2. OnePollTimer /\ [WebNext]_webVars => OnePollTimer'
  <2> SUFFICES ASSUME OnePollTimer, [WebNext]_webVars PROVE OnePollTimer'
    OBVIOUS
  <2>u. ASSUME UNCHANGED pollTimer, timers' \subseteq timers PROVE OnePollTimer'
    BY <2>u DEF OnePollTimer
  <2>1. ASSUME \/ RefreshFeed \/ LoadMore \/ RefreshJobs \/ FireTimer \/ UNCHANGED webVars
               \/ \E q \in BOOLEAN : SearchStored(q) \/ StartSearchJob(q)
               \/ \E j \in Jobs : OpenJob(j) \/ JobProgress(j)
               \/ \E a \in Articles : Skip(a)
               \/ \E c \in BagToSet(calls), j \in Jobs : CreateJob(c, j)
        PROVE  OnePollTimer'
    BY <2>1, <2>u
       DEF RefreshFeed, LoadMore, RefreshJobs, FireTimer, webVars, jobState, SearchStored,
           StartSearchJob, OpenJob, JobProgress, Skip, CreateJob, ClearTimer
  <2>2. ASSUME NEW c, \/ FeedLoaded(c) \/ SearchLoaded(c) \/ MoreLoaded(c) \/ HistoryLoaded(c)
                      \/ Skipped(c) \/ Failed(c)
        PROVE  OnePollTimer'
    BY <2>2, <2>u DEF FeedLoaded, SearchLoaded, MoreLoaded, HistoryLoaded, Skipped, Failed, jobState
  <2>3. ASSUME NEW c, JobStarted(c) \/ PollAnswered(c) PROVE OnePollTimer'
    BY <2>3, PollKeepsOneTimer DEF JobStarted, PollAnswered
  <2>4. ASSUME NEW c, JobOpened(c) PROVE OnePollTimer'
    BY <2>4, <2>u, PollKeepsOneTimer DEF JobOpened
  <2> QED BY <2>1, <2>2, <2>3, <2>4 DEF WebNext, Respond
<1>3. WebSpec => WebInit /\ [][WebNext]_webVars
  BY PTL DEF WebSpec
<1> QED BY <1>1, <1>2, <1>3, PTL

=============================================================================
