----------------------------- MODULE GatewayFeed -----------------------------
(***************************************************************************)
(* gateway-api: the query feed.  A request may be answered from the        *)
(* response cache, and is otherwise answered from what article-service     *)
(* finds, without what user-service says the user has hidden; a thin page  *)
(* may start a parser job, and a response that did not is kept in the      *)
(* cache.  Requests of several users run side by side, and articles and    *)
(* reactions arrive between any two of their calls.                        *)
(*                                                                         *)
(* The model is about one query text.  The raw query string, which is the  *)
(* key of the cache, then differs in the cursor and in the refill flag: it *)
(* does not name the user, who is known from a cookie.  Cursor "offset:n"  *)
(* is n, and 0 is no cursor.  The feed without a query, the home feed, is  *)
(* made of what feed-service lists, and is not cached.                     *)
(*                                                                         *)
(* The tables are Postgres'.  An event about an article that is there      *)
(* already overwrites its row: the article may then be found with another  *)
(* rank or date, or no longer, and it is the last one that was parsed, by  *)
(* which the search orders articles of one rank and date.                  *)
(***************************************************************************)
EXTENDS Integers, Sequences, SequencesExt, RoundRobin

CONSTANTS
    Users,
    Articles,
    StoredFirst,   \* those stored at the beginning, in the order of their parsing
    SourceOf,      \* SourceOf[a]: the source of an article
    FirstVersion,  \* FirstVersion[a]: what the row of a says at the beginning: its search rank, 0
                   \* if it does not match the query, and its date
    Versions,      \* Versions[a]: what events say of a
    Scored,        \* the articles that are scored: the rows of feed_items
    ScoreOf,       \* ScoreOf[a]: the score of an article
    DateOf,        \* DateOf[a]: the date its row of feed_items has
    Types,         \* reaction types users send
    Limit,         \* the page size the clients ask for
    TTL,           \* how long a response is kept; 0 for no cache
    MaxTime,       \* bound: the clock
    MaxRequests,   \* bound: feed requests
    MaxStores,     \* bound: articles stored, again or for the first time
    MaxReacted,    \* bound: articles users have reacted to
    MaxFailures    \* bound: failing calls of other services

(* A page has room for an article, tables are finite, and no two rows of feed_items have one
   date. *)
ASSUME GatewayAssumption ==
    /\ Limit \in Nat \ {0}
    /\ IsFiniteSet(Articles)
    /\ StoredFirst \in Seq(Articles) /\ IsInjective(StoredFirst)
    /\ Scored \subseteq Articles
    /\ FirstVersion \in [Articles -> [rank : Nat, date : Nat]]
    /\ Versions \in [Articles -> SUBSET [rank : Nat, date : Nat]]
    /\ {ScoreOf, DateOf} \subseteq [Articles -> Nat]
    /\ IsInjective(DateOf)
    /\ TTL \in Nat /\ MaxTime \in Nat /\ MaxRequests \in Nat /\ MaxStores \in Nat
    /\ MaxReacted * Cardinality(Types) \in 0..500 /\ MaxFailures \in Nat

VARIABLES
    now,        \* the clock
    parsed,     \* the rows of articles, in the order of their parsing
    version,    \* version[a]: what the row of a says
    pool,       \* the rows that match in the order of the search, renewed with every change
    reactions,  \* reactions[u]: the set of <<article, type>> user-service has of u
    cache,      \* feedResponseCache.entries, a set of [key, payload, expiresAt]
    req,        \* req[u]: the feed request of u, or the last one
    scroll,     \* history: what u has been shown since its last first page
    asked,      \* bound: feed requests so far
    stores,     \* bound: articles stored so far
    failures    \* bound: failing calls so far

feedVars == <<now, parsed, version, pool, reactions, cache, req, scroll, asked, stores, failures>>

(* What distinguishes the requests: the cursor, the refill flag, and whether there is a query. *)
FirstPage == [home |-> FALSE, cursor |-> 0, refill |-> FALSE]
Home == [FirstPage EXCEPT !.home = TRUE]

-----------------------------------------------------------------------------
(* v is a better match than w: by search rank, and then by date. *)
Higher(v, w) == v.rank > w.rank \/ (v.rank = w.rank /\ v.date > w.date)

Later(list, a, b) == \E i, j \in DOMAIN list : list[i] = a /\ list[j] = b /\ i > j

(* The better match, and of two that are as good the one that was parsed last. *)
Better(ver, rows) ==
    [b \in Articles |-> {a \in Articles :
        \/ Higher(ver[a], ver[b])
        \/ ver[a] = ver[b] /\ Later(rows, a, b)}]

Matching(ver, rows) == {a \in Range(rows) : ver[a].rank > 0}

(* Mutant: the best first, whatever their sources. *)
BestFirst(ver, rows) == InOrder(Better(ver, rows), Matching(ver, rows))

(* BuildSearchArticlesQuery: the best of every source, then the second of every source. *)
SearchOrder(ver, rows) == NumberedByKey(SourceOf, Better(ver, rows), Matching(ver, rows))

(* Articles of one date come as they are listed. *)
Newer(ver, listed) ==
    [b \in Articles |-> {a \in Articles :
        \/ ver[a].date > ver[b].date
        \/ ver[a].date = ver[b].date /\ Later(listed, b, a)}]

(* MemoryArticleStore.Search, of rows a map lists in any order: by turns as well, first the
   sources that were asked for, in that order, each with its newest first. *)
SearchInMemory(sources, ver, listed) ==
    LET among == {a \in Matching(ver, listed) : sources = << >> \/ SourceOf[a] \in Range(sources)}
    IN  InterleaveBy(SourceOf, sources, InOrder(Newer(ver, listed), among))

(* By score, then the newest first. *)
HigherScore ==
    [b \in Articles |-> {a \in Articles :
        \/ ScoreOf[a] > ScoreOf[b]
        \/ ScoreOf[a] = ScoreOf[b] /\ DateOf[a] > DateOf[b]}]

(* BuildListFeedItemsQuery, and MemoryFeed.List, which orders every round by the source's best
   article. *)
ListFeedItems(rows) == NumberedByKey(SourceOf, HigherScore, rows)
ListInMemory(rows) == InterleaveBy(SourceOf, << >>, InOrder(HigherScore, rows))

(* origin: the response was "made" for this request, "cached", or "open" when not all of the
   user's reactions were read; "" for an error response. *)
NewRequest(key) ==
    [pc |-> "idle", key |-> key, found |-> << >>, more |-> FALSE,
     payload |-> [items |-> << >>, next |-> 0],
     origin |-> "", hidden |-> {}]

(* fresh: there is a next page, and every page so far was made of all that was found and of all
   of the user's reactions.  initial: for such a scroll, what was found at the start, without
   what may have moved ahead since. *)
NewScroll == [shown |-> {}, initial |-> {}, next |-> 0, fresh |-> FALSE]

GatewayInit ==
    /\ now = 0
    /\ parsed = StoredFirst
    /\ version = FirstVersion
    /\ pool = SearchOrder(FirstVersion, StoredFirst)
    /\ reactions = [u \in Users |-> {}]
    /\ cache = {}
    /\ req = [u \in Users |-> NewRequest(FirstPage)]
    /\ scroll = [u \in Users |-> NewScroll]
    /\ asked = 0
    /\ stores = 0
    /\ failures = 0

Fault == failures < MaxFailures /\ failures' = failures + 1

Served(u) == {req[u].payload.items[i].article : i \in DOMAIN req[u].payload.items}

-----------------------------------------------------------------------------
(* External: time passes. *)
Tick ==
    /\ now < MaxTime
    /\ now' = now + 1
    /\ UNCHANGED <<parsed, version, pool, reactions, cache, req, scroll, asked, stores, failures>>

(* What may be listed further ahead once the row of a says v: a itself, and what was listed
   behind a, if a is no longer as good a match. *)
MayMoveAhead(a, v) ==
    {b \in Articles : b = a \/ (Higher(version[a], v) /\ Later(pool, b, a))}

(* article-service stores an article, or stores it again, as an event says it is. *)
StoreArticle(a, v) ==
    /\ stores < MaxStores
    /\ stores' = stores + 1
    /\ parsed' = Append(Keep(parsed, Articles \ {a}), a)
    /\ version' = [version EXCEPT ![a] = v]
    /\ pool' = SearchOrder(version', parsed')
    /\ scroll' = [u \in Users |-> [scroll[u] EXCEPT !.initial = @ \ MayMoveAhead(a, v)]]
    /\ UNCHANGED <<now, reactions, cache, req, asked, failures>>

(* user-service records a reaction of u to an article u was shown.  It lists the last 500 of a
   user, and there are no more. *)
RecordReaction(u, a, type) ==
    /\ a \in scroll[u].shown
    /\ <<a, type>> \notin reactions[u]
    /\ reactions' = [reactions EXCEPT ![u] = @ \union {<<a, type>>}]
    /\ Cardinality({r \in Users \X Articles : \E t \in Types : <<r[2], t>> \in reactions'[r[1]]})
          <= MaxReacted
    /\ UNCHANGED <<now, parsed, version, pool, cache, req, scroll, asked, stores, failures>>

-----------------------------------------------------------------------------
(* reactionPriority: the strongest reaction of a user to an article decides, whenever it was
   given; types of one priority are told apart by their times. *)
Priority(type) ==
    CASE type \in {"skip", "dislike"} -> 3
      [] type = "save" -> 2
      [] type = "like" -> 1
      [] OTHER -> 0

(* Mutant: a like takes back an earlier dislike. *)
LikeWins(known, a) ==
    LET types == {type \in Types : <<a, type>> \in known}
    IN  IF types = {} THEN {""}
        ELSE IF "like" \in types THEN {"like"}
        ELSE {type \in types : \A other \in types : Priority(type) >= Priority(other)}

(* latestReactionsByArticle, for one article: the reaction shown with it. *)
Latest(known, a) ==
    LET types == {type \in Types : <<a, type>> \in known}
    IN  IF types = {} THEN {""}
        ELSE {type \in types : \A other \in types : Priority(type) >= Priority(other)}

Hides(type) == type \in {"skip", "dislike"}

(* applyUserReactions. *)
ApplyUserReactions(found, known) ==
    LET Label(a) == CHOOSE type \in Latest(known, a) : TRUE
        visible  == Keep(found, {a \in Articles : ~Hides(Label(a))})
    IN  [i \in DOMAIN visible |-> [article |-> visible[i], reaction |-> Label(visible[i])]]

(* Mutant: a full page is taken for the last one. *)
NoNextCursor(offset, returned) == IF returned <= Limit THEN 0 ELSE offset + returned

(* Mutant: the next page starts one behind. *)
NextCursorOneOff(offset, returned) == IF returned < Limit THEN 0 ELSE offset + returned + 1

(* nextFeedCursor. *)
NextFeedCursor(offset, returned) == IF returned < Limit THEN 0 ELSE offset + returned

(* shouldStartRefill: fewer than half a page, or than 10 if half a page is nothing. *)
MinItems == IF Limit \div 2 > 0 THEN Limit \div 2 ELSE 10

Go(u, place) == req' = [req EXCEPT ![u].pc = place]

HiddenFrom(u) == {a \in Articles : \E type \in Types : <<a, type>> \in reactions[u] /\ Hides(type)}

-----------------------------------------------------------------------------
(* GET /api/v1/feed: only queries without refill look into the cache. *)
Ask(u, key) ==
    /\ req[u].pc \in {"idle", "done"}
    /\ asked < MaxRequests
    /\ asked' = asked + 1
    /\ req' = [req EXCEPT ![u] =
          [NewRequest(key) EXCEPT !.pc = IF key.home THEN "list"
                                         ELSE IF TTL > 0 /\ ~key.refill THEN "lookup"
                                         ELSE "search",
                                  !.hidden = HiddenFrom(u)]]
    /\ UNCHANGED <<now, parsed, version, pool, reactions, cache, scroll, stores, failures>>

Entries(key) == {e \in cache : e.key = key}

(* What u has been shown before the page that is asked for. *)
Seen(u) == IF req[u].key.cursor = 0 THEN {} ELSE scroll[u].shown

(* u is shown a page: the first of a new scroll, or one more. *)
Shown(u, payload, made) ==
    LET fresh == made /\ payload.next > 0 /\ (req[u].key.cursor = 0 \/ scroll[u].fresh)
    IN  scroll' = [scroll EXCEPT ![u] =
            [shown |-> Seen(u) \union {payload.items[i].article : i \in DOMAIN payload.items},
             initial |-> IF fresh THEN scroll[u].initial ELSE {},
             next |-> payload.next,
             fresh |-> fresh]]

(* feedResponseCache.get, the read under RLock: the request is answered, or goes on. *)
CacheGet(u) ==
    /\ req[u].pc = "lookup"
    /\ \/ \E e \in Entries(req[u].key) :
             /\ now <= e.expiresAt
             /\ req' = [req EXCEPT ![u].pc = "done", ![u].key = FirstPage,
                                   ![u].payload = e.payload, ![u].origin = "cached"]
             /\ Shown(u, e.payload, FALSE)
       \/ /\ \E e \in Entries(req[u].key) : now > e.expiresAt
          /\ Go(u, "evict")
          /\ UNCHANGED scroll
       \/ /\ Entries(req[u].key) = {}
          /\ Go(u, "search")
          /\ UNCHANGED scroll
    /\ UNCHANGED <<now, parsed, version, pool, reactions, cache, asked, stores, failures>>

(* The entry was expired when it was read, and whatever is there now is deleted. *)
CacheEvict(u) ==
    /\ req[u].pc = "evict"
    /\ cache' = cache \ Entries(req[u].key)
    /\ Go(u, "search")
    /\ UNCHANGED <<now, parsed, version, pool, reactions, scroll, asked, stores, failures>>

(* article-service answers with the page at the cursor. *)
Search(u) ==
    LET offset == req[u].key.cursor
    IN  /\ req[u].pc = "search"
        /\ req' = [req EXCEPT ![u].pc = "personalize",
              ![u].found = SubSeq(pool, offset + 1, Min({offset + Limit, Len(pool)})),
              ![u].more = offset + Limit < Len(pool)]
        /\ scroll' = IF offset # 0 THEN scroll
                     ELSE [scroll EXCEPT ![u] = [NewScroll EXCEPT !.initial = Range(pool)]]
        /\ UNCHANGED <<now, parsed, version, pool, reactions, cache, asked, stores, failures>>

(* article-service fails: 502. *)
SearchFails(u) ==
    /\ req[u].pc = "search"
    /\ Fault
    /\ req' = [req EXCEPT ![u] = [NewRequest(FirstPage) EXCEPT !.pc = "done"]]
    /\ UNCHANGED <<now, parsed, version, pool, reactions, cache, scroll, asked, stores>>

(* feed-service lists the best of its rows, from either store.  An error is taken for an empty
   feed. *)
ListHome(u) ==
    /\ req[u].pc = "list"
    /\ \E all \in {ListFeedItems(Scored), ListInMemory(Scored), << >>} :
          req' = [req EXCEPT ![u].pc = "personalize",
                             ![u].found = SubSeq(all, 1, Min({Limit, Len(all)}))]
    /\ UNCHANGED <<now, parsed, version, pool, reactions, cache, scroll, asked, stores, failures>>

(* The response with the given items; a thin one may start a refill.  The home feed has no next
   page and starts none. *)
Respond(u, items, origin) ==
    req' = [req EXCEPT
        ![u].payload = [items |-> items,
                        next |-> IF req[u].key.home THEN 0
                                 ELSE NextFeedCursor(req[u].key.cursor, Len(items))],
        ![u].origin = origin,
        ![u].found = << >>,
        ![u].pc = IF req[u].key.home THEN "store"
                  ELSE IF req[u].key.refill /\ Len(items) < MinItems THEN "refill" ELSE "store"]

Personalize(u) ==
    /\ req[u].pc = "personalize"
    /\ Respond(u, ApplyUserReactions(req[u].found, reactions[u]), "made")
    /\ UNCHANGED <<now, parsed, version, pool, reactions, cache, scroll, asked, stores, failures>>

(* user-service fails: the page is shown as it was found. *)
PersonalizeFails(u) ==
    /\ req[u].pc = "personalize"
    /\ req[u].found # << >>
    /\ Fault
    /\ Respond(u, ApplyUserReactions(req[u].found, {}), "open")
    /\ UNCHANGED <<now, parsed, version, pool, reactions, cache, scroll, asked, stores>>

(* Its query of the reactions fails, or fails on the way: user-service answers with those it has
   read, none or some, as if they were all. *)
PersonalizePartly(u) ==
    /\ req[u].pc = "personalize"
    /\ req[u].found # << >>
    /\ Fault
    /\ \E read \in SUBSET reactions[u] :
          read # reactions[u] /\ Respond(u, ApplyUserReactions(req[u].found, read), "open")
    /\ UNCHANGED <<now, parsed, version, pool, reactions, cache, scroll, asked, stores>>

(* The response is written. *)
Finish(u) ==
    /\ req' = [req EXCEPT ![u].pc = "done", ![u].key = FirstPage]
    /\ Shown(u, req[u].payload, req[u].origin = "made" /\ ~req[u].key.home)

(* A refill job is started; its response is not cached. *)
StartRefill(u) ==
    /\ req[u].pc = "refill"
    /\ Finish(u)
    /\ UNCHANGED <<now, parsed, version, pool, reactions, cache, asked, stores, failures>>

StartRefillFails(u) ==
    /\ req[u].pc = "refill"
    /\ Fault
    /\ Go(u, "store")
    /\ UNCHANGED <<now, parsed, version, pool, reactions, cache, scroll, asked, stores>>

(* feedResponseCache.set, for a query, and the response is written. *)
StoreResponse(u) ==
    LET entry == [key |-> req[u].key, payload |-> req[u].payload, expiresAt |-> now + TTL]
    IN  /\ req[u].pc = "store"
        /\ cache' = IF TTL = 0 \/ req[u].key.home THEN cache
                    ELSE (cache \ Entries(req[u].key)) \union {entry}
        /\ Finish(u)
        /\ UNCHANGED <<now, parsed, version, pool, reactions, asked, stores, failures>>

Serve(u) ==
    \/ CacheGet(u) \/ CacheEvict(u) \/ Search(u) \/ SearchFails(u) \/ ListHome(u)
    \/ Personalize(u) \/ PersonalizeFails(u) \/ PersonalizePartly(u)
    \/ StartRefill(u) \/ StartRefillFails(u) \/ StoreResponse(u)

GatewayNext ==
    \/ Tick
    \/ \E a \in Articles : \E v \in Versions[a] : StoreArticle(a, v)
    \/ \E u \in Users, a \in Articles, type \in Types : RecordReaction(u, a, type)
    \/ \E u \in Users, refill \in BOOLEAN :
          \E cursor \in {0, scroll[u].next} :
             Ask(u, [FirstPage EXCEPT !.cursor = cursor, !.refill = refill])
    \/ \E u \in Users : Ask(u, Home)
    \/ \E u \in Users : Serve(u)

GatewaySpec == GatewayInit /\ [][GatewayNext]_feedVars

-----------------------------------------------------------------------------
(* A response made of the page and all of its user's reactions never shows what the user had
   hidden when asking, also if a like of the article came later and while other requests and
   reactions go on. *)
FreshIsPersonal ==
    \A u \in Users :
        req[u].pc = "done" /\ req[u].origin = "made" => Served(u) \intersect req[u].hidden = {}

(* Articles that are stored while a user scrolls push others to later pages: those may be shown
   twice, but none that was found at the start is left out, unless it was stored again itself, or
   was listed behind one that was stored again as a worse match or none: these may move to an
   earlier page.  Every other one is shown, hidden by the user or still ahead, as long as no page
   came from the cache and all of the user's reactions were read. *)
ScrollSkipsNothing ==
    \A u \in Users :
        scroll[u].fresh =>
            \A a \in scroll[u].initial :
                \/ a \in scroll[u].shown \union HiddenFrom(u)
                \/ \E i \in DOMAIN pool : pool[i] = a /\ i > scroll[u].next

(* The table is listed by turns: wherever a page is cut, no source has taken the places of
   another, and each shows its best. *)
TableTakesTurns ==
    LET rows    == Range(pool)
        sources == {SourceOf[a] : a \in rows}
        Best(better) == [s \in sources |-> InOrder(better, {a \in rows : SourceOf[a] = s})]
        ByTurns(list, buckets) ==
            \A limit \in DOMAIN list :
                TakesTurns(SubSeq(list, 1, limit), buckets, limit)
    IN  /\ ByTurns(pool, Best(Better(version, parsed)))
        /\ \A order \in SetToAllKPermutations(sources), listed \in SetToSeqs(Range(parsed)) :
              order = << >> \/ Range(order) = sources
                  => ByTurns(SearchInMemory(order, version, listed), Best(Newer(version, listed)))
        /\ ByTurns(ListFeedItems(rows), Best(HigherScore))
        /\ ByTurns(ListInMemory(rows), Best(HigherScore))

(* article-service and feed-service list by turns, with either store.  It depends on the table
   alone, and every table there can be is there before the first request, where it is looked at. *)
ListingsTakeTurns == asked = 0 => TableTakesTurns

(* Scrolling stops before the end only for a user who has hidden articles: then the page is
   shorter than asked for, and no cursor is given. *)
EndsEarlyOnlyIfHidden ==
    \A u \in Users :
        req[u].pc = "done" /\ req[u].origin \in {"made", "open"} /\ req[u].more
            => req[u].payload.next > 0 \/ HiddenFrom(u) # {}

(* What the README says of sessions, that gateway-api "uses that session user for feed
   personalization": no response, cached or made, shows what its user has hidden. *)
SessionUserDecides ==
    \A u \in Users :
        req[u].pc = "done" /\ req[u].origin # "open" => Served(u) \intersect req[u].hidden = {}

=============================================================================
