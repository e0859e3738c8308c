# Articleflow: a TLA+ verification project

Articleflow collects articles from public sources, scores them, shows them in a feed and
learns from reactions. It is a set of small Go services around Kafka and Postgres, with a
static web application in front. This directory holds TLA+ models of the parts in which
state, order and failure matter, TLC configurations that check them on small instances, and
proofs, checked by TLAPS, of what matters most for every instance. `PROJECT.json` maps every
definition to the source lines it models; paths below are relative to the repository.

## 1. The system

    sources --> parser-service --> article.discovered.v1 --+--> article-service --> articles
                 (jobs, scheduler)                         |
                                                           +--> ranking-service (loop 1)
    web --> gateway-api --> user.reaction.created.v1 --+--> ranking-service (loop 2)
                                                       |          | shared memory: signals
                                                       |          v
                                                       |   feed.item.scored.v1 --> feed-service
                                                       +--> user-service --> users, user_reactions

| Component | State | Operations | Interacts with |
|---|---|---|---|
| Kafka client package (`packages/kafka`) | the reader's position | Fetch, Commit, Publish | broker, all services |
| Consumer loops (`consumer_loop.go`, `consume*` in the `app.go` files) | place in the loop | fetch, handle, commit; end at the first error | kafka package, handlers |
| ranking-service | SignalStore in memory: tags and source of known articles, weights of tags and sources | RankDiscovered, RecordReaction | two loops in one process, publishes scores |
| feed-service | `feed_items`, or a map | upsert of scored items, reading of the feed | loop, gateway-api |
| article-service | `articles`, or two maps | IngestDiscovered, Search, GetByID | loop, gateway-api |
| user-service | `users`, `user_reactions`, or two maps | Record, EnsureProfile, List | loop, gateway-api |
| parser-service jobs and scheduler | `parser_jobs`, or a map; goroutines; enabled sources | StartAsync, Run, Get, List, RunOnce, SetEnabled | search, HTTP clients |
| parser-service search | local to one job | selection, search per source, deduplication, scores, interleaving, publication | source clients, Kafka |
| source clients | none between searches | Search of one site | external sites |
| gateway-api | response cache, rate-limit windows, sessions | feed, search, jobs, reactions | all services |
| web | one page's view state | feed loading, paging, polling, reactions | gateway-api |
| contracts, config, observability | metric counters | validation, reading of the environment, counting | all services |

### What is hard here, and what makes each part correct

* **Consumer loops.** The process may end between any two calls, an answer may be lost after the
  broker acted, a rejected message comes back after every restart. A reader that rejoins its group
  goes back to the committed offset while the process, and its memory, live on. Correct: at least
  once (no committed offset covers an unhandled message), in order and without gaps, and in the end
  everything, unless a message is rejected for good.
* **ranking-service.** Two loops write one memory in separate critical sections; the memory
  dies with the process, and both loops are then redelivered. Redelivery to a reader that rejoined
  meets the memory as it was. Correct: no accepted article without a score, no reaction counted
  twice in one pass of the reader, a reaction to something the user saw in the feed is counted.
* **feed-service, article-service, user-service.** Redelivery writes old data over new.
  Correct: a loop that has caught up leaves the last word of every key; nothing accepted is
  lost; a reaction never lacks its profile; one article per URL.
* **Jobs.** A job exists as a row and as a goroutine, and the two can part company: store
  errors with or without effect, the end of the process, publication that fails half way.
  Correct: a job begins once and ends once, a completed one shows exactly what it has
  published, a source that is down spoils only itself, a query of the scheduler is searched in
  the end.
* **Search and source clients.** Every request may fail, each client goes on in its own way
  (retries, the next page, another address, another feed), addresses and titles come in several
  spellings, and dzen's pages are fetched by workers that end in any order. Correct: a bounded
  number of requests, the result a single worker would give, no article twice, no source
  crowding out another, statistics that account for every candidate, and an end.
* **gateway-api, web.** Cached responses and in-flight requests that come back after the state they
  were made for has changed, over tables whose rows are overwritten between two pages. Correct: a
  reader does not see what the reader has hidden, scrolling leaves out nothing that stayed where it
  was or moved back; in the page no card twice, one poll timer, and no job that is polled for no
  longer without an error.

The full list, line by line and with the properties that cover it, is `hazards` in
`PROJECT.json`.

## 2. Modules

| Module | What it is |
|---|---|
| `DeliveryContract` | abstract: a group accepts the messages of a partition one after the other, leaving none out |
| `ConsumerLoop` | broker state and the fetch, handle, commit loops of all services, with stops, restarts and readers that rejoin their group; implements `DeliveryContract` |
| `ConsumerLoopProofs` | theorems about the loops, and the theory of a table that follows a log |
| `RankingFeed` | extends `ConsumerLoop` by both handlers of ranking-service and the one of feed-service; implements `ConsumerLoop` |
| `RankingFeedProofs` | theorems about them |
| `ArticleIngest` | extends `ConsumerLoop` by article-service and its two stores |
| `ArticleIngestProofs` | theorems about it |
| `UserReactions` | extends `ConsumerLoop` by user-service, its two stores and its HTTP handler; implements `ConsumerLoop` |
| `UserReactionsProofs` | theorems about it |
| `JobContract` | abstract: a job is accepted, begins, announces candidates and ends once, with what it has announced or failed |
| `ParserJobs` | jobs, goroutines, scheduler and publication of parser-service; implements `JobContract` |
| `ParserJobsProofs` | theorems about them |
| `SourceSearch` | one search of parser-service: the clients of habr, vc, dzen and feeds, and what `search.go` makes of their candidates |
| `RoundRobin` | merging by turns, as loops over buckets and as an SQL window, and the reference definition both are checked against |
| `RoundRobinProofs` | theorems about orders, filters and merges of any size |
| `GatewayFeed` | home and query feeds of gateway-api: cache, personalisation, refill and cursors, over the listings of article-service and feed-service |
| `GatewayFeedProofs` | theorems about them |
| `WebClient` | the page's asynchronous handlers: feed, search, paging, job polling, skipping |
| `SearchProofs` | theorems about the two ends of a search: `SourceSearch`, and the page of `WebClient` |
| `MC...` | constants of the instances TLC checks |

A definition marked "Mutant" is a plausible bug, used in place of the definition after it to
see that a property notices; no specification uses one.

### ConsumerLoop

`committed` is the broker's offset of a group, `position` and `cur` are the kafka-go reader,
`pc` is the place in the loop. `done` is a history variable: the offsets a handler has
accepted. `Fetch`, `HandleOk` / `HandlePoison` and `CommitOk` are the three calls of
`ConsumerLoop.Run`, which the `consume*` functions repeat. `Stop` stands for every error of
the moment and for a kill, `CommitUnanswered` for a commit the broker has stored before the
client saw an error. `StopProcess` stops all loops of a process, because `App.Run` returns the
first error of any loop; `Restart` is the container runtime (`restart: unless-stopped` in
`deployments/docker-compose.app.yml`).

A process need not end for messages to come again. After a session timeout, a rebalance or the
loss of its coordinator, the group reader of kafka-go joins its group again within the process and
resumes at the committed offset: `Rejoin` (external) moves `position` back and leaves everything
else, memory included. A message already in the loop's hand is still handled and committed.
`MaxFailures` bounds stops, unanswered commits and rejoins together.

What a commit stores is translated literally. `FromKafkaGoMessage` copies topic, key and value,
so the message `Commit` rebuilds has partition 0 and offset 0 (`RebuiltMessage`), and kafka-go
commits the offset behind it (`OffsetAfter`, external): always offset 1 of partition 0.

### RankingFeed

One action per critical section of `DiscoveredHandler.Handle`: `Score` (reads the weights
under the lock), `Remember` (writes tags and source under it), `PublishScored`, `Return`. The
reaction loop's `HandleReaction` may come between any two. Weights and scores are counted in
half points, because a reaction gives half its weight to the source. The age bonus of an
article is a number from `Freshness`; it depends on the clock. `feed_items` is a set of rows
keyed by article. `ForgetSignals` is part of every stop of ranking-service, and not of
`RejoinGroup`. `rejoins` is a history variable: how often the reader of the reactions has rejoined
since the process began. Passes of the reader are numbered by it, and `CountsOncePerPass` says that
a source weighs what a set of pairs of pass and offset is worth, so that a reaction counts at most
once in each pass.

### ArticleIngest, UserReactions

Both stores of each service are modelled; `driver` is chosen in `Init` and never changes.
`ArticleIngest!UrlTaken` is the `UNIQUE` constraint on the URL, which the upsert does not
name; `RefuseRow` is the error it leads to, and it ends the loop. In `UserReactions` recording
a reaction is the two transactions the code makes, `RecordProfile` and `RecordReaction`, and
`EnsureUserProfile` is the HTTP handler, which may come between them. `Merge` is the
`ON CONFLICT` clause, with the JSON text `null` for a nil slice. `RejoinIngest` and `RejoinUser` are
the readers that rejoin: the memory stores survive them.

### ParserJobs

`runner[j]` is the goroutine of `Manager.Run` with the local variables of
`SearchAndPublish`. A search of a source returns a sequence of pages or fails (how it comes to
that is `SourceSearch`); duplicates by URL are dropped, the rest is ranked, the buckets are
interleaved up to the limit and published one at a time. `SaveFails` is an error of the store,
whether or not the row was written. A goroutine that has returned or died is `"gone"`, and
nothing takes up its job, as in the code.

`Contract` instantiates `JobContract` with the rows of the store and the published events.
A store error after the row was written, a job left `running` by the end of the process and a
publication that fails half way are all steps or stuttering steps of the contract; a job that
completes without having published what it shows is not.

### SourceSearch

One search of `SearchAndPublish`. `todo` holds the selected sources, `place` is where the search
is, `work` what the client at work keeps, and each HTTP request is an action that is answered
or fails.

* *habr*: the RSS search, then every article page; `HabrRequestFails` counts the attempts of
  `fetch` and fails the source with the last of them, also for one page of many.
* *vc*: `DiscoveryPage` follows the pages of the site's search, `WebSearch` is Google or Bing,
  and a searcher may be missing. `VcPage` passes over what cannot be had; with nothing to show,
  `VcFeed` and `VcEnrich` take the RSS feed instead, and only then is the source failed.
* *dzen*: `DzenSearchPage` collects addresses up to `Target`, `GiveAddress` and `FetchPage` are
  the pool of workers, `OrderResults` waits for all of them, restores the order of the search
  and leaves out stale articles.
* *rss*: `RssFeed`, filtered by the terms of the query.
* `Collect` is the loop body of `search.go` for one source: `Normalized`, `WithinDates`, the
  three keys of `DedupKeys` (address, id within the source, long title) and `SortScored`; `GiveUp` is
  its error path; `Merge` the interleaving and the statistics; `Publish` and `Return` the rest.

Which part of a page an article is made of is kept (`HabrArticle`, `VcArticle`, `DzenArticle`,
`FeedCandidate`: which of several places is tried first, and what is taken when it is empty);
the markup is not. A URL is a record of prefix, site, path and query, and the conversions that clean it
are operators on it.

The loops of the code that carry a `seen` map from one element to the next are not folds here, but
say what is kept: `Once` keeps what occurs for the first time, and `LetThrough(list, kept)` says of
the set `kept` that a candidate is in it exactly if it is wanted and shares no key with what was
seen before or with an earlier one that is in it. There is exactly one such set, which `Collect`
picks. What a page adds to the addresses is a constant function of the page (`PageEntries`,
`SiteLinks`, `PageLinks`), so TLC works it out once.

### RoundRobin

Three places of the code merge lists source by source: `interleaveCandidateBuckets`,
`interleaveArticlesBySource` and `interleaveFeedItemsBySource` (`InterleaveBuckets`,
`InterleaveBy`), and the two SQL queries do it with `ROW_NUMBER()` (`NumberedByKey`).
`TakesTurns` says what a merge by turns is without saying how it is made: nothing is cut while
there is room, each source is taken from its front, and none gets two ahead of another that has
something left. All five are checked against it. Orders are given by the set of what is ahead of
a row and filters by the set of what is wanted, and no operator is recursive: a list is defined
by the place each row gets, so that what holds of it can be proved for lists of every length.

### GatewayFeed

`req[u]` is a user's request, one action per call the handler makes: `ListHome` (feed-service,
for the feed without a query), `CacheGet` and `CacheEvict` (two critical sections), `Search`
(article-service), `Personalize` (user-service; `PersonalizeFails` shows the page as found, like
the code, and `PersonalizePartly` is an answer without all reactions: `ListByUser` returns what it
has read when its query fails, and the gateway sees no error), `StartRefill` (parser-service) and
`StoreResponse`. Articles are stored and stored again, and reactions recorded, between any two of
them. The key of the cache is the raw query
string, here cursor and refill flag; the user is not part of it.

`parsed` lists the rows in the order of parsing, and `version[a]` is what the row of `a` says: the
rank its text has for the query, 0 if it is not found, and its date. An event about an article that
is there already overwrites title, summary, content and `published_at` with what the event says
(`Versions`) and makes the article the last one parsed, so `StoreArticle` may move it to the front,
move it back, or take it out. `pool` is the table in the order of the search: by turns of sources,
within a source by rank, date and time of parsing.

What this means for a scroll, whose cursor is a number of rows, is what `ScrollSkipsNothing` says.
An article that is added or becomes a better match only pushes others back. One that becomes a
worse match, or none, lets what was listed behind it move forward, to a page the reader may have
passed. `MayMoveAhead` is the stored article and, in the second case, those behind it; every other
article that was found when the scroll began is shown, hidden by the user, or behind the cursor.
`scroll` is a history variable: the articles a user has been shown since the last first page, and
whether every page was made of all that was found and all of the user's reactions.

`SearchInMemory` is the memory store's search over a map; its rows are taken in any order, because
the order of a Go map is any.

### WebClient

An `async` handler is two actions: up to its `await` (`RefreshFeed`, `SearchStored`, `LoadMore`,
`StartSearchJob`, `OpenJob`, `RefreshJobs`, `Skip`, `FireTimer`), and the rest, when the response
is there (`FeedLoaded` ... `Skipped`) or the request has failed (`Failed`, the `catch` and
`finally` blocks). `calls` is the bag of requests under way; any of them may be answered next.
A disabled button is a handler that is under way. `timers` are the browser's, `pollTimer` is
the only id the page knows. A response about a job shows it as it was at some time since the
request (`Shown`), so late answers are old. The cards of a response, and whether it has a
cursor, are free: which article matches which query does not matter to the properties.

## 3. Runs

| Run | Shows | States |
|---|---|---|
| `consumer_loop` | at least once, no gaps, also when readers rejoin; refinement of the contract, everything handled in the end unless a poison message is in the process | 180,019 |
| `commit_offset` | violation: see Findings | |
| `ranking_feed` | every accepted article is scored, the feed settles on the last score, a reaction counts at most once in every pass of the reader, those to shown articles count, refinement of the loops, every discovered article is shown in the end | 214,038 |
| `article_ingest` | one article per URL, nothing accepted lost, last version of every article, storage in the end unless ids of one URL differ | 123,378 |
| `article_url_clash` | violation: see Findings | |
| `user_reactions` | no reaction without profile, none lost, last times, profiles kept, refinement of the loop | 172,398 |
| `user_interests` | violation: see Findings | |
| `parser_jobs` | refinement of `JobContract`, isolation of failing sources, jobs end, scheduled queries are searched over faults | 50,556 |
| `source_search` | types and limits (`SearchTypeOK`), requests are bounded, the pool gives what one worker would, no article twice, sources take turns, statistics add up, the search ends | 94,812 |
| `gateway_feed` | made responses are personal, all listings take turns, scrolling leaves out nothing but what was stored again or was behind an article that became a worse match, and ends early only for users who hide articles | 2,333,279 |
| `gateway_cache` | violation: see Findings | |
| `web_client` | no duplicate cards, one poll timer, finished jobs are shown or an error is | 122,934 |

**Deadlock** is not checked: logs, ids and failures are bounded, so every behaviour ends when
they are used up. That loops do not get stuck before is what the liveness properties say.

**Bounds.** `MaxLog`, `MaxFailures`, `MaxDiscovered`, `MaxReactions`, `MaxOverlap`, and the sets of
ids. Two messages per partition are enough for a committed offset (1) that is behind a handled
message (offset 1), and two failures (each a stop or a rejoin) for a redelivery that is itself
interrupted; three groups give a process with two loops and one with a single loop. Ranking has two
articles of two sources and one reaction strong enough to reach the clamp at 0, with one stop or one
rejoin: one redelivery of everything, without the weights or on top of them. Article ingestion has
three events over two ids, two URLs and two versions, so that ids share a URL and move to another.
User reactions have two types and two times, published in either order. Parser jobs have two sources
with common pages, one client job beside the scheduler's, and one fault; `MaxOverlap = 0` lets the
ticker fire only when the earlier scheduled jobs are over, because ids are few; client and scheduled
jobs do overlap. A search has four sources, one of each kind, and queries with and without named
sources and dates, with limits of 2 and 3; `MaxAttempts` is the code's 3, the other limits are
smaller so that each is reached: two search pages of dzen (the code has 4), two addresses beyond the
limit (10) and three workers (4), so that a worker can overtake two others. The web holds articles
that share an address in two spellings, a long title, or a stale date. The gateway has two users,
three requests of one article per page (so that a thin page is one of fewer than 10, the code's
fallback), two stored articles of one source that match as well as each other, an older one of
another source to come, and a clock that lets an entry expire. One article is stored, or one of the
two again: as it was, older, or no longer matching. So a row moves to the front, back, or out of the
list under a scroll of two pages; one that becomes a better match moves like one stored again as it
was, and is covered by the proof. `MaxReacted` is one article of one user, with every type of
reaction. The page has three clicks, enough for a search, a request for more and a reload while it
is under way, or for a job that is opened while it is polled for; two articles, pages of one card,
and an old job beside the new one (four clicks, 655,462 states, give the same result). The gateway's
users are symmetric; the other runs check liveness and use no symmetry.

**Fairness.** Weak fairness of the steps of a loop (a goroutine that can go on is scheduled
by the Go runtime), of restarts (the restart policy) and of the scheduler's ticker. Nothing is
assumed of producers, clients, sources, stops and errors. Steps of different handlers are
fair separately, because each belongs to a goroutine of its own. That faults are finitely many
is a bound of the instances and the condition of the liveness results: a service that is
killed in every round handles nothing. In a search, requests to sites are answered or fail,
because the clients give up after 15 s, and the workers of the pool run. In the page timers fire
and requests are answered or
fail; that is the browser's part and the network's. A service that accepts a request and never
answers is outside this assumption (the gateway's clients have no timeout, see `hazards`).

## 4. Proofs

Every theorem holds for every value of the constants that satisfies the named assumption of the
module; what these assume is listed at the end of this section.

### The loops

`ConsumerLoopProofs`, for any groups, topics, processes, messages and bounds:

* `TypeCorrect`: `TypeOK` is inductive by itself.
* `AtLeastOnce`, `NeverPassedOver`, `LoopsImplementContract`, under `SinglePartition`. The
  properties are not inductive: whether `HandleOk` keeps them depends on where the loop is. The
  invariant `LoopInv` says for each group: the committed offset is 0, or 1 with offset 0
  handled (`CommittedInv`); what is handled is a gapless start of the log (`DoneInv`); at
  "fetch" everything below the position is handled (`FetchInv`); in "handle" and "commit" the
  position is just behind the current message and everything before it is handled
  (`HandleInv`, `CommitInv`). `UntouchedGroup` carries a group over steps of others. The
  refinement maps `HandleOk` to `Deliver` or, on redelivery, to a stuttering step.

### The services behind the loops

Every step of a service is a step of `ConsumerLoop` (`StepsAreLoopSteps`,
`UserStepsAreLoopSteps`), so `LoopInv` is carried along and the lemmas about the loops are used as
they are. `RankingImplementsLoops` and `UserServiceIsALoop` state this as refinements.

Three services keep a table with a row per key and write every event over it, old ones too when
they are delivered again. What makes such a table right is proved once, in `ConsumerLoopProofs`,
for a log, a key, a table and a reader: `TableInv` says that rows are events and keys unique
(`RowsAreEvents`), that accepted events have rows (`AcceptedHaveRows`), and that of the events the
reader has been through since it started (`Through`) the last one of every key is its row
(`Settled`). `Settled` leaves out offset 0: commits store offset 1, so a reader that resumes there
finds for that key whatever row was written last. When the topic has been read to its end, either
a later event of the key has settled the row, or there is no other event of the key and the row
can be no other. `TableAccepts` and
`TableUntouched` carry `TableInv` over a step, `TableCaughtUp` draws the conclusion.

* `RankingFeedProofs`: `RankingTypeCorrect`; `NoScoreLost`, from `ServiceInv` (types, `LoopInv`,
  `StopTogether`, what each topic carries, a draft only inside the handler) with `PublishedInv`
  (between publication and return, the score is in the log) and `ScoredInv`;
  `CaughtUpFeedIsLatest`, from `FeedInv`, the table invariant of `feed_items`.
  `NothingCountsTwice` and `ReactionsToShownCount` are about the weights. What reactions are worth
  to a source (`Worth`) is the number of half points they add less the number they take off, each a
  pair of a counted reaction and a number, so that a sum over any set of reactions is a difference of
  two cardinalities, and one more reaction adds a set disjoint from the rest. A counted reaction is
  a pair of a pass and an offset. `CountInv` says that there is a finite set of such pairs the weights
  are the worth of (`CountedInv`): those of the present pass are below the position, because within a
  pass the reader never goes back, and a stop empties the set together with the weights. A rejoin
  moves the position back but begins another pass, whose pairs are new. The reaction in hand may have
  been fetched in an earlier pass, if the reader rejoined since; `HandInv` says that it has not been
  counted in the pass it was fetched in. The set need not hold every reaction, because one to an
  article that is not known changes nothing. That those to shown articles are in it follows from
  `KnownInv`: until something stops or rejoins, an article is known from before its score is published,
  hence in the log of scores, in the feed, and in every reaction to it.
* `ArticleIngestProofs`: `StoredOncePerUrl`, `NothingAcceptedIsLost`, `CaughtUpTableIsLatest`. The
  invariant is `TableInv` for Postgres, with unique URLs (a refused row leaves the table as it
  is), and for the memory store that everything found by id is also found by URL.
* `UserReactionsProofs`: `NoReactionWithoutProfile`, whose invariant adds that between the two
  transactions of `Record` the profile of the event's user is there (`EnsuredInv`);
  `NoReactionIsLost` and `CaughtUpTimesAreLatest` from the table invariant of `user_reactions`,
  with user, article and type as the key; and the action property `ProfilesAreKept`.

### Jobs

`ParserJobsProofs`, for any jobs, sources, answers and faults. `JobsInv` says for each job what
the place of its goroutine tells of its row and of its events (`JobFollowsRunner`): queued before
the start, running until the end, and while it publishes, exactly the first `sent` candidates of
the result are out. `JobsImplementContract` then maps every step to one of the contract's or to a
stuttering step, also the saves that take effect and report an error.
`FailuresAreIsolated` needs more (`FailsEmpty`): no bucket is empty, an error that is kept was
published, and a job that fails while only sources fail has no bucket.

### Merging by turns

`RoundRobinProofs` is the theory the listings rest on. `InOrder` lists every row of a finite
order once and in order: the number of rows ahead is different for different rows, and an
injection of n rows into n places misses none. `Keep` returns a sublist. From these
`MergeTakesTurns` (`InterleaveBuckets`), `NumberedTakesTurns` (the SQL window) and
`InterleavedTakesTurns` (sorting, grouping and merging in memory) show that each algorithm is
what `TakesTurns` says, for lists and tables of every size. `NothingMovesForward` compares a
table with what it is after a row was added or became better: no other row is listed earlier,
because what was ahead of it can be mapped, one to one, to what is ahead of it now.
`NothingAheadMovesForward` is about a row that was removed or became worse: no row that was listed
before it is listed earlier now.

### Gateway and page

`GatewayFeedProofs`, for any users, articles, requests, reactions and failures.

* `GatewayTypeOK` holds the types, that no article is parsed twice and that the pool is the
  search order of the table. From it `EveryTableTakesTurns` follows with the three theorems
  above.
* `MadeForItsUser` and `OnlyHiddenEndsEarly`, from `PageInv`: what a request remembers as hidden is
  hidden for good (`PersonalOf`), and a page has more behind it only if it was full when it was
  found (`MoreOf`).
* `ScrollingSkipsNothing`, from `ScrollInv`: a request for a further page has the cursor the last
  page gave (`FollowsOf`), and what was there at the start is shown, hidden or behind the end of
  the page, before a request, while the page is being made, and once it is made (`CoveredOf`). The
  core is `StoredPushesBack`: an article that is stored, or stored again, takes no other to an
  earlier place, unless it has become a worse match or none and was listed before the other. If it
  is as good a match or a better one, it is parsed last and so comes first among its equals, and
  `NothingMovesForward` applies; if it is worse, `NothingAheadMovesForward` does.

The page is in `SearchProofs`, for any number of requests answered in any order: `NoCardTwice`
(the cards are a list without repetition, `CardsInv`) and `OneTimer`.

### Search

`SearchProofs`, for any registry of sources, any queries, any web (infinitely many addresses and
titles included) and any failures. `SearchInv` is the conjunction of

* `ClientInv`: the types, `PlaceInv` (a client works for a source of its kind, and what it found is
  of that source) and `WorkInv`, which ties the number of requests to how far the client is, place
  by place: habr's to articles and attempts (`HabrInv`), vc's to addresses collected and visited
  (`VcInv`; discovery collects something with every page but the last), dzen's to search pages and
  results (`DzenInv`). `RequestsBounded` alone is not inductive, because it says nothing of what
  is still to be requested. From it follow `SearchTypes` and `RequestsAreBounded`.
* `PoolIsSequential`, from `PoolInv`: every address handed out is with exactly one worker or has
  exactly one result. When all are handed out and no worker is busy, the results are a permutation
  of the addresses (`PoolIsDone`); and picking the result of each address in turn is the sequential
  answer (`ResultsInOrder`). This is `PoolWorksLikeOne`.
* `KeysInv`: the keys of everything in the buckets are in `seen`, and those of different places are
  disjoint. `LetThroughIs` and `SortedIs` carry it over `Collect`. As `InterleaveBuckets` takes every
  place at most once (`ResultDraws`), `NothingReturnedTwice` follows, and with `MergeTakesTurns`
  `NoSourceIsCrowdedOut`: all places of the buckets hold different candidates.
* `StatInv`, `OwnerInv`, `MergeInv`: there is a record for every source searched, in the order of
  selection, every bucket is what one record accepted, and after the merge the records count the
  result. `StatisticsAddUp` counts twice: the pairs of a record and a number up to what it returned
  are mapped, one to one and onto, to the places of the result (`CountedOnce`), and the candidates
  of a source, one to one, into its bucket (`ReturnedIsAccepted`).

### What is assumed

`SinglePartition` is how the repository creates its topics (`README.md:310-312`); with two
partitions the theorems about the loops are false, because every commit goes to partition 0. The
modules of the services fix groups and topics as deployed. `EventsAreMessages`: the events of the
services are among the payloads. `GatewayAssumption`: the tables are finite, no two
rows of `feed_items` have one date (the code leaves the order of those of one score and date open),
and a user has at most 500 reactions, the number user-service lists. `WebAssumption`
and `JobsAssumption` are types, finiteness, and that a client returns no page twice. `SearchAssumption`
and `WebHolds` are types, and beyond them: among the parsers there is one vc and one dzen (as
`BuildRegistry` makes them), a query's limit is 1 to 100 (`SearchQuery.Normalize`), the empty URL
and title exist, cleaning a URL gives a URL, and an answer of a web search engine has at most
`MaxLinks` links.

### Only model-checked

* Liveness, which needs fairness and `ENABLED`: both are outside the prover's reach.
  `EventuallyHandled`, `DiscoveredIsShown`, `StoredUnlessClash`, `JobEnds`, `ScheduledIsSearched`,
  `SearchEnds` and `FinishedJobIsShown`.
* What the violation runs show; a counterexample is one of an instance.

Every invariant and action property of the passing runs is stated by a theorem.

## 5. Findings

* **Commits store the wrong offset** (`commit_offset`, `packages/kafka/kafka_go_consumer.go`).
  Partition and offset are lost between `Fetch` and `Commit`. The consequence with one partition is
  not loss but repetition: after every restart, and whenever its reader rejoins, each group reads
  its topic again from offset 1. The theorems above show that nothing is lost, and the other runs
  are made with this commit: their results hold for redelivery of everything.
* **One page under two ids stops article-service** (`article_url_clash`). `vc` and `vc_rss`
  give one URL two ids, the `UNIQUE` constraint refuses the second row, and the loop meets the
  same event after every restart; articles behind it are never stored.
* **A profile ensured without interests erases them** (`user_interests`). A nil list of interests is
  written as `null`, which the upsert takes for a new value. In the run a first request stores
  interests and a second one, over HTTP and without any, erases them. The same statement is what
  `Record` executes for every reaction, because it ensures a profile with nothing but id and time.

* **Cached feeds ignore the session user** (`gateway_cache`). The cache of query feeds is keyed
  by the query string alone. Web requests ask for refill and bypass the cache; other clients get
  responses made for others, or made before their own reaction.

Observations that contradict no document:

* A reaction counts once more after its reader has rejoined. It is handled, the reader rejoins
  before or after the commit, resumes at offset 1 or 0, and the same event meets the weights it has
  already changed. Handlers are not idempotent there, and no document says that they are;
  `CountsOncePerPass` says that nothing else counts a reaction twice.
* A scroll may miss an article. With pages of one and `b` listed before `a`, a user is shown `b`; `b`
  is stored again and no longer matches; `a` is now in the first place, and the cursor of the user
  points behind it. For pages made of all that was found and of all reactions, `ScrollSkipsNothing`
  says that this is the only way, apart from articles that are stored again themselves.
* A page from which a hidden article was removed is shorter than asked for, gets no cursor and ends
  the scroll (`EndsEarlyOnlyIfHidden` says that this is the only way).
* When user-service cannot read all reactions, it answers with those it has, so hidden articles are
  shown, and the response is cached like any other.
* Cache entries written for refill requests are never deleted, and a look that finds an entry out of
  date may delete the one that has just replaced it, which costs a search.
* In the page, a response that arrives after another search or a reload replaces, or is appended to,
  what that one shows, and its cursor is used for the other query; and starting a job stops the
  polling for the one on display, also when the start fails. A job left `running` by the end of its
  process is polled for as long as the page is open.

## 6. Not modelled, and plan

Not modelled:

* HTML, JSON and XML of the sources, and how the relevance of a text is counted: both are
  constants of `SourceSearch`, and which of several places a value is taken from is kept.
* The rate limiter: one critical section per request. Its windows are fixed, so up to twice the
  limit may pass in an interval shorter than a window, and no document promises less.
* Reads of single rows (`GetByID`), and the HTTP handlers that pass a request on unchanged.
* The memory store of feed-service in the loop, which keeps nothing over a restart; its listing
  is modelled.
* The reader pane of the page, marks of reactions other than skip, and drawing.
* Topics with more than one partition. The repository creates one; commits always go to
  partition 0, so with two the guarantees of section 4 do not hold.
* Metrics, configuration, generated protobuf code, and validation of events whose producers
  always fill the fields. `Ranker.Rank` is not called by the service.

Worth adding next:

1. The reader pane of the page, where the first of two answers may come last.
2. Two partitions per topic, once commits carry their partition: the theorems about the loops are
   stated under `SinglePartition` for that reason only.
