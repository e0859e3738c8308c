---------------------------- MODULE RankingFeed ----------------------------
(***************************************************************************)
(* The path of an article from discovery to the feed, and of a reaction    *)
(* back into the scores: parser-service publishes discovered articles, the *)
(* discovered loop of ranking-service scores them and publishes the score, *)
(* feed-service stores it, users react through gateway-api, and the        *)
(* reaction loop of ranking-service turns reactions into weights that the  *)
(* next scores use.  The two loops of ranking-service share SignalStore,   *)
(* which is kept in memory and guarded by a mutex; a handler is therefore  *)
(* one step per critical section.  feed_items is a Postgres table.         *)
(*                                                                         *)
(* Scores and weights are counted in half points: a reaction gives its     *)
(* full weight to every tag and half of it to the source.                  *)
(***************************************************************************)
EXTENDS ConsumerLoop, FiniteSetsExt

CONSTANTS
    Articles,       \* article ids
    Sources,        \* source names
    SourceOf,       \* SourceOf[a]: an article id starts with its source's name
    Tags,           \* normalized tags
    Boosted,        \* sources scored higher than the others
    Freshness,      \* what the age of an article may add to its score
    ReactionTypes,  \* types a client may send, supported or not
    MaxDiscovered,  \* bound: discovered events
    MaxReactions    \* bound: reaction events

(* The wiring of the topics and loops, and types. *)
ASSUME RankingAssumption ==
    /\ Groups = {"ranking", "signals", "feed"}
    /\ Topics = {"discovered", "reaction", "scored"}
    /\ TopicOf = [ranking |-> "discovered", signals |-> "reaction", feed |-> "scored"]
    /\ ProcessOf = [ranking |-> "ranking-service", signals |-> "ranking-service",
                    feed |-> "feed-service"]
    /\ Partitions = {0}
    /\ Poison = [g \in Groups |-> {}]
    /\ SourceOf \in [Articles -> Sources]
    /\ Boosted \subseteq Sources
    /\ Freshness \subseteq Nat
    /\ MaxDiscovered \in Nat /\ MaxReactions \in Nat
    /\ MaxDiscovered <= MaxLog /\ MaxReactions <= MaxLog

(* reactionWeight: the types it supports, in points. *)
Weight == [like |-> 4, save |-> 8, open |-> 1, skip |-> -3, dislike |-> -8]

DiscoveredEvents == [article : Articles, tags : SUBSET Tags]

(* shown is a history field: the article was in the feed when the user reacted. *)
ReactionEvents == [article : Articles, type : ReactionTypes, shown : BOOLEAN]

(* signals says whether "reaction_signals" is among the score's reasons. *)
ScoredEvents == [article : Articles, score : Nat, signals : BOOLEAN]

(* Messages stands for any set of payloads the three events belong to. *)
EventsAreMessages ==
    DiscoveredEvents \union ReactionEvents \union ScoredEvents \subseteq Messages

VARIABLES
    articleTags,    \* SignalStore.articleTags, {} for an article it does not know
    knownSources,   \* DOMAIN of SignalStore.articleSources
    tagWeights,     \* SignalStore.tagWeights, in half points
    sourceWeights,  \* SignalStore.sourceWeights, in half points
    draft,          \* the scored event DiscoveredHandler.Handle is working on
    feed,           \* the rows of feed_items, keyed by article
    rejoins         \* history: how often the reaction reader has rejoined since its process began

signalVars == <<articleTags, knownSources, tagWeights, sourceWeights>>
rankingVars == <<signalVars, draft, rejoins>>
allVars == <<vars, rankingVars, feed>>

Stages == {"idle", "scored", "remembered", "published"}
Idle == [stage |-> "idle", score |-> 0, signals |-> FALSE]

RankingTypeOK ==
    /\ TypeOK
    /\ articleTags \in [Articles -> SUBSET Tags]
    /\ knownSources \subseteq Articles
    /\ tagWeights \in [Tags -> Int]
    /\ sourceWeights \in [Sources -> Int]
    /\ draft \in [stage : Stages, score : Nat, signals : BOOLEAN]
    /\ feed \subseteq ScoredEvents
    /\ rejoins \in Nat

-----------------------------------------------------------------------------
(* NewSignalStore: the store is made when the process starts. *)
NewSignalStore ==
    [articleTags |-> [a \in Articles |-> {}], tagWeights |-> [t \in Tags |-> 0],
     sourceWeights |-> [s \in Sources |-> 0]]

RankingInit ==
    /\ Init
    /\ articleTags = NewSignalStore.articleTags
    /\ knownSources = {}
    /\ tagWeights = NewSignalStore.tagWeights
    /\ sourceWeights = NewSignalStore.sourceWeights
    /\ draft = Idle
    /\ feed = {}
    /\ rejoins = 0

(* Mutant: the weights are kept outside the process. *)
ForgetAllButWeights(g) ==
    IF ProcessOf[g] = ProcessOf["ranking"]
    THEN /\ articleTags' = NewSignalStore.articleTags
         /\ knownSources' = {}
         /\ UNCHANGED <<tagWeights, sourceWeights>>
         /\ draft' = Idle
         /\ rejoins' = 0
    ELSE UNCHANGED rankingVars

(* What ranking-service held in memory is gone when g was one of its loops and stops. *)
ForgetSignals(g) ==
    IF ProcessOf[g] = ProcessOf["ranking"]
    THEN /\ articleTags' = NewSignalStore.articleTags
         /\ knownSources' = {}
         /\ tagWeights' = NewSignalStore.tagWeights
         /\ sourceWeights' = NewSignalStore.sourceWeights
         /\ draft' = Idle
         /\ rejoins' = 0
    ELSE UNCHANGED rankingVars

Shown(a) == \E row \in feed : row.article = a

(* scoreWithReasons without query terms, before the reaction signals. *)
BaseScore(a, fresh) == (IF SourceOf[a] \in Boosted THEN 6 ELSE 0) + fresh

(* Mutant: a score may be negative. *)
ApplyUnclamped(base, a, tags) ==
    base + MapThenSumSet(LAMBDA t : tagWeights[t], tags) + sourceWeights[SourceOf[a]]

(* ApplyToScore: a score that would be negative is 0. *)
ApplyToScore(base, a, tags) ==
    LET score == base + MapThenSumSet(LAMBDA t : tagWeights[t], tags) + sourceWeights[SourceOf[a]]
    IN  IF score \in Nat THEN score ELSE 0

-----------------------------------------------------------------------------
(* parser-service publishes a discovered article. *)
PublishDiscovered(a, tags) ==
    /\ Len(log["discovered"][0]) < MaxDiscovered
    /\ Publish("discovered", 0, [article |-> a, tags |-> tags])
    /\ UNCHANGED <<rankingVars, feed>>

(* Mutant: the gateway passes on whatever type the client sends. *)
ReactAnyType(a, type) ==
    /\ Len(log["reaction"][0]) < MaxReactions
    /\ Publish("reaction", 0, [article |-> a, type |-> type, shown |-> Shown(a)])
    /\ UNCHANGED <<rankingVars, feed>>

(* POST /reactions of gateway-api: toReaction checks the type, Publisher.Record
   publishes.  The article need not be in the feed: search results can be reacted to. *)
React(a, type) ==
    /\ type \in {"like", "dislike", "skip", "save", "open"}
    /\ Len(log["reaction"][0]) < MaxReactions
    /\ Publish("reaction", 0, [article |-> a, type |-> type, shown |-> Shown(a)])
    /\ UNCHANGED <<rankingVars, feed>>

FetchNext(g) ==
    /\ Fetch(g, 0)
    /\ UNCHANGED <<rankingVars, feed>>

(* RankDiscovered, first critical section: the score from the weights of the moment. *)
Score(fresh) ==
    LET event == PayloadAt("ranking", cur["ranking"])
        base  == BaseScore(event.article, fresh)
        score == ApplyToScore(base, event.article, event.tags)
    IN  /\ pc["ranking"] = "handle"
        /\ draft.stage = "idle"
        /\ draft' = [stage |-> "scored", score |-> score, signals |-> score # base]
        /\ UNCHANGED <<vars, signalVars, rejoins, feed>>

(* Mutant: an article without tags is not remembered at all. *)
RememberOnlyTagged ==
    LET event == PayloadAt("ranking", cur["ranking"])
    IN  /\ draft.stage = "scored"
        /\ draft' = [draft EXCEPT !.stage = "remembered"]
        /\ articleTags' = [articleTags EXCEPT ![event.article] =
                              IF event.tags = {} THEN @ ELSE event.tags]
        /\ knownSources' = IF event.tags = {} THEN knownSources
                           ELSE knownSources \union {event.article}
        /\ UNCHANGED <<vars, tagWeights, sourceWeights, rejoins, feed>>

(* RememberArticle, second critical section: no tags leave the remembered ones alone. *)
Remember ==
    LET event == PayloadAt("ranking", cur["ranking"])
    IN  /\ draft.stage = "scored"
        /\ draft' = [draft EXCEPT !.stage = "remembered"]
        /\ articleTags' = [articleTags EXCEPT ![event.article] =
                              IF event.tags = {} THEN @ ELSE event.tags]
        /\ knownSources' = knownSources \union {event.article}
        /\ UNCHANGED <<vars, tagWeights, sourceWeights, rejoins, feed>>

(* The scored event reaches the broker; Publish has not returned yet. *)
PublishScored ==
    LET event == PayloadAt("ranking", cur["ranking"])
    IN  /\ draft.stage = "remembered"
        /\ Len(log["scored"][0]) < MaxLog
        /\ Publish("scored", 0, [article |-> event.article, score |-> draft.score,
                                 signals |-> draft.signals])
        /\ draft' = [draft EXCEPT !.stage = "published"]
        /\ UNCHANGED <<signalVars, rejoins, feed>>

(* Mutant: the handler does not wait for the publication. *)
ReturnEarly ==
    /\ draft.stage = "remembered"
    /\ HandleOk("ranking")
    /\ draft' = Idle
    /\ UNCHANGED <<signalVars, rejoins, feed>>

(* Publish and Handle return nil. *)
Return ==
    /\ draft.stage = "published"
    /\ HandleOk("ranking")
    /\ draft' = Idle
    /\ UNCHANGED <<signalVars, rejoins, feed>>

(* RecordReaction for a supported type, one critical section: it counts for what is known
   of the article now. *)
CountReaction(event) ==
    LET weight == Weight[event.type]
    IN  /\ tagWeights' = [t \in Tags |->
              tagWeights[t] + IF t \in articleTags[event.article] THEN 2 * weight ELSE 0]
        /\ sourceWeights' = [s \in Sources |->
              sourceWeights[s] +
              IF event.article \in knownSources /\ SourceOf[event.article] = s
              THEN weight ELSE 0]
        /\ UNCHANGED <<articleTags, knownSources, draft, rejoins>>

(* ReactionHandler.Handle: an unsupported type is an error, and an error ends the process. *)
HandleReaction ==
    LET event == PayloadAt("signals", cur["signals"])
    IN  /\ pc["signals"] = "handle"
        /\ IF event.type \in DOMAIN Weight
           THEN HandleOk("signals") /\ CountReaction(event)
           ELSE /\ StopProcess("signals")
                /\ ForgetSignals("signals")
                /\ UNCHANGED <<log, committed, position, cur, failures, done>>
        /\ UNCHANGED feed

(* Mutant: an item that already has a higher score keeps it. *)
UpsertKeepsBest ==
    LET event == PayloadAt("feed", cur["feed"])
        kept  == {row \in feed : row.article = event.article /\ row.score > event.score}
    IN  /\ HandleOk("feed")
        /\ feed' = IF kept # {} THEN feed
                   ELSE {row \in feed : row.article # event.article} \union {event}
        /\ UNCHANGED rankingVars

(* Mutant: items without a score are dropped. *)
UpsertDropsZero ==
    LET event == PayloadAt("feed", cur["feed"])
    IN  /\ HandleOk("feed")
        /\ feed' = IF event.score = 0 THEN feed
                   ELSE {row \in feed : row.article # event.article} \union {event}
        /\ UNCHANGED rankingVars

(* ScoredHandler.Handle: insert the row or overwrite the one of the article. *)
UpsertScoredItem ==
    LET event == PayloadAt("feed", cur["feed"])
    IN  /\ HandleOk("feed")
        /\ feed' = {row \in feed : row.article # event.article} \union {event}
        /\ UNCHANGED rankingVars

Commit(g) ==
    /\ CommitOk(g)
    /\ UNCHANGED <<rankingVars, feed>>

Fail(g) ==
    /\ Stop(g) \/ CommitUnanswered(g)
    /\ ForgetSignals(g)
    /\ UNCHANGED feed

RestartProcess(g) ==
    /\ Restart(g)
    /\ UNCHANGED <<rankingVars, feed>>

(* The reader of g rejoins its group; everything ranking-service remembers stays. *)
RejoinGroup(g) ==
    /\ Rejoin(g)
    /\ rejoins' = IF g = "signals" THEN rejoins + 1 ELSE rejoins
    /\ UNCHANGED <<signalVars, draft, feed>>

RankingNext ==
    \/ \E a \in Articles, tags \in SUBSET Tags : PublishDiscovered(a, tags)
    \/ \E a \in Articles, type \in ReactionTypes : React(a, type)
    \/ \E fresh \in Freshness : Score(fresh)
    \/ Remember
    \/ PublishScored
    \/ Return
    \/ HandleReaction
    \/ UpsertScoredItem
    \/ \E g \in Groups :
          FetchNext(g) \/ Commit(g) \/ Fail(g) \/ RestartProcess(g) \/ RejoinGroup(g)

RankingSpec == RankingInit /\ [][RankingNext]_allVars

(* The loops go on while they can and a stopped process is started again. *)
RankingFairness ==
    /\ WF_allVars(\E fresh \in Freshness : Score(fresh))
    /\ WF_allVars(Remember)
    /\ WF_allVars(PublishScored)
    /\ WF_allVars(Return)
    /\ WF_allVars(HandleReaction)
    /\ WF_allVars(UpsertScoredItem)
    /\ \A g \in Groups :
          WF_allVars(FetchNext(g)) /\ WF_allVars(Commit(g)) /\ WF_allVars(RestartProcess(g))

RankingFairSpec == RankingSpec /\ RankingFairness

-----------------------------------------------------------------------------
(* The two services are consumer loops that no message can stop: the handlers with their
   memory, table and publications step as ConsumerLoop does with nothing poisonous.  It
   needs gateway-api to let through only the reaction types ranking-service knows. *)
ImplementsLoops == Spec

(* Wherever the discovered loop was stopped, every event it has accepted has led to a
   scored event: the score is published before Handle returns. *)
AcceptedIsScored ==
    \A o \in done["ranking"][0] : \E i \in DOMAIN log["scored"][0] :
        log["scored"][0][i].article = log["discovered"][0][o + 1].article

(* The last scored event of every article. *)
Latest(events) ==
    {events[i] : i \in {j \in DOMAIN events :
        \A k \in DOMAIN events : k > j => events[k].article # events[j].article}}

(* Redelivery may put old scores back into the feed, but a feed loop that has caught up
   with its topic shows the last score of every article. *)
FeedShowsLatest ==
    pc["feed"] = "fetch" /\ position["feed"][0] = Len(log["scored"][0])
        => feed = Latest(log["scored"][0])

(* Every discovered article gets into the feed, through both services and their restarts. *)
DiscoveredIsShown ==
    \A a \in Articles :
        (\E i \in DOMAIN log["discovered"][0] : log["discovered"][0][i].article = a) ~> Shown(a)

(* A delivery is a reaction's offset with the pass of the reader it came in: how often the
   reader had rejoined when it fetched the reaction. *)
Passes == 0..rejoins
DeliveredEvent(events, d) == events[d[2] + 1]

(* What the given deliveries add to or (sign = -1) take off source s, point by point. *)
Points(events, s, deliveries, sign) ==
    UNION {{d} \X (1..(sign * Weight[DeliveredEvent(events, d).type])) :
              d \in {e \in deliveries : SourceOf[DeliveredEvent(events, e).article] = s}}

(* What they are worth to source s, in half points. *)
Worth(events, s, deliveries) ==
    Cardinality(Points(events, s, deliveries, 1))
    - Cardinality(Points(events, s, deliveries, -1))

(* The weight of every source is what some set of deliveries of accepted reactions is
   worth, at least the given ones. *)
CountsOnce(atLeast) ==
    \A s \in Sources : \E counted \in SUBSET (Passes \X done["signals"][0]) :
        atLeast \subseteq counted /\ sourceWeights[s] = Worth(log["reaction"][0], s, counted)

(* A reaction counts towards a source at most once, and once more every time the reader has
   rejoined its group since the process began.  That the committed offset is always 1 and
   reactions are delivered again after a restart adds nothing: the weights do not outlive
   the process.  A rejoin delivers them again to weights that are still there. *)
CountsOncePerPass == CountsOnce({})

(* As long as nothing has stopped or rejoined, a reaction to an article the user saw in the
   feed counts: the article was remembered before its score was published. *)
ShownReactionsCount ==
    failures = 0 =>
        CountsOnce({0} \X {o \in done["signals"][0] : log["reaction"][0][o + 1].shown})

=============================================================================
