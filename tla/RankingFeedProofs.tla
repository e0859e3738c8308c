------------------------- MODULE RankingFeedProofs -------------------------
(***************************************************************************)
(* Theorems about the ranking and feed services, for any sets of articles, *)
(* sources, tags and reaction types and any bounds.  Ranking and feed      *)
(* steps are shown to be steps of the consumer loops, so the inductive     *)
(* invariant of the loops is carried along and need not be proved again.   *)
(***************************************************************************)
EXTENDS RankingFeed, ConsumerLoopProofs, FiniteSetTheorems

(* The variables RankingFeed adds have their types. *)
MemoryTypeOK ==
    /\ articleTags \in [Articles -> SUBSET Tags]
    /\ knownSources \subseteq Articles
    /\ tagWeights \in [Tags -> Int]
    /\ sourceWeights \in [Sources -> Int]
    /\ draft \in [stage : Stages, score : Nat, signals : BOOLEAN]
    /\ feed \subseteq ScoredEvents
    /\ rejoins \in Nat

(* Every topic holds the events its readers expect, and every reaction has a type that
   reactionWeight supports. *)
EventsInv ==
    /\ \A i \in DOMAIN log["discovered"][0] : log["discovered"][0][i] \in DiscoveredEvents
    /\ \A i \in DOMAIN log["reaction"][0] :
          /\ log["reaction"][0][i] \in ReactionEvents
          /\ log["reaction"][0][i].type \in DOMAIN Weight
    /\ \A i \in DOMAIN log["scored"][0] : log["scored"][0][i] \in ScoredEvents

(* A draft exists only inside DiscoveredHandler.Handle. *)
DraftInv == draft.stage # "idle" => pc["ranking"] = "handle"

(* Some scored event is about article a. *)
HasScore(a) == \E i \in DOMAIN log["scored"][0] : log["scored"][0][i].article = a

(* After the publication and before Handle returns, the score is in the log. *)
PublishedInv ==
    draft.stage = "published" => HasScore(PayloadAt("ranking", cur["ranking"]).article)

(* Every accepted discovered event has led to a score. *)
ScoredInv ==
    \A o \in done["ranking"][0] : HasScore(log["discovered"][0][o + 1].article)

(* The key of the table feed_items. *)
ArticleOf == [e \in ScoredEvents |-> e.article]

(* feed_items follows the log of scored events. *)
FeedInv ==
    TableInv(log["scored"][0], ArticleOf, feed, done["feed"][0], Through("feed"))

(* As long as nothing has stopped, the article a score was made of is known from before the
   publication on, so are the articles of all scores and of the feed, and a reaction to an
   article the user saw in the feed is to a known one. *)
HandKnown ==
    draft.stage \in {"remembered", "published"} =>
        PayloadAt("ranking", cur["ranking"]).article \in knownSources
ScoredKnown ==
    \A i \in DOMAIN log["scored"][0] : log["scored"][0][i].article \in knownSources
FeedKnown == \A row \in feed : row.article \in knownSources
Recallable == {e \in ReactionEvents : e.shown => e.article \in knownSources}
ShownKnown ==
    \A i \in DOMAIN log["reaction"][0] : log["reaction"][0][i] \in Recallable
KnownInv == failures = 0 => HandKnown /\ ScoredKnown /\ FeedKnown /\ ShownKnown

(* The weights are what the given deliveries are worth, each of which has been made; none
   of the reader's present pass is still before it, and a stopped process has none.  As
   long as nothing has stopped or rejoined, reactions to shown articles are among them. *)
CountedInv(counted) ==
    /\ IsFiniteSet(counted) /\ counted \subseteq Passes \X done["signals"][0]
    /\ \A d \in counted : d[1] = rejoins => d[2] < position["signals"][0]
    /\ pc["signals"] = "stopped" => counted = {}
    /\ \A s \in Sources : sourceWeights[s] = Worth(log["reaction"][0], s, counted)
    /\ failures = 0 =>
          \A o \in done["signals"][0] : log["reaction"][0][o + 1].shown => <<0, o>> \in counted

(* The reaction in hand was fetched in the given pass and has not been counted in it. *)
InHandSince(counted, pass) ==
    /\ pass \in Passes
    /\ <<pass, cur["signals"].offset>> \notin counted
    /\ pass = rejoins => cur["signals"].offset < position["signals"][0]

HandInv(counted) ==
    pc["signals"] = "handle" => \E pass \in Nat : InHandSince(counted, pass)

CountInv ==
    /\ failures = 0 => rejoins = 0
    /\ \E counted \in SUBSET (Nat \X Nat) : CountedInv(counted) /\ HandInv(counted)

ServiceInv ==
    TypeOK /\ LoopInv /\ StopTogether /\ MemoryTypeOK /\ EventsInv /\ DraftInv

-----------------------------------------------------------------------------
(* Every topic has one partition, so what is proved of the loops applies. *)
LEMMA OnePartition == SinglePartition
BY RankingAssumption DEF SinglePartition

(* The event DiscoveredHandler.Handle works on. *)
LEMMA DiscoveredInHand ==
    ASSUME ServiceInv, pc["ranking"] = "handle"
    PROVE  PayloadAt("ranking", cur["ranking"]) \in DiscoveredEvents
<1>1. "ranking" \in Groups /\ LogOf("ranking") = log["discovered"]
  BY RankingAssumption DEF LogOf
<1> QED
  BY <1>1, OnePartition, EventInHand DEF ServiceInv, EventsInv

(* The event ReactionHandler.Handle works on has a supported type. *)
LEMMA ReactionInHand ==
    ASSUME ServiceInv, pc["signals"] = "handle"
    PROVE  /\ PayloadAt("signals", cur["signals"]) \in ReactionEvents
           /\ PayloadAt("signals", cur["signals"]).type \in DOMAIN Weight
<1>1. "signals" \in Groups /\ LogOf("signals") = log["reaction"]
  BY RankingAssumption DEF LogOf
<1>2. \A i \in DOMAIN LogOf("signals")[0] :
        LogOf("signals")[0][i] \in {m \in ReactionEvents : m.type \in DOMAIN Weight}
  BY <1>1 DEF ServiceInv, EventsInv
<1>3. PayloadAt("signals", cur["signals"]) \in {m \in ReactionEvents : m.type \in DOMAIN Weight}
  BY <1>1, <1>2, OnePartition, EventInHand DEF ServiceInv
<1> QED
  BY <1>3

(* The event ScoredHandler.Handle works on. *)
LEMMA ScoredInHand ==
    ASSUME ServiceInv, pc["feed"] = "handle"
    PROVE  PayloadAt("feed", cur["feed"]) \in ScoredEvents
<1>1. "feed" \in Groups /\ LogOf("feed") = log["scored"]
  BY RankingAssumption DEF LogOf
<1> QED
  BY <1>1, OnePartition, EventInHand DEF ServiceInv, EventsInv

-----------------------------------------------------------------------------
(* Every step of the services is a step of the consumer loops, or changes nothing of them. *)
LEMMA StepsAreLoopSteps ==
    ASSUME EventsAreMessages, ServiceInv, [RankingNext]_allVars
    PROVE  [Next]_vars
<1> USE RankingAssumption
<1>1. ASSUME NEW a \in Articles, NEW tags \in SUBSET Tags, PublishDiscovered(a, tags)
      PROVE  Next
  <2>1. [article |-> a, tags |-> tags] \in Messages
    BY DEF EventsAreMessages, DiscoveredEvents
  <2> QED
    BY <1>1, <2>1 DEF PublishDiscovered, Next
<1>2. ASSUME NEW a \in Articles, NEW type \in ReactionTypes, React(a, type)
      PROVE  Next
  <2>1. Shown(a) \in BOOLEAN
    BY DEF Shown
  <2>2. [article |-> a, type |-> type, shown |-> Shown(a)] \in Messages
    BY <2>1 DEF EventsAreMessages, ReactionEvents
  <2> QED
    BY <1>2, <2>2 DEF React, Next
<1>3. ASSUME PublishScored
      PROVE  Next
  <2>1. pc["ranking"] = "handle"
    BY <1>3 DEF PublishScored, ServiceInv, DraftInv
  <2>2. PayloadAt("ranking", cur["ranking"]).article \in Articles
    BY <2>1, DiscoveredInHand DEF DiscoveredEvents
  <2>3. draft.score \in Nat /\ draft.signals \in BOOLEAN
    BY DEF ServiceInv, MemoryTypeOK
  <2>4. [article |-> PayloadAt("ranking", cur["ranking"]).article,
         score |-> draft.score, signals |-> draft.signals] \in Messages
    BY <2>2, <2>3 DEF EventsAreMessages, ScoredEvents
  <2> QED
    BY <1>3, <2>4 DEF PublishScored, Next
<1>4. ASSUME HandleReaction
      PROVE  Next
  <2>1. HandleOk("signals")
    BY <1>4, ReactionInHand DEF HandleReaction
  <2> QED
    BY <2>1 DEF Next
<1>5. ASSUME Return \/ UpsertScoredItem
      PROVE  Next
  BY <1>5 DEF Return, UpsertScoredItem, Next
<1>6. ASSUME NEW g \in Groups,
             \/ FetchNext(g) \/ Commit(g) \/ Fail(g) \/ RestartProcess(g) \/ RejoinGroup(g)
      PROVE  Next
  BY <1>6 DEF FetchNext, Commit, Fail, RestartProcess, RejoinGroup, Next
<1>7. ASSUME NEW fresh \in Freshness, Score(fresh)
      PROVE  UNCHANGED vars
  BY <1>7 DEF Score
<1>8. ASSUME Remember
      PROVE  UNCHANGED vars
  BY <1>8 DEF Remember
<1>9. CASE UNCHANGED allVars
  BY <1>9 DEF allVars
<1> QED
  BY <1>1, <1>2, <1>3, <1>4, <1>5, <1>6, <1>7, <1>8, <1>9 DEF RankingNext

-----------------------------------------------------------------------------
(* The logs of the three topics are sequences of messages. *)
LEMMA LogTypes ==
    ASSUME TypeOK
    PROVE  /\ log["discovered"][0] \in Seq(Messages)
           /\ log["reaction"][0] \in Seq(Messages)
           /\ log["scored"][0] \in Seq(Messages)
BY LoopAssumption, RankingAssumption DEF TypeOK

(* The topics keep holding the events their readers expect. *)
LEMMA EventsStep ==
    ASSUME EventsAreMessages, ServiceInv, [RankingNext]_allVars
    PROVE  EventsInv'
<1> USE RankingAssumption
<1>0. TypeOK /\ EventsInv
  BY DEF ServiceInv
<1>u. ASSUME UNCHANGED log PROVE EventsInv'
  BY <1>0, <1>u DEF EventsInv
<1>1. ASSUME NEW a \in Articles, NEW tags \in SUBSET Tags, PublishDiscovered(a, tags)
      PROVE  EventsInv'
  <2> DEFINE m == [article |-> a, tags |-> tags]
  <2>1. m \in DiscoveredEvents /\ m \in Messages
    BY DEF EventsAreMessages, DiscoveredEvents
  <2>2. /\ log'["discovered"][0] = Append(log["discovered"][0], m)
        /\ log'["reaction"] = log["reaction"] /\ log'["scored"] = log["scored"]
    BY <1>0, <1>1, OnePartition, PublishedLog DEF PublishDiscovered
  <2>3. \A i \in DOMAIN log'["discovered"][0] : log'["discovered"][0][i] \in DiscoveredEvents
    BY <1>0, <2>1, <2>2, LogTypes, AppendedEvents DEF EventsInv
  <2> QED
    BY <1>0, <2>2, <2>3 DEF EventsInv
<1>2. ASSUME NEW a \in Articles, NEW type \in ReactionTypes, React(a, type)
      PROVE  EventsInv'
  <2> DEFINE m == [article |-> a, type |-> type, shown |-> Shown(a)]
             Supported == {e \in ReactionEvents : e.type \in DOMAIN Weight}
  <2>0. Shown(a) \in BOOLEAN
    BY DEF Shown
  <2>1. m \in ReactionEvents /\ m \in Messages
    BY <2>0 DEF EventsAreMessages, ReactionEvents
  <2>2. m \in Supported
    BY <1>2, <2>1 DEF React, Weight
  <2>3. /\ log'["reaction"][0] = Append(log["reaction"][0], m)
        /\ log'["discovered"] = log["discovered"] /\ log'["scored"] = log["scored"]
    BY <1>0, <1>2, OnePartition, PublishedLog DEF React
  <2>4. \A i \in DOMAIN log["reaction"][0] : log["reaction"][0][i] \in Supported
    BY <1>0 DEF EventsInv
  <2> HIDE DEF m, Supported
  <2>5. \A i \in DOMAIN log'["reaction"][0] : log'["reaction"][0][i] \in Supported
    BY <1>0, <2>1, <2>2, <2>3, <2>4, LogTypes, AppendedEvents
  <2> QED
    BY <1>0, <2>3, <2>5 DEF EventsInv, Supported
<1>3. ASSUME PublishScored
      PROVE  EventsInv'
  <2> DEFINE m == [article |-> PayloadAt("ranking", cur["ranking"]).article,
                   score |-> draft.score, signals |-> draft.signals]
  <2>1. PayloadAt("ranking", cur["ranking"]).article \in Articles
    BY <1>3, DiscoveredInHand DEF PublishScored, ServiceInv, DraftInv, DiscoveredEvents
  <2>2. draft.score \in Nat /\ draft.signals \in BOOLEAN
    BY DEF ServiceInv, MemoryTypeOK
  <2>3. m \in ScoredEvents /\ m \in Messages
    BY <2>1, <2>2 DEF EventsAreMessages, ScoredEvents
  <2>4. /\ log'["scored"][0] = Append(log["scored"][0], m)
        /\ log'["discovered"] = log["discovered"] /\ log'["reaction"] = log["reaction"]
    BY <1>0, <1>3, OnePartition, PublishedLog DEF PublishScored
  <2>5. \A i \in DOMAIN log'["scored"][0] : log'["scored"][0][i] \in ScoredEvents
    BY <1>0, <2>3, <2>4, LogTypes, AppendedEvents DEF EventsInv
  <2> QED
    BY <1>0, <2>4, <2>5 DEF EventsInv
<1>4. ASSUME HandleReaction PROVE UNCHANGED log
  BY <1>4 DEF HandleReaction, HandleOk
<1>5. ASSUME Return \/ UpsertScoredItem \/ Remember PROVE UNCHANGED log
  BY <1>5 DEF Return, UpsertScoredItem, Remember, HandleOk, vars
<1>6. ASSUME NEW g \in Groups,
             \/ FetchNext(g) \/ Commit(g) \/ Fail(g) \/ RestartProcess(g) \/ RejoinGroup(g)
      PROVE  UNCHANGED log
  BY <1>6 DEF FetchNext, Commit, Fail, RestartProcess, RejoinGroup, Fetch, CommitOk, Stop,
              CommitUnanswered, Restart, Rejoin
<1>7. ASSUME NEW fresh \in Freshness, Score(fresh) PROVE UNCHANGED log
  BY <1>7 DEF Score, vars
<1>8. CASE UNCHANGED allVars
  BY <1>8, <1>u DEF allVars, vars
<1> QED
  BY <1>u, <1>1, <1>2, <1>3, <1>4, <1>5, <1>6, <1>7, <1>8 DEF RankingNext

(* The memory of ranking-service and the feed table keep their types. *)
LEMMA MemoryTypeStep ==
    ASSUME ServiceInv, [RankingNext]_allVars
    PROVE  MemoryTypeOK'
<1> USE RankingAssumption
<1>0. MemoryTypeOK
  BY DEF ServiceInv
<1>u. ASSUME UNCHANGED <<rankingVars, feed>> PROVE MemoryTypeOK'
  BY <1>0, <1>u DEF MemoryTypeOK, rankingVars, signalVars
<1>f. ASSUME NEW g \in Groups, ForgetSignals(g), UNCHANGED feed PROVE MemoryTypeOK'
  <2>1. CASE ProcessOf[g] = ProcessOf["ranking"]
    <3>1. /\ articleTags' = NewSignalStore.articleTags
          /\ knownSources' = {}
          /\ tagWeights' = NewSignalStore.tagWeights
          /\ sourceWeights' = NewSignalStore.sourceWeights
          /\ draft' = Idle
          /\ feed' = feed
          /\ rejoins' = 0
      BY <1>f, <2>1 DEF ForgetSignals
    <3>2. Idle \in [stage : Stages, score : Nat, signals : BOOLEAN]
      BY DEF Idle, Stages
    <3>3. /\ NewSignalStore.articleTags \in [Articles -> SUBSET Tags]
          /\ NewSignalStore.tagWeights \in [Tags -> Int]
          /\ NewSignalStore.sourceWeights \in [Sources -> Int]
      BY DEF NewSignalStore
    <3> QED
      BY <1>0, <3>1, <3>2, <3>3 DEF MemoryTypeOK
  <2>2. CASE ProcessOf[g] # ProcessOf["ranking"]
    BY <1>f, <1>u, <2>2 DEF ForgetSignals
  <2> QED
    BY <2>1, <2>2
<1>1. ASSUME NEW fresh \in Freshness, Score(fresh) PROVE MemoryTypeOK'
  <2>1. \A base, a, tags : ApplyToScore(base, a, tags) \in Nat
    BY DEF ApplyToScore
  <2>2. draft' \in [stage : Stages, score : Nat, signals : BOOLEAN]
    BY <1>1, <2>1 DEF Score, Stages
  <2> QED
    BY <1>0, <1>1, <2>2 DEF MemoryTypeOK, Score, signalVars
<1>2. ASSUME Remember PROVE MemoryTypeOK'
  <2>1. PayloadAt("ranking", cur["ranking"]) \in DiscoveredEvents
    BY <1>2, DiscoveredInHand DEF Remember, ServiceInv, DraftInv
  <2>2. /\ PayloadAt("ranking", cur["ranking"]).article \in Articles
        /\ PayloadAt("ranking", cur["ranking"]).tags \subseteq Tags
    BY <2>1 DEF DiscoveredEvents
  <2>3. articleTags' \in [Articles -> SUBSET Tags]
    BY <1>0, <1>2, <2>2 DEF MemoryTypeOK, Remember
  <2>4. knownSources' \subseteq Articles
    BY <1>0, <1>2, <2>2 DEF MemoryTypeOK, Remember
  <2>5. draft' \in [stage : Stages, score : Nat, signals : BOOLEAN]
    BY <1>0, <1>2 DEF MemoryTypeOK, Remember, Stages
  <2> QED
    BY <1>0, <1>2, <2>3, <2>4, <2>5 DEF MemoryTypeOK, Remember
<1>3. ASSUME PublishScored PROVE MemoryTypeOK'
  <2>1. draft' \in [stage : Stages, score : Nat, signals : BOOLEAN]
    BY <1>0, <1>3 DEF MemoryTypeOK, PublishScored, Stages
  <2> QED
    BY <1>0, <1>3, <2>1 DEF MemoryTypeOK, PublishScored, signalVars
<1>4. ASSUME Return PROVE MemoryTypeOK'
  BY <1>0, <1>4 DEF MemoryTypeOK, Return, signalVars, Idle, Stages
<1>5. ASSUME HandleReaction PROVE MemoryTypeOK'
  <2> DEFINE event == PayloadAt("signals", cur["signals"])
  <2>1. event.type \in DOMAIN Weight /\ CountReaction(event) /\ UNCHANGED feed
    BY <1>5, ReactionInHand DEF HandleReaction
  <2>2. Weight[event.type] \in Int
    BY <2>1 DEF Weight
  <2> HIDE DEF event
  <2>3. tagWeights' \in [Tags -> Int]
    BY <1>0, <2>1, <2>2 DEF MemoryTypeOK, CountReaction
  <2>4. sourceWeights' \in [Sources -> Int]
    BY <1>0, <2>1, <2>2 DEF MemoryTypeOK, CountReaction
  <2> QED
    BY <1>0, <2>1, <2>3, <2>4 DEF MemoryTypeOK, CountReaction
<1>6. ASSUME UpsertScoredItem PROVE MemoryTypeOK'
  <2>1. PayloadAt("feed", cur["feed"]) \in ScoredEvents
    BY <1>6, ScoredInHand DEF UpsertScoredItem, HandleOk, HandleStep
  <2>2. feed' \subseteq ScoredEvents
    BY <1>0, <1>6, <2>1 DEF MemoryTypeOK, UpsertScoredItem
  <2> QED
    BY <1>0, <1>6, <2>2 DEF MemoryTypeOK, UpsertScoredItem, rankingVars, signalVars
<1>7. ASSUME NEW g \in Groups, FetchNext(g) \/ Commit(g) \/ Fail(g) \/ RestartProcess(g)
      PROVE  MemoryTypeOK'
  BY <1>7, <1>u, <1>f DEF FetchNext, Commit, Fail, RestartProcess
<1>8. ASSUME \/ \E a \in Articles, tags \in SUBSET Tags : PublishDiscovered(a, tags)
             \/ \E a \in Articles, type \in ReactionTypes : React(a, type)
      PROVE  MemoryTypeOK'
  BY <1>8, <1>u DEF PublishDiscovered, React
<1>9. ASSUME NEW g \in Groups, RejoinGroup(g) PROVE MemoryTypeOK'
  <2>1. rejoins' \in Nat
    BY <1>0, <1>9 DEF RejoinGroup, MemoryTypeOK
  <2> QED
    BY <1>0, <1>9, <2>1 DEF RejoinGroup, MemoryTypeOK, signalVars
<1>10. CASE UNCHANGED allVars
  BY <1>10, <1>u DEF allVars
<1> QED
  BY <1>1, <1>2, <1>3, <1>4, <1>5, <1>6, <1>7, <1>8, <1>9, <1>10 DEF RankingNext

(* Outside DiscoveredHandler.Handle there is no draft. *)
LEMMA DraftStep ==
    ASSUME ServiceInv, [RankingNext]_allVars
    PROVE  DraftInv'
<1> USE RankingAssumption
<1>0. DraftInv /\ TypeOK
  BY DEF ServiceInv
<1>p. ASSUME NEW t, NEW m, Publish(t, 0, m) PROVE UNCHANGED pc
  BY <1>p DEF Publish, loopVars
<1>1. ASSUME NEW a \in Articles, NEW tags \in SUBSET Tags, PublishDiscovered(a, tags)
      PROVE  DraftInv'
  BY <1>0, <1>1, <1>p DEF PublishDiscovered, DraftInv, rankingVars
<1>2. ASSUME NEW a \in Articles, NEW type \in ReactionTypes, React(a, type)
      PROVE  DraftInv'
  BY <1>0, <1>2, <1>p DEF React, DraftInv, rankingVars
<1>3. ASSUME PublishScored PROVE DraftInv'
  BY <1>0, <1>3, <1>p DEF PublishScored, DraftInv
<1>4. ASSUME NEW fresh \in Freshness, Score(fresh) PROVE DraftInv'
  BY <1>4 DEF Score, DraftInv, vars, loopVars
<1>5. ASSUME Remember PROVE DraftInv'
  BY <1>0, <1>5 DEF Remember, DraftInv, vars, loopVars
<1>6. ASSUME Return PROVE DraftInv'
  BY <1>6 DEF Return, DraftInv, Idle
<1>7. ASSUME HandleReaction PROVE DraftInv'
  <2>1. HandleOk("signals") /\ UNCHANGED draft
    BY <1>7, ReactionInHand DEF HandleReaction, CountReaction
  <2>2. pc'["ranking"] = pc["ranking"]
    BY <1>0, <2>1 DEF HandleOk, HandleStep, TypeOK
  <2> QED
    BY <1>0, <2>1, <2>2 DEF DraftInv
<1>8. ASSUME UpsertScoredItem PROVE DraftInv'
  <2>1. HandleOk("feed") /\ UNCHANGED draft
    BY <1>8 DEF UpsertScoredItem, rankingVars
  <2>2. pc'["ranking"] = pc["ranking"]
    BY <1>0, <2>1 DEF HandleOk, HandleStep, TypeOK
  <2> QED
    BY <1>0, <2>1, <2>2 DEF DraftInv
<1>9. ASSUME NEW g \in Groups, FetchNext(g) PROVE DraftInv'
  BY <1>0, <1>9 DEF FetchNext, Fetch, DraftInv, rankingVars, TypeOK
<1>10. ASSUME NEW g \in Groups, Commit(g) PROVE DraftInv'
  BY <1>0, <1>10 DEF Commit, CommitOk, DraftInv, rankingVars, TypeOK
<1>11. ASSUME NEW g \in Groups, RestartProcess(g) PROVE DraftInv'
  <2>1. pc[g] = "stopped"
    BY <1>11 DEF RestartProcess, Restart
  <2>2. ProcessOf[g] = ProcessOf["ranking"] => pc["ranking"] = "stopped"
    BY <2>1 DEF ServiceInv, StopTogether
  <2> QED
    BY <1>0, <1>11, <2>2 DEF RestartProcess, Restart, DraftInv, rankingVars
<1>12. ASSUME NEW g \in Groups, Fail(g) PROVE DraftInv'
  <2>1. StopProcess(g) /\ ForgetSignals(g)
    BY <1>12 DEF Fail, Stop, CommitUnanswered
  <2>2. CASE ProcessOf[g] = ProcessOf["ranking"]
    BY <2>1, <2>2 DEF ForgetSignals, DraftInv, Idle
  <2>3. CASE ProcessOf[g] # ProcessOf["ranking"]
    BY <1>0, <2>1, <2>3 DEF ForgetSignals, StopProcess, DraftInv, rankingVars
  <2> QED
    BY <2>2, <2>3
<1>13. ASSUME NEW g \in Groups, RejoinGroup(g) PROVE DraftInv'
  BY <1>0, <1>13 DEF RejoinGroup, Rejoin, DraftInv
<1>14. CASE UNCHANGED allVars
  BY <1>0, <1>14 DEF allVars, rankingVars, vars, loopVars, DraftInv
<1> QED
  BY <1>1, <1>2, <1>3, <1>4, <1>5, <1>6, <1>7, <1>8, <1>9, <1>10, <1>11, <1>12, <1>13, <1>14
     DEF RankingNext

-----------------------------------------------------------------------------
(* The inductive invariant of the services holds initially. *)
LEMMA ServiceInvInit ==
    ASSUME RankingInit
    PROVE  ServiceInv
<1> USE RankingAssumption
<1>1. Init
  BY DEF RankingInit
<1>2. TypeOK
  BY <1>1, LoopAssumption DEF Init, TypeOK, Coordinates, Places
<1>3. LoopInv
  BY <1>1, LoopInvInductive DEF SinglePartition
<1>4. StopTogether
  BY <1>1 DEF Init, StopTogether
<1>5. MemoryTypeOK
  BY DEF RankingInit, NewSignalStore, Idle, Stages, MemoryTypeOK
<1>6. log["discovered"][0] = << >> /\ log["reaction"][0] = << >> /\ log["scored"][0] = << >>
  BY <1>1 DEF Init
<1>7. EventsInv
  BY <1>6 DEF EventsInv
<1>8. DraftInv
  BY DEF RankingInit, Idle, DraftInv
<1> QED
  BY <1>2, <1>3, <1>4, <1>5, <1>7, <1>8 DEF ServiceInv

(* Every step of the services keeps their inductive invariant. *)
LEMMA ServiceInvStep ==
    ASSUME EventsAreMessages, ServiceInv, [RankingNext]_allVars
    PROVE  ServiceInv'
<1>1. [Next]_vars
  BY StepsAreLoopSteps
<1>2. TypeOK'
  BY <1>1, TypeInductive DEF ServiceInv
<1>3. LoopInv'
  BY <1>1, <1>2, LoopInvInductive, RankingAssumption DEF ServiceInv, SinglePartition
<1>4. StopTogether'
  BY <1>1, StopTogetherInductive DEF ServiceInv
<1> QED
  BY <1>2, <1>3, <1>4, MemoryTypeStep, EventsStep, DraftStep DEF ServiceInv

(* The inductive invariant is an invariant of the services. *)
LEMMA ServiceInvHolds ==
    ASSUME EventsAreMessages
    PROVE  RankingSpec => []ServiceInv
<1>1. RankingInit => ServiceInv
  BY ServiceInvInit
<1>2. ServiceInv /\ [RankingNext]_allVars => ServiceInv'
  BY ServiceInvStep
<1> QED
  BY <1>1, <1>2, PTL DEF RankingSpec

(* Everything ranking-service keeps in memory and every row of feed_items keeps its type:
   in particular a score is never negative and no reaction of an unknown type is met. *)
THEOREM RankingTypeCorrect ==
    ASSUME EventsAreMessages
    PROVE  RankingSpec => []RankingTypeOK
<1>1. ServiceInv => RankingTypeOK
  BY DEF ServiceInv, MemoryTypeOK, RankingTypeOK
<1> QED
  BY <1>1, ServiceInvHolds, PTL

(* The ranking and feed services implement the consumer loops with nothing poisonous, for
   all articles, tags and reaction types: no reaction that gateway-api publishes can
   stop ranking-service. *)
THEOREM RankingImplementsLoops ==
    ASSUME EventsAreMessages
    PROVE  RankingSpec => ImplementsLoops
<1>1. RankingInit => Init
  BY DEF RankingInit
<1>2. ServiceInv /\ [RankingNext]_allVars => [Next]_vars
  BY StepsAreLoopSteps
<1> QED
  BY <1>1, <1>2, ServiceInvHolds, PTL DEF RankingSpec, ImplementsLoops, Spec

-----------------------------------------------------------------------------
(* While DiscoveredHandler.Handle works, the event in its hand stays what it is. *)
LEMMA HandKeepsEvent ==
    ASSUME EventsAreMessages, ServiceInv, [RankingNext]_allVars,
           draft.stage # "idle", cur'["ranking"] = cur["ranking"]
    PROVE  PayloadAt("ranking", cur["ranking"])' = PayloadAt("ranking", cur["ranking"])
<1> USE RankingAssumption
<1>0. TypeOK /\ [Next]_vars /\ pc["ranking"] = "handle"
  BY StepsAreLoopSteps DEF ServiceInv, DraftInv
<1>1. /\ "ranking" \in Groups /\ "discovered" \in Topics
      /\ LogOf("ranking") = log["discovered"] /\ LogOf("ranking")' = log'["discovered"]
  BY DEF LogOf
<1>2. \A i \in DOMAIN LogOf("ranking")[0] : LogOf("ranking")[0][i] \in DiscoveredEvents
  BY <1>1 DEF ServiceInv, EventsInv
<1>3. /\ cur["ranking"].offset + 1 \in DOMAIN log["discovered"][0]
      /\ PayloadAt("ranking", cur["ranking"]) =
            log["discovered"][0][cur["ranking"].offset + 1]
  BY <1>0, <1>1, <1>2, OnePartition, EventInHand DEF ServiceInv
<1>4. cur["ranking"].partition = 0
  BY <1>0, LoopAssumption DEF TypeOK, Coordinates
<1> QED
  BY <1>0, <1>1, <1>3, <1>4, OnePartition, LogGrows DEF PayloadAt

(* While a published draft is on its way back to the loop, the event in hand stays the
   same, so its score stays in the log. *)
LEMMA PublishedStep ==
    ASSUME EventsAreMessages, ServiceInv, PublishedInv, [RankingNext]_allVars
    PROVE  PublishedInv'
<1> USE RankingAssumption
<1> DEFINE event == PayloadAt("ranking", cur["ranking"])
<1>0. TypeOK /\ [Next]_vars
  BY StepsAreLoopSteps DEF ServiceInv
<1>s. ASSUME UNCHANGED draft, cur'["ranking"] = cur["ranking"]
      PROVE  PublishedInv'
  <2> SUFFICES ASSUME draft.stage = "published" PROVE HasScore(event.article)'
    BY <1>s DEF PublishedInv
  <2>1. HasScore(event.article) /\ pc["ranking"] = "handle"
    BY DEF PublishedInv, ServiceInv, DraftInv
  <2>6. event' = event
    BY <1>s, <2>1, HandKeepsEvent
  <2> HIDE DEF event
  <2>7. HasScore(event.article)' <=> \E i \in DOMAIN log'["scored"][0] :
            log'["scored"][0][i].article = event.article
    BY <2>6 DEF HasScore
  <2>8. PICK i \in DOMAIN log["scored"][0] : log["scored"][0][i].article = event.article
    BY <2>1 DEF HasScore
  <2>9. i \in DOMAIN log'["scored"][0] /\ log'["scored"][0][i] = log["scored"][0][i]
    BY <1>0, <2>8, OnePartition, LogGrows
  <2> QED
    BY <2>7, <2>8, <2>9
<1>n. ASSUME draft'.stage # "published" PROVE PublishedInv'
  BY <1>n DEF PublishedInv
<1>1. ASSUME PublishScored PROVE PublishedInv'
  <2> DEFINE m == [article |-> event.article, score |-> draft.score,
                   signals |-> draft.signals]
  <2>1. log'["scored"][0] = Append(log["scored"][0], m)
    BY <1>0, <1>1, OnePartition, PublishedLog DEF PublishScored
  <2>2. log'["discovered"] = log["discovered"] /\ cur' = cur
    BY <1>0, <1>1, OnePartition, PublishedLog DEF PublishScored, Publish, loopVars
  <2>3. event' = event
    BY <2>2 DEF PayloadAt, LogOf
  <2>4. log["scored"][0] \in Seq(Messages)
    BY <1>0, LogTypes
  <2>5. m.article = event.article
    OBVIOUS
  <2> HIDE DEF m, event
  <2>6. /\ Len(log["scored"][0]) + 1 \in DOMAIN Append(log["scored"][0], m)
        /\ Append(log["scored"][0], m)[Len(log["scored"][0]) + 1] = m
    BY <2>4
  <2>7. \E i \in DOMAIN log'["scored"][0] : log'["scored"][0][i].article = event.article
    BY <2>1, <2>5, <2>6
  <2> QED
    BY <2>3, <2>7 DEF PublishedInv, HasScore, event
<1>2. ASSUME NEW fresh \in Freshness, Score(fresh) PROVE PublishedInv'
  BY <1>2, <1>n DEF Score
<1>3. ASSUME Remember PROVE PublishedInv'
  <2>1. draft'.stage = "remembered"
    BY <1>3 DEF Remember, ServiceInv, MemoryTypeOK
  <2> QED
    BY <2>1, <1>n
<1>4. ASSUME Return PROVE PublishedInv'
  BY <1>4, <1>n DEF Return, Idle
<1>5. ASSUME HandleReaction PROVE PublishedInv'
  BY <1>5, <1>s, ReactionInHand DEF HandleReaction, CountReaction, HandleOk, HandleStep
<1>6. ASSUME UpsertScoredItem PROVE PublishedInv'
  BY <1>6, <1>s DEF UpsertScoredItem, HandleOk, HandleStep, rankingVars
<1>7. ASSUME \/ \E a \in Articles, tags \in SUBSET Tags : PublishDiscovered(a, tags)
             \/ \E a \in Articles, type \in ReactionTypes : React(a, type)
      PROVE  PublishedInv'
  BY <1>7, <1>s DEF PublishDiscovered, React, Publish, loopVars, rankingVars
<1>8. ASSUME NEW g \in Groups, FetchNext(g) PROVE PublishedInv'
  <2>1. CASE g = "ranking"
    BY <1>8, <2>1, <1>n
       DEF FetchNext, Fetch, rankingVars, ServiceInv, DraftInv
  <2>2. CASE g # "ranking"
    BY <1>0, <1>8, <2>2, <1>s DEF FetchNext, Fetch, rankingVars, TypeOK
  <2> QED
    BY <2>1, <2>2
<1>9. ASSUME NEW g \in Groups, Commit(g) \/ RestartProcess(g) \/ RejoinGroup(g) PROVE PublishedInv'
  BY <1>9, <1>s DEF Commit, CommitOk, RestartProcess, RejoinGroup, Restart, Rejoin, rankingVars
<1>10. ASSUME NEW g \in Groups, Fail(g) PROVE PublishedInv'
  <2>1. ForgetSignals(g) /\ UNCHANGED cur
    BY <1>10 DEF Fail, Stop, CommitUnanswered
  <2>2. UNCHANGED draft \/ draft' = Idle
    BY <2>1 DEF ForgetSignals, rankingVars
  <2> QED
    BY <2>1, <2>2, <1>s, <1>n DEF Idle
<1>11. CASE UNCHANGED allVars
  BY <1>11, <1>s DEF allVars, rankingVars, vars, loopVars
<1> QED
  BY <1>1, <1>2, <1>3, <1>4, <1>5, <1>6, <1>7, <1>8, <1>9, <1>10, <1>11 DEF RankingNext

(* Every accepted discovered event keeps its score, and Return accepts one that has one. *)
LEMMA ScoredStep ==
    ASSUME EventsAreMessages, ServiceInv, PublishedInv, ScoredInv, [RankingNext]_allVars
    PROVE  ScoredInv'
<1> USE RankingAssumption
<1>0. TypeOK /\ LoopInv /\ [Next]_vars
  BY StepsAreLoopSteps DEF ServiceInv
<1>1. ASSUME NEW o \in Nat, o < Len(log["discovered"][0]),
             HasScore(log["discovered"][0][o + 1].article)
      PROVE  HasScore(log["discovered"][0][o + 1].article)'
  <2>1. o + 1 \in DOMAIN log["discovered"][0]
    BY <1>0, <1>1, LogTypes
  <2>2. log'["discovered"][0][o + 1] = log["discovered"][0][o + 1]
    BY <1>0, <2>1, OnePartition, LogGrows
  <2>3. PICK i \in DOMAIN log["scored"][0] :
          log["scored"][0][i].article = log["discovered"][0][o + 1].article
    BY <1>1 DEF HasScore
  <2>4. i \in DOMAIN log'["scored"][0] /\ log'["scored"][0][i] = log["scored"][0][i]
    BY <1>0, <2>3, OnePartition, LogGrows
  <2> QED
    BY <2>2, <2>3, <2>4 DEF HasScore
<1>2. \A o \in done["ranking"][0] : o \in Nat /\ o < Len(log["discovered"][0])
  BY <1>0, LoopAssumption DEF TypeOK, LoopInv, GroupInv, DoneInv, LogOf
<1>s. ASSUME done'["ranking"] = done["ranking"] PROVE ScoredInv'
  BY <1>s, <1>1, <1>2 DEF ScoredInv
<1>3. ASSUME Return PROVE ScoredInv'
  <2>0. PICK offset \in Nat : offset = cur["ranking"].offset
    BY <1>0 DEF TypeOK, Coordinates
  <2>1. /\ pc["ranking"] = "handle" /\ cur["ranking"].partition = 0
        /\ done'["ranking"][0] = done["ranking"][0] \union {offset}
    BY <1>0, <1>3, <2>0, LoopAssumption DEF Return, HandleOk, HandleStep, TypeOK, Coordinates
  <2>2. offset < Len(log["discovered"][0])
    BY <1>0, <2>0, <2>1 DEF LoopInv, GroupInv, HandleInv, LogOf
  <2>3. HasScore(log["discovered"][0][offset + 1].article)
    BY <1>3, <2>0, <2>1 DEF Return, PublishedInv, PayloadAt, LogOf
  <2>4. HasScore(log["discovered"][0][offset + 1].article)'
    BY <2>1, <2>2, <2>3, <1>1
  <2> QED
    BY <2>1, <2>4, <1>1, <1>2 DEF ScoredInv
<1>4. ASSUME PublishScored PROVE ScoredInv'
  BY <1>4, <1>s DEF PublishScored, Publish, loopVars
<1>5. ASSUME NEW fresh \in Freshness, Score(fresh) PROVE ScoredInv'
  BY <1>5, <1>s DEF Score, vars, loopVars
<1>6. ASSUME Remember PROVE ScoredInv'
  BY <1>6, <1>s DEF Remember, vars, loopVars
<1>7. ASSUME HandleReaction PROVE ScoredInv'
  <2>1. HandleOk("signals")
    BY <1>7, ReactionInHand DEF HandleReaction
  <2> QED
    BY <1>0, <2>1, <1>s DEF HandleOk, HandleStep, TypeOK
<1>8. ASSUME UpsertScoredItem PROVE ScoredInv'
  BY <1>0, <1>8, <1>s DEF UpsertScoredItem, HandleOk, HandleStep, TypeOK
<1>9. ASSUME \/ \E a \in Articles, tags \in SUBSET Tags : PublishDiscovered(a, tags)
             \/ \E a \in Articles, type \in ReactionTypes : React(a, type)
      PROVE  ScoredInv'
  BY <1>9, <1>s DEF PublishDiscovered, React, Publish, loopVars
<1>10. ASSUME NEW g \in Groups,
              \/ FetchNext(g) \/ Commit(g) \/ Fail(g) \/ RestartProcess(g) \/ RejoinGroup(g)
       PROVE  ScoredInv'
  BY <1>10, <1>s DEF FetchNext, Commit, Fail, RestartProcess, RejoinGroup, Fetch, CommitOk, Stop,
                     CommitUnanswered, Restart, Rejoin
<1>11. CASE UNCHANGED allVars
  BY <1>11, <1>s DEF allVars, vars, loopVars
<1> QED
  BY <1>3, <1>4, <1>5, <1>6, <1>7, <1>8, <1>9, <1>10, <1>11 DEF RankingNext

(* No discovered article is lost between the topics: every event the discovered loop has
   accepted, over any number of stops, has led to a scored event. *)
THEOREM NoScoreLost ==
    ASSUME EventsAreMessages
    PROVE  RankingSpec => []AcceptedIsScored
<1>1. RankingInit => PublishedInv /\ ScoredInv
  BY RankingAssumption DEF RankingInit, Init, Idle, PublishedInv, ScoredInv
<1>2. ServiceInv /\ PublishedInv /\ ScoredInv /\ [RankingNext]_allVars
        => PublishedInv' /\ ScoredInv'
  BY PublishedStep, ScoredStep
<1>3. ScoredInv => AcceptedIsScored
  BY DEF ScoredInv, HasScore, AcceptedIsScored
<1> QED
  BY <1>1, <1>2, <1>3, ServiceInvHolds, PTL DEF RankingSpec

-----------------------------------------------------------------------------
(* feed_items follows the log of scored events through every step: only ScoredHandler writes
   it, and it does so for the event in hand. *)
LEMMA FeedStep ==
    ASSUME EventsAreMessages, ServiceInv, FeedInv, [RankingNext]_allVars
    PROVE  FeedInv'
<1> USE RankingAssumption
<1>0. TypeOK /\ LoopInv /\ [Next]_vars
  BY StepsAreLoopSteps DEF ServiceInv
<1>l. /\ "feed" \in Groups /\ LogOf("feed")[0] = log["scored"][0]
      /\ LogOf("feed")'[0] = log'["scored"][0]
  BY DEF LogOf
<1>t. TableInv(LogOf("feed")[0], ArticleOf, feed, done["feed"][0], Through("feed"))
  BY <1>l DEF FeedInv
<1>u. ASSUME UNCHANGED feed, ~HandleOk("feed") PROVE FeedInv'
  BY <1>0, <1>l, <1>t, <1>u, OnePartition, TableUntouched DEF FeedInv
<1>1. ASSUME UpsertScoredItem PROVE FeedInv'
  <2> DEFINE event == PayloadAt("feed", cur["feed"])
  <2>1. /\ HandleOk("feed")
        /\ feed' = {row \in feed : row.article # event.article} \union {event}
    BY <1>1 DEF UpsertScoredItem
  <2>2. event \in ScoredEvents
    BY <2>1, ScoredInHand DEF HandleOk, HandleStep
  <2>3. \A row \in feed : row \in ScoredEvents
    BY DEF ServiceInv, MemoryTypeOK
  <2> HIDE DEF event
  <2>4. \A row \in feed : ArticleOf[row] = row.article /\ ArticleOf[event] = event.article
    BY <2>2, <2>3 DEF ArticleOf
  <2>5. feed' = {row \in feed : ArticleOf[row] # ArticleOf[event]} \union {event}
    BY <2>1, <2>4
  <2> QED
    BY <1>0, <1>l, <1>t, <2>1, <2>5, OnePartition, TableAccepts DEF FeedInv, event
<1>2. ASSUME \/ \E a \in Articles, tags \in SUBSET Tags : PublishDiscovered(a, tags)
             \/ \E a \in Articles, type \in ReactionTypes : React(a, type)
             \/ PublishScored
      PROVE  UNCHANGED feed /\ ~HandleOk("feed")
  BY <1>2, <1>0 DEF PublishDiscovered, React, PublishScored, Publish, loopVars, HandleOk,
                    HandleStep, TypeOK
<1>3. ASSUME (\E fresh \in Freshness : Score(fresh)) \/ Remember \/ UNCHANGED allVars
      PROVE  UNCHANGED feed /\ ~HandleOk("feed")
  BY <1>3, <1>0 DEF Score, Remember, allVars, vars, loopVars, HandleOk, HandleStep, TypeOK
<1>4. ASSUME Return PROVE UNCHANGED feed /\ ~HandleOk("feed")
  BY <1>4, <1>0 DEF Return, HandleOk, HandleStep, TypeOK
<1>5. ASSUME HandleReaction PROVE UNCHANGED feed /\ ~HandleOk("feed")
  <2>1. HandleOk("signals") /\ UNCHANGED feed
    BY <1>5, ReactionInHand DEF HandleReaction
  <2> QED
    BY <1>0, <2>1 DEF HandleOk, HandleStep, TypeOK
<1>6. ASSUME NEW g \in Groups, FetchNext(g) \/ Commit(g) \/ RestartProcess(g) \/ RejoinGroup(g)
      PROVE  UNCHANGED feed /\ ~HandleOk("feed")
  BY <1>6, <1>0 DEF FetchNext, Commit, RestartProcess, RejoinGroup, Fetch, CommitOk, Restart,
                    Rejoin, HandleOk, HandleStep, TypeOK
<1>7. ASSUME NEW g \in Groups, Fail(g)
      PROVE  UNCHANGED feed /\ ~HandleOk("feed")
  BY <1>7, <1>0 DEF Fail, Stop, CommitUnanswered, StopProcess, HandleOk, HandleStep, TypeOK
<1> QED
  BY <1>u, <1>1, <1>2, <1>3, <1>4, <1>5, <1>6, <1>7 DEF RankingNext

(* A feed loop that has caught up with its topic shows the last score of every article, for
   any number of articles, events, stops and redeliveries. *)
THEOREM CaughtUpFeedIsLatest ==
    ASSUME EventsAreMessages
    PROVE  RankingSpec => []FeedShowsLatest
<1>1. ASSUME RankingInit PROVE FeedInv
  <2>1. /\ log["scored"][0] = << >> /\ feed = {} /\ done["feed"][0] = {}
        /\ Through("feed") = 0
    BY <1>1, RankingAssumption DEF RankingInit, Init, Through
  <2> QED
    BY <2>1, TableStarts DEF FeedInv
<1>2. ServiceInv /\ FeedInv /\ [RankingNext]_allVars => FeedInv'
  BY FeedStep
<1>3. ASSUME ServiceInv, FeedInv PROVE FeedShowsLatest
  <2> SUFFICES ASSUME pc["feed"] = "fetch", position["feed"][0] = Len(log["scored"][0])
               PROVE  feed = Latest(log["scored"][0])
    BY DEF FeedShowsLatest
  <2>1. "feed" \in Groups /\ LogOf("feed")[0] = log["scored"][0]
    BY RankingAssumption DEF LogOf
  <2>2. feed = LastOfKeys(log["scored"][0], ArticleOf)
    BY <1>3, <2>1, OnePartition, TableOfCaughtUpLoop DEF ServiceInv, FeedInv
  <2>3. \A i \in DOMAIN log["scored"][0] :
          ArticleOf[log["scored"][0][i]] = log["scored"][0][i].article
    BY <1>3 DEF ServiceInv, EventsInv, ArticleOf
  <2> QED
    BY <2>2, <2>3 DEF LastOfKeys, Latest
<1> QED
  BY <1>1, <1>2, <1>3, ServiceInvHolds, PTL DEF RankingSpec

-----------------------------------------------------------------------------
(* Only the events of the given deliveries say what they are worth. *)
LEMMA SameWorth ==
    ASSUME NEW events, NEW more, NEW s, NEW deliveries,
           \A d \in deliveries : more[d[2] + 1] = events[d[2] + 1]
    PROVE  Worth(more, s, deliveries) = Worth(events, s, deliveries)
<1>1. ASSUME NEW sign PROVE Points(more, s, deliveries, sign) = Points(events, s, deliveries, sign)
  BY DEF Points, DeliveredEvent
<1> QED
  BY <1>1 DEF Worth

(* No reactions are worth nothing. *)
LEMMA NoWorth ==
    ASSUME NEW events, NEW s
    PROVE  Worth(events, s, {}) = 0
<1>1. Points(events, s, {}, 1) = {} /\ Points(events, s, {}, -1) = {}
  BY DEF Points
<1> QED
  BY <1>1, FS_EmptySet DEF Worth

(* The points of one more delivery of a reaction to an article of s are added to those of the others. *)
LEMMA PointsOfOneMore ==
    ASSUME NEW events, NEW s, NEW deliveries, IsFiniteSet(deliveries), NEW d, d \notin deliveries,
           \A q \in deliveries \union {d} : DeliveredEvent(events, q).type \in DOMAIN Weight,
           NEW sign \in {1, -1}
    PROVE  LET n == Cardinality(Points(events, s, deliveries, sign))
               k == sign * Weight[DeliveredEvent(events, d).type]
           IN  /\ n \in Nat
               /\ Cardinality(Points(events, s, deliveries \union {d}, sign)) =
                     n + IF SourceOf[DeliveredEvent(events, d).article] = s /\ k > 0 THEN k ELSE 0
<1> DEFINE k == sign * Weight[DeliveredEvent(events, d).type]
           old == Points(events, s, deliveries, sign)
           new == {d} \X (1..k)
<1>1. \A q \in deliveries \union {d} :
        /\ sign * Weight[DeliveredEvent(events, q).type] \in Int
        /\ sign * Weight[DeliveredEvent(events, q).type] <= 8
  BY DEF Weight
<1>2. k \in Int
  BY <1>1
<1>3. IsFiniteSet(old) /\ Cardinality(old) \in Nat
  <2>1. \A q \in deliveries : 1..(sign * Weight[DeliveredEvent(events, q).type]) \subseteq 1..8
    BY <1>1
  <2>2. old \subseteq deliveries \X (1..8)
    BY <2>1 DEF Points
  <2>3. IsFiniteSet(deliveries \X (1..8))
    <3>1. PICK most \in Int : most = 8
      OBVIOUS
    <3>2. IsFiniteSet(1..most)
      BY FS_Interval
    <3> QED
      BY <3>1, <3>2, FS_Product
  <2> QED
    BY <2>2, <2>3, FS_Subset, FS_CardinalityType
<1>4. IsFiniteSet(new) /\ Cardinality(new) = IF k > 0 THEN k ELSE 0
  <2>1. IsFiniteSet({d}) /\ Cardinality({d}) = 1
    BY FS_Singleton
  <2>2. IsFiniteSet(1..k) /\ Cardinality(1..k) = IF 1 > k THEN 0 ELSE k - 1 + 1
    BY <1>2, FS_Interval
  <2>3. Cardinality(1..k) = IF k > 0 THEN k ELSE 0
    BY <1>2, <2>2
  <2>4. IsFiniteSet(new) /\ Cardinality(new) = Cardinality({d}) * Cardinality(1..k)
    BY <2>1, <2>2, FS_Product
  <2> HIDE DEF new, k
  <2> QED
    BY <1>2, <2>1, <2>3, <2>4
<1>5. CASE SourceOf[DeliveredEvent(events, d).article] = s
  <2>1. Points(events, s, deliveries \union {d}, sign) = old \union new
    BY <1>5 DEF Points
  <2>2. old \intersect new = {}
    BY DEF Points
  <2> HIDE DEF old, new, k
  <2>3. Cardinality(old \union new) =
          Cardinality(old) + Cardinality(new) - Cardinality(old \intersect new)
    BY <1>3, <1>4, FS_Union
  <2>5. Cardinality(old \intersect new) = 0
    BY <2>2, FS_EmptySet
  <2>4. Cardinality(old \union new) = Cardinality(old) + IF k > 0 THEN k ELSE 0
    BY <1>2, <1>3, <1>4, <2>3, <2>5
  <2> QED
    BY <1>3, <1>5, <2>1, <2>4 DEF old, k
<1>6. CASE SourceOf[DeliveredEvent(events, d).article] # s
  <2>1. Points(events, s, deliveries \union {d}, sign) = old
    BY <1>6 DEF Points
  <2> QED
    BY <1>3, <1>6, <2>1
<1> QED
  BY <1>5, <1>6

(* One more delivery changes what its source is worth by its weight, and no other source. *)
LEMMA WorthOfOneMore ==
    ASSUME NEW events, NEW s, NEW deliveries, IsFiniteSet(deliveries),
           NEW d, d \notin deliveries,
           \A q \in deliveries \union {d} : DeliveredEvent(events, q).type \in DOMAIN Weight
    PROVE  Worth(events, s, deliveries \union {d}) =
              Worth(events, s, deliveries) +
              IF SourceOf[DeliveredEvent(events, d).article] = s THEN Weight[DeliveredEvent(events, d).type] ELSE 0
<1> DEFINE w == Weight[DeliveredEvent(events, d).type]
           mine == SourceOf[DeliveredEvent(events, d).article] = s
           gain == Cardinality(Points(events, s, deliveries, 1))
           loss == Cardinality(Points(events, s, deliveries, -1))
<1>1. w \in Int
  BY DEF Weight
<1>2. /\ gain \in Nat
      /\ Cardinality(Points(events, s, deliveries \union {d}, 1)) =
            gain + IF mine /\ 1 * w > 0 THEN 1 * w ELSE 0
  BY PointsOfOneMore
<1>3. /\ loss \in Nat
      /\ Cardinality(Points(events, s, deliveries \union {d}, -1)) =
            loss + IF mine /\ (-1) * w > 0 THEN (-1) * w ELSE 0
  BY PointsOfOneMore
<1>4. /\ Worth(events, s, deliveries) = gain - loss
      /\ Worth(events, s, deliveries \union {d}) =
            Cardinality(Points(events, s, deliveries \union {d}, 1))
            - Cardinality(Points(events, s, deliveries \union {d}, -1))
  BY DEF Worth
<1>5. mine \in BOOLEAN
  OBVIOUS
<1> HIDE DEF w, gain, loss, mine
<1>6. Worth(events, s, deliveries \union {d}) = gain - loss + IF mine THEN w ELSE 0
  <2>1. CASE mine /\ w > 0
    BY <1>1, <1>2, <1>3, <1>4, <2>1
  <2>2. CASE mine /\ ~(w > 0)
    BY <1>1, <1>2, <1>3, <1>4, <2>2
  <2>3. CASE ~mine
    BY <1>1, <1>2, <1>3, <1>4, <2>3
  <2> QED
    BY <1>5, <2>1, <2>2, <2>3
<1> QED
  BY <1>4, <1>6 DEF w, mine

-----------------------------------------------------------------------------
(* As long as nothing has stopped, ranking-service knows every article it has scored: the
   handler remembers it before it publishes, and the feed shows nothing else. *)
LEMMA KnownStep ==
    ASSUME EventsAreMessages, ServiceInv, KnownInv, [RankingNext]_allVars
    PROVE  KnownInv'
<1> USE RankingAssumption
<1>0. TypeOK /\ LoopInv /\ MemoryTypeOK /\ DraftInv /\ [Next]_vars
  BY StepsAreLoopSteps DEF ServiceInv
<1>h. ASSUME draft'.stage \in {"remembered", "published"} =>
                draft'.stage = draft.stage /\ cur'["ranking"] = cur["ranking"],
             knownSources \subseteq knownSources', HandKnown
      PROVE  HandKnown'
  BY <1>h, HandKeepsEvent DEF HandKnown
<1>k. ASSUME failures' = failures, UNCHANGED <<log, feed>>,
             knownSources \subseteq knownSources',
             HandKnown => HandKnown'
      PROVE  KnownInv'
  <2>1. /\ ScoredKnown => ScoredKnown'
        /\ FeedKnown => FeedKnown'
    BY <1>k DEF ScoredKnown, FeedKnown
  <2>2. ShownKnown => ShownKnown'
    BY <1>k DEF ShownKnown, Recallable
  <2> QED
    BY <1>k, <2>1, <2>2 DEF KnownInv
<1>1. ASSUME NEW a \in Articles, NEW tags \in SUBSET Tags, PublishDiscovered(a, tags)
      PROVE  KnownInv'
  <2>1. UNCHANGED <<failures, cur, draft, knownSources, feed>>
    BY <1>1 DEF PublishDiscovered, Publish, loopVars, rankingVars, signalVars
  <2>2. log'["scored"] = log["scored"] /\ log'["reaction"] = log["reaction"]
    BY <1>0, <1>1, OnePartition, PublishedLog DEF PublishDiscovered
  <2>3. /\ ScoredKnown => ScoredKnown'
        /\ FeedKnown => FeedKnown'
        /\ ShownKnown => ShownKnown'
    BY <2>1, <2>2 DEF ScoredKnown, FeedKnown, ShownKnown, Recallable
  <2>4. HandKnown => HandKnown'
    BY <2>1, <1>h
  <2> QED
    BY <2>1, <2>3, <2>4 DEF KnownInv
<1>2. ASSUME NEW a \in Articles, NEW type \in ReactionTypes, React(a, type)
      PROVE  KnownInv'
  <2> DEFINE m == [article |-> a, type |-> type, shown |-> Shown(a)]
  <2>1. UNCHANGED <<failures, cur, draft, knownSources, feed>>
    BY <1>2 DEF React, Publish, loopVars, rankingVars, signalVars
  <2>2. /\ log'["scored"] = log["scored"]
        /\ log'["reaction"][0] = Append(log["reaction"][0], m)
    BY <1>0, <1>2, OnePartition, PublishedLog DEF React
  <2>3. m \in ReactionEvents /\ m \in Messages
    BY DEF EventsAreMessages, ReactionEvents, Shown
  <2>4. FeedKnown => m \in Recallable
    BY <2>3 DEF FeedKnown, Shown, Recallable
  <2>5. ShownKnown => \A i \in DOMAIN log["reaction"][0] : log["reaction"][0][i] \in Recallable
    BY DEF ShownKnown
  <2> HIDE DEF m
  <2>6. ShownKnown /\ FeedKnown =>
          \A i \in DOMAIN log'["reaction"][0] : log'["reaction"][0][i] \in Recallable
    BY <1>0, <2>2, <2>3, <2>4, <2>5, LogTypes, AppendedEvents
  <2>7. /\ ScoredKnown => ScoredKnown'
        /\ FeedKnown => FeedKnown'
        /\ ShownKnown /\ FeedKnown => ShownKnown'
    BY <2>1, <2>2, <2>6 DEF ScoredKnown, FeedKnown, ShownKnown, Recallable
  <2>8. HandKnown => HandKnown'
    BY <2>1, <1>h
  <2> QED
    BY <2>1, <2>7, <2>8 DEF KnownInv
<1>3. ASSUME Remember PROVE KnownInv'
  <2>1. UNCHANGED <<failures, cur, log, feed>>
    BY <1>3 DEF Remember, vars, loopVars
  <2>2. /\ knownSources' = knownSources \union {PayloadAt("ranking", cur["ranking"]).article}
        /\ draft.stage # "idle"
    BY <1>3 DEF Remember
  <2>3. PayloadAt("ranking", cur["ranking"])' = PayloadAt("ranking", cur["ranking"])
    BY <2>1, <2>2, HandKeepsEvent
  <2>4. HandKnown'
    BY <2>2, <2>3 DEF HandKnown
  <2> QED
    BY <2>1, <2>2, <2>4, <1>k
<1>4. ASSUME PublishScored PROVE KnownInv'
  <2> DEFINE event == PayloadAt("ranking", cur["ranking"])
             m == [article |-> event.article, score |-> draft.score,
                   signals |-> draft.signals]
             Known == {e \in Messages : e.article \in knownSources}
  <2>1. /\ UNCHANGED <<failures, cur, knownSources, feed>>
        /\ draft.stage = "remembered"
    BY <1>4 DEF PublishScored, Publish, loopVars, signalVars
  <2>2. /\ log'["reaction"] = log["reaction"]
        /\ log'["scored"][0] = Append(log["scored"][0], m)
    BY <1>0, <1>4, OnePartition, PublishedLog DEF PublishScored
  <2>3. event \in DiscoveredEvents
    BY <1>0, <2>1, DiscoveredInHand DEF DraftInv
  <2>4. event' = event
    BY <2>1, HandKeepsEvent
  <2>5. m \in Messages
    BY <1>0, <2>3 DEF MemoryTypeOK, EventsAreMessages, ScoredEvents, DiscoveredEvents
  <2>6. m.article = event.article
    OBVIOUS
  <2>7. HandKnown => event.article \in knownSources
    BY <2>1 DEF HandKnown
  <2> HIDE DEF m, event
  <2>8. \A i \in DOMAIN log["scored"][0] : log["scored"][0][i] \in Messages
    BY <1>0, LogTypes
  <2>9. HandKnown /\ ScoredKnown =>
          \A i \in DOMAIN log'["scored"][0] : log'["scored"][0][i] \in Known
    <3>1. HandKnown /\ ScoredKnown =>
            m \in Known /\ \A i \in DOMAIN log["scored"][0] : log["scored"][0][i] \in Known
      BY <2>5, <2>6, <2>7, <2>8 DEF ScoredKnown
    <3> HIDE DEF Known
    <3> QED
      BY <1>0, <2>2, <2>5, <3>1, LogTypes, AppendedEvents
  <2>10. HandKnown /\ ScoredKnown => ScoredKnown'
    BY <2>1, <2>9 DEF ScoredKnown
  <2>11. HandKnown => HandKnown'
    BY <2>1, <2>4, <2>7 DEF HandKnown, event
  <2> QED
    BY <2>1, <2>2, <2>10, <2>11 DEF KnownInv, FeedKnown, ShownKnown, Recallable
<1>5. ASSUME Return PROVE KnownInv'
  <2>1. UNCHANGED <<failures, log, feed, knownSources>> /\ draft' = Idle
    BY <1>5 DEF Return, HandleOk, HandleStep, signalVars
  <2> QED
    BY <2>1, <1>k DEF HandKnown, Idle
<1>6. ASSUME HandleReaction PROVE KnownInv'
  <2>1. /\ UNCHANGED <<failures, log, feed, knownSources, draft, cur>>
    BY <1>6, ReactionInHand DEF HandleReaction, CountReaction, HandleOk, HandleStep
  <2> QED
    BY <2>1, <1>h, <1>k
<1>7. ASSUME UpsertScoredItem PROVE KnownInv'
  <2> DEFINE event == PayloadAt("feed", cur["feed"])
  <2>1. /\ UNCHANGED <<failures, log, knownSources, draft, cur>>
        /\ \A row \in feed' : row \in feed \/ row = event
    BY <1>7 DEF UpsertScoredItem, HandleOk, HandleStep, rankingVars, signalVars
  <2>2. pc["feed"] = "handle" /\ "feed" \in Groups /\ LogOf("feed") = log["scored"]
    BY <1>7 DEF UpsertScoredItem, HandleOk, HandleStep, LogOf
  <2>3. \A i \in DOMAIN LogOf("feed")[0] : LogOf("feed")[0][i] \in ScoredEvents
    BY <2>2 DEF ServiceInv, EventsInv
  <2>4. \E i \in DOMAIN log["scored"][0] : event = log["scored"][0][i]
    BY <1>0, <2>2, <2>3, OnePartition, EventInHand
  <2>5. ScoredKnown /\ FeedKnown => FeedKnown'
    BY <2>1, <2>4 DEF ScoredKnown, FeedKnown
  <2> QED
    BY <2>1, <2>5, <1>h DEF KnownInv, ScoredKnown, ShownKnown, Recallable
<1>8. ASSUME NEW fresh \in Freshness, Score(fresh) PROVE KnownInv'
  <2>1. UNCHANGED <<failures, log, feed, knownSources>> /\ draft'.stage = "scored"
    BY <1>8 DEF Score, vars, loopVars, signalVars
  <2> QED
    BY <2>1, <1>k DEF HandKnown
<1>9. ASSUME NEW g \in Groups, FetchNext(g) PROVE KnownInv'
  <2>1. UNCHANGED <<failures, log, feed, knownSources, draft>>
    BY <1>9 DEF FetchNext, Fetch, rankingVars, signalVars
  <2>2. draft.stage # "idle" => cur'["ranking"] = cur["ranking"]
    BY <1>0, <1>9 DEF FetchNext, Fetch, DraftInv, TypeOK
  <2>3. draft.stage \in {"remembered", "published"} => cur'["ranking"] = cur["ranking"]
    BY <2>2
  <2> QED
    BY <2>1, <2>3, <1>h, <1>k
<1>10. ASSUME NEW g \in Groups, Commit(g) \/ RestartProcess(g) PROVE KnownInv'
  <2>1. UNCHANGED <<failures, log, feed, knownSources, draft, cur>>
    BY <1>10 DEF Commit, CommitOk, RestartProcess, Restart, rankingVars, signalVars
  <2> QED
    BY <2>1, <1>h, <1>k
<1>11. ASSUME NEW g \in Groups, Fail(g) \/ RejoinGroup(g) PROVE KnownInv'
  <2>1. failures \in Nat /\ failures' = failures + 1
    BY <1>0, <1>11 DEF Fail, Stop, CommitUnanswered, RejoinGroup, Rejoin, TypeOK
  <2> QED
    BY <2>1 DEF KnownInv
<1>12. CASE UNCHANGED allVars
  <2>1. UNCHANGED <<failures, log, feed, knownSources, draft, cur>>
    BY <1>12 DEF allVars, rankingVars, signalVars, vars, loopVars
  <2> QED
    BY <2>1, <1>h, <1>k
<1> QED
  BY <1>1, <1>2, <1>3, <1>4, <1>5, <1>6, <1>7, <1>8, <1>9, <1>10, <1>11, <1>12
     DEF RankingNext

(* The weights stay what a set of deliveries is worth: a delivery is added when its handler
   accepts it, a rejoin begins a pass that has none, and the end of the process forgets the
   weights with all deliveries. *)
LEMMA CountStep ==
    ASSUME EventsAreMessages, ServiceInv, KnownInv, CountInv, [RankingNext]_allVars
    PROVE  CountInv'
<1> USE RankingAssumption
<1>0. TypeOK /\ LoopInv /\ MemoryTypeOK /\ EventsInv /\ [Next]_vars
  BY StepsAreLoopSteps DEF ServiceInv
<1>1. PICK counted \in SUBSET (Nat \X Nat) : CountedInv(counted) /\ HandInv(counted)
  BY DEF CountInv
<1>2. /\ "signals" \in Groups /\ "reaction" \in Topics
      /\ LogOf("signals") = log["reaction"]
      /\ log["reaction"][0] \in Seq(Messages) /\ Len(log["reaction"][0]) \in Nat
  BY <1>0, LogTypes DEF LogOf
<1>3. \A o \in done["signals"][0] : o \in Nat /\ o + 1 \in DOMAIN log["reaction"][0]
  <2>1. \A o \in done["signals"][0] : o \in Nat /\ o < Len(log["reaction"][0])
    BY <1>0, <1>2, LoopAssumption DEF TypeOK, LoopInv, GroupInv, DoneInv
  <2> QED
    BY <1>2, <2>1
<1>4. \A o \in done["signals"][0] : log'["reaction"][0][o + 1] = log["reaction"][0][o + 1]
  BY <1>0, <1>2, <1>3, OnePartition, LogGrows
<1>5. \A s : Worth(log'["reaction"][0], s, counted) = Worth(log["reaction"][0], s, counted)
  <2>1. PICK events, more : events = log["reaction"][0] /\ more = log'["reaction"][0]
    OBVIOUS
  <2>2. \A d \in counted : more[d[2] + 1] = events[d[2] + 1]
    BY <1>1, <1>4, <2>1 DEF CountedInv
  <2>3. \A s : Worth(more, s, counted) = Worth(events, s, counted)
    BY <2>2, SameWorth
  <2> QED
    BY <2>1, <2>3
<1>n. /\ rejoins \in Nat /\ position["signals"][0] \in Nat
      /\ cur["signals"].offset \in Nat /\ cur["signals"].partition = 0
      /\ TypeOK'
  <2>1. TypeOK'
    BY <1>0, TypeInductive
  <2>2. rejoins \in Nat
    BY <1>0 DEF MemoryTypeOK
  <2>3. /\ position["signals"] \in [Partitions -> Nat]
        /\ cur["signals"].offset \in Nat /\ cur["signals"].partition \in Partitions
    BY <1>0, <1>2 DEF TypeOK, Coordinates
  <2> QED
    BY <2>1, <2>2, <2>3, OnePartition
<1>k. ASSUME UNCHANGED <<sourceWeights, rejoins>>, done'["signals"] = done["signals"],
             position'["signals"] = position["signals"],
             pc'["signals"] = "stopped" => pc["signals"] = "stopped",
             failures' = 0 => failures = 0
      PROVE  CountedInv(counted)' /\ (failures' = 0 => rejoins' = 0)
  <2>1. /\ IsFiniteSet(counted) /\ counted \subseteq Passes' \X done'["signals"][0]
        /\ \A d \in counted : d[1] = rejoins' => d[2] < position'["signals"][0]
        /\ pc'["signals"] = "stopped" => counted = {}
    BY <1>1, <1>k DEF CountedInv, Passes
  <2>2. \A s \in Sources : sourceWeights'[s] = Worth(log'["reaction"][0], s, counted)
    BY <1>1, <1>5, <1>k DEF CountedInv
  <2>3. failures' = 0 => \A o \in done'["signals"][0] :
            log'["reaction"][0][o + 1].shown => <<0, o>> \in counted
    BY <1>1, <1>4, <1>k DEF CountedInv
  <2> QED
    BY <1>k, <2>1, <2>2, <2>3 DEF CountedInv, CountInv
<1>h. ASSUME UNCHANGED rejoins, cur'["signals"] = cur["signals"],
             position'["signals"] = position["signals"],
             pc'["signals"] = "handle" => pc["signals"] = "handle"
      PROVE  HandInv(counted)'
  BY <1>1, <1>h DEF HandInv, InHandSince, Passes
<1>q. ASSUME CountedInv(counted)', HandInv(counted)', failures' = 0 => rejoins' = 0
      PROVE  CountInv'
  BY <1>q DEF CountInv
<1>6. ASSUME NEW g \in Groups, Fail(g) PROVE CountInv'
  <2>1. /\ StopProcess(g) /\ ForgetSignals(g) /\ failures' = failures + 1
        /\ UNCHANGED <<position, cur, done>>
    BY <1>6 DEF Fail, Stop, CommitUnanswered
  <2>2. failures \in Nat /\ failures' # 0
    BY <1>0, <2>1 DEF TypeOK
  <2>3. CASE ProcessOf[g] = ProcessOf["ranking"]
    <3>1. sourceWeights' = NewSignalStore.sourceWeights /\ pc'["signals"] = "stopped"
      BY <2>1, <2>3 DEF ForgetSignals, StopProcess
    <3>2. \A s \in Sources : sourceWeights'[s] = 0
      BY <3>1 DEF NewSignalStore
    <3>3. CountedInv({})'
      <4>1. IsFiniteSet({})
        BY FS_EmptySet
      <4> QED
        BY <2>2, <3>2, <4>1, NoWorth DEF CountedInv
    <3>4. HandInv({})'
      BY <3>1 DEF HandInv
    <3> QED
      BY <2>2, <3>3, <3>4 DEF CountInv
  <2>4. CASE ProcessOf[g] # ProcessOf["ranking"]
    <3>1. UNCHANGED <<sourceWeights, rejoins>>
      BY <2>1, <2>4 DEF ForgetSignals, rankingVars, signalVars
    <3>2. pc'["signals"] = pc["signals"]
      BY <2>1, <2>4 DEF StopProcess
    <3> QED
      BY <2>1, <2>2, <3>1, <3>2, <1>k, <1>h, <1>q
  <2> QED
    BY <2>3, <2>4
<1>7. ASSUME NEW g \in Groups, RestartProcess(g) PROVE CountInv'
  <2>1. /\ UNCHANGED <<sourceWeights, rejoins, done, failures, cur>> /\ pc[g] = "stopped"
    BY <1>7 DEF RestartProcess, Restart, rankingVars, signalVars
  <2>2. CASE ProcessOf[g] = ProcessOf["signals"]
    <3>1. pc["signals"] = "stopped" /\ pc'["signals"] = "fetch"
      BY <1>2, <1>7, <2>1, <2>2 DEF ServiceInv, StopTogether, RestartProcess, Restart
    <3>2. counted = {}
      BY <1>1, <3>1 DEF CountedInv
    <3>3. CountedInv(counted)'
      BY <1>1, <1>4, <1>5, <2>1, <3>2 DEF CountedInv
    <3>4. HandInv(counted)'
      BY <3>1 DEF HandInv
    <3> QED
      BY <2>1, <3>3, <3>4, <1>q DEF CountInv
  <2>3. CASE ProcessOf[g] # ProcessOf["signals"]
    <3>1. pc'["signals"] = pc["signals"] /\ position'["signals"] = position["signals"]
      BY <1>2, <1>7, <2>3 DEF RestartProcess, Restart
    <3> QED
      BY <2>1, <3>1, <1>k, <1>h, <1>q
  <2> QED
    BY <2>2, <2>3
<1>8. ASSUME NEW g \in Groups, FetchNext(g) PROVE CountInv'
  <2>1. UNCHANGED <<sourceWeights, rejoins, done, failures>> /\ Fetch(g, 0)
    BY <1>8 DEF FetchNext, Fetch, rankingVars, signalVars
  <2>2. CASE g = "signals"
    <3>1. /\ position'["signals"][0] = position["signals"][0] + 1
          /\ cur'["signals"].offset = position["signals"][0]
          /\ pc'["signals"] = "handle"
      BY <1>0, <2>1, <2>2 DEF Fetch, TypeOK
    <3>2. \A d \in counted : d[1] = rejoins => d[2] < position["signals"][0] + 1
      BY <1>1, <1>n DEF CountedInv
    <3>3. CountedInv(counted)'
      BY <1>1, <1>4, <1>5, <2>1, <3>1, <3>2 DEF CountedInv, Passes
    <3>4. <<rejoins, position["signals"][0]>> \notin counted
      BY <1>1, <1>n DEF CountedInv
    <3>5. rejoins \in Passes
      BY <1>n DEF Passes
    <3>6. InHandSince(counted, rejoins)'
      BY <1>n, <2>1, <3>1, <3>4, <3>5 DEF InHandSince, Passes
    <3> QED
      BY <1>n, <2>1, <3>3, <3>6, <1>q DEF HandInv, CountInv
  <2>3. CASE g # "signals"
    <3>1. /\ pc'["signals"] = pc["signals"] /\ position'["signals"] = position["signals"]
          /\ cur'["signals"] = cur["signals"]
      BY <1>0, <2>1, <2>3 DEF Fetch, TypeOK
    <3> QED
      BY <2>1, <3>1, <1>k, <1>h, <1>q
  <2> QED
    BY <2>2, <2>3
<1>9. ASSUME NEW g \in Groups, Commit(g) PROVE CountInv'
  <2>1. UNCHANGED <<sourceWeights, rejoins, done, failures, position, cur>> /\ CommitOk(g)
    BY <1>9 DEF Commit, CommitOk, rankingVars, signalVars
  <2>2. pc'["signals"] \in {pc["signals"], "fetch"}
    BY <1>0, <1>2, <2>1 DEF CommitOk, TypeOK
  <2> QED
    BY <2>1, <2>2, <1>k, <1>h, <1>q
<1>10. ASSUME \/ \E a \in Articles, tags \in SUBSET Tags : PublishDiscovered(a, tags)
              \/ \E a \in Articles, type \in ReactionTypes : React(a, type)
              \/ \E fresh \in Freshness : Score(fresh)
              \/ Remember \/ PublishScored \/ UNCHANGED allVars
       PROVE  CountInv'
  <2>1. UNCHANGED <<sourceWeights, rejoins, done, failures, position, cur, pc>>
    BY <1>10 DEF PublishDiscovered, React, Score, Remember, PublishScored, Publish,
                 allVars, vars, loopVars, rankingVars, signalVars
  <2> QED
    BY <2>1, <1>k, <1>h, <1>q
<1>11. ASSUME Return \/ UpsertScoredItem PROVE CountInv'
  <2>1. UNCHANGED <<sourceWeights, rejoins, failures, position, cur>>
    BY <1>11 DEF Return, UpsertScoredItem, HandleOk, HandleStep, rankingVars, signalVars
  <2>2. pc'["signals"] = pc["signals"] /\ done'["signals"] = done["signals"]
    BY <1>0, <1>11 DEF Return, UpsertScoredItem, HandleOk, HandleStep, TypeOK
  <2> QED
    BY <2>1, <2>2, <1>k, <1>h, <1>q
<1>12. ASSUME NEW g \in Groups, RejoinGroup(g) PROVE CountInv'
  <2>1. /\ UNCHANGED <<sourceWeights, log, done, cur, pc>>
        /\ failures' = failures + 1 /\ failures' # 0
    BY <1>0, <1>12 DEF RejoinGroup, Rejoin, signalVars, TypeOK
  <2>2. CASE g = "signals"
    <3>1. rejoins' = rejoins + 1 /\ Passes' = 0..(rejoins + 1)
      BY <1>12, <2>2 DEF RejoinGroup, Passes
    <3>2. \A d \in counted : d[1] \in 0..rejoins /\ d \in Passes' \X done'["signals"][0]
      BY <1>1, <1>n, <2>1, <3>1 DEF CountedInv, Passes
    <3>3. \A d \in counted : d[1] # rejoins'
      BY <1>n, <3>1, <3>2
    <3>4. CountedInv(counted)'
      BY <1>1, <2>1, <3>2, <3>3 DEF CountedInv
    <3>5. ASSUME NEW pass \in Nat, InHandSince(counted, pass) PROVE InHandSince(counted, pass)'
      <4>1. pass \in 0..rejoins
        BY <3>5 DEF InHandSince, Passes
      <4>2. pass \in Passes' /\ pass # rejoins'
        BY <1>n, <3>1, <4>1
      <4> QED
        BY <2>1, <3>5, <4>2 DEF InHandSince
    <3>6. HandInv(counted)'
      BY <1>1, <2>1, <3>5 DEF HandInv
    <3> QED
      BY <2>1, <3>4, <3>6, <1>q DEF CountInv
  <2>3. CASE g # "signals"
    <3>1. UNCHANGED rejoins /\ position'["signals"] = position["signals"]
      BY <1>0, <1>2, <1>12, <2>3 DEF RejoinGroup, Rejoin, TypeOK
    <3> QED
      BY <2>1, <3>1, <1>k, <1>h, <1>q
  <2> QED
    BY <2>2, <2>3
<1>13. ASSUME HandleReaction PROVE CountInv'
  <2> DEFINE event == PayloadAt("signals", cur["signals"])
             events == log["reaction"][0]
  <2>1. HandleOk("signals") /\ CountReaction(event) /\ pc["signals"] = "handle"
    BY <1>13, ReactionInHand DEF HandleReaction
  <2>2. UNCHANGED <<log, failures, position, cur, rejoins>>
    BY <2>1 DEF HandleOk, HandleStep, CountReaction
  <2>3. PICK offset \in Nat : offset = cur["signals"].offset
    BY <1>n
  <2>4. /\ pc'["signals"] = "commit"
        /\ done'["signals"][0] = done["signals"][0] \union {offset}
    BY <1>0, <1>2, <1>n, <2>1, <2>3 DEF HandleOk, HandleStep, TypeOK
  <2>5. offset + 1 \in DOMAIN events /\ event = events[offset + 1]
    <3>1. \A i \in DOMAIN LogOf("signals")[0] : LogOf("signals")[0][i] \in ReactionEvents
      BY <1>0, <1>2 DEF EventsInv
    <3> QED
      BY <1>0, <1>2, <2>1, <2>3, <3>1, OnePartition, EventInHand
  <2>6. PICK pass \in Nat : InHandSince(counted, pass)
    BY <1>1, <2>1 DEF HandInv
  <2> DEFINE d == <<pass, offset>>
  <2>7. /\ d \notin counted /\ IsFiniteSet(counted) /\ d \in Nat \X Nat
        /\ d[1] = pass /\ d[2] = offset
        /\ pass \in Passes /\ (pass = rejoins => offset < position["signals"][0])
    BY <1>1, <2>3, <2>6 DEF InHandSince, CountedInv
  <2>8. \A e \in counted \union {d} : DeliveredEvent(events, e).type \in DOMAIN Weight
    BY <1>0, <1>1, <1>3, <2>5, <2>7 DEF EventsInv, CountedInv, DeliveredEvent
  <2>9. failures = 0 /\ events[offset + 1].shown => event.article \in knownSources
    BY <2>5 DEF KnownInv, ShownKnown, Recallable
  <2>10. failures = 0 => pass = 0
    BY <2>7 DEF CountInv, Passes
  <2>11. HandInv(counted)' /\ HandInv(counted \union {d})' /\ (failures' = 0 => rejoins' = 0)
    BY <2>2, <2>4 DEF HandInv, CountInv
  <2>12. DeliveredEvent(events, d) = event
    BY <2>5, <2>7 DEF DeliveredEvent
  <2> HIDE DEF d
  <2>13. CASE event.article \in knownSources
    <3>1. ASSUME NEW s \in Sources
          PROVE  sourceWeights'[s] = Worth(events, s, counted \union {d})
      <4>1. sourceWeights[s] = Worth(events, s, counted)
        BY <1>1 DEF CountedInv
      <4>2. Worth(events, s, counted \union {d}) =
              Worth(events, s, counted) +
              IF SourceOf[event.article] = s THEN Weight[event.type] ELSE 0
        <5>1. PICK list : list = events
          OBVIOUS
        <5>2. Worth(list, s, counted \union {d}) =
                Worth(list, s, counted) +
                IF SourceOf[DeliveredEvent(list, d).article] = s
                THEN Weight[DeliveredEvent(list, d).type] ELSE 0
          BY <2>7, <2>8, <5>1, WorthOfOneMore
        <5> QED
          BY <2>12, <5>1, <5>2
      <4> QED
        BY <2>1, <2>13, <4>1, <4>2 DEF CountReaction
    <3>2. CountedInv(counted \union {d})'
      <4>1. IsFiniteSet(counted \union {d})
        BY <2>7, FS_AddElement
      <4>2. counted \union {d} \subseteq Passes' \X done'["signals"][0]
        BY <1>1, <2>2, <2>4, <2>7 DEF CountedInv, Passes, d
      <4>3. \A e \in counted \union {d} : e[1] = rejoins' => e[2] < position'["signals"][0]
        BY <1>1, <2>2, <2>7 DEF CountedInv
      <4>4. failures' = 0 => \A o \in done'["signals"][0] :
              log'["reaction"][0][o + 1].shown => <<0, o>> \in counted \union {d}
        BY <1>1, <2>2, <2>4, <2>10 DEF CountedInv, d
      <4> QED
        BY <2>2, <2>4, <3>1, <4>1, <4>2, <4>3, <4>4 DEF CountedInv
    <3>3. counted \union {d} \in SUBSET (Nat \X Nat)
      BY <2>7
    <3> QED
      BY <2>11, <3>2, <3>3 DEF CountInv
  <2>14. CASE event.article \notin knownSources
    <3>1. ASSUME NEW s \in Sources PROVE sourceWeights'[s] = Worth(events, s, counted)
      <4>1. sourceWeights[s] = Worth(events, s, counted) /\ sourceWeights[s] \in Int
        BY <1>0, <1>1 DEF CountedInv, MemoryTypeOK
      <4>2. sourceWeights'[s] = sourceWeights[s] + 0
        BY <2>1, <2>14 DEF CountReaction
      <4> QED
        BY <4>1, <4>2
    <3>2. counted \subseteq Passes' \X done'["signals"][0]
      BY <1>1, <2>2, <2>4 DEF CountedInv, Passes
    <3>3. failures' = 0 => \A o \in done'["signals"][0] :
            log'["reaction"][0][o + 1].shown => <<0, o>> \in counted
      BY <1>1, <2>2, <2>4, <2>9, <2>14 DEF CountedInv
    <3>4. CountedInv(counted)'
      BY <1>1, <2>2, <2>4, <3>1, <3>2, <3>3 DEF CountedInv
    <3> QED
      BY <2>11, <3>4, <1>q
  <2> QED
    BY <2>13, <2>14
<1> QED
  BY <1>6, <1>7, <1>8, <1>9, <1>10, <1>11, <1>12, <1>13 DEF RankingNext

(* The invariants about what ranking-service knows and counts. *)
LEMMA CountInvHolds ==
    ASSUME EventsAreMessages
    PROVE  RankingSpec => [](KnownInv /\ CountInv)
<1>1. ASSUME RankingInit PROVE KnownInv
  <2>1. draft.stage = "idle" /\ feed = {} /\ log["scored"][0] = << >> /\ log["reaction"][0] = << >>
    BY <1>1, RankingAssumption DEF RankingInit, Init, Idle
  <2> QED
    BY <2>1 DEF KnownInv, HandKnown, ScoredKnown, FeedKnown, ShownKnown
<1>2. ASSUME RankingInit PROVE CountInv
  <2>1. /\ done["signals"][0] = {} /\ \A s \in Sources : sourceWeights[s] = 0
        /\ rejoins = 0 /\ pc["signals"] = "fetch"
    BY <1>2, RankingAssumption DEF RankingInit, Init, NewSignalStore
  <2>2. IsFiniteSet({})
    BY FS_EmptySet
  <2>3. CountedInv({}) /\ HandInv({})
    BY <2>1, <2>2, NoWorth DEF CountedInv, HandInv
  <2> QED
    BY <2>1, <2>3 DEF CountInv
<1>3. ServiceInv /\ KnownInv /\ CountInv /\ [RankingNext]_allVars => KnownInv' /\ CountInv'
  BY KnownStep, CountStep
<1> QED
  BY <1>1, <1>2, <1>3, ServiceInvHolds, PTL DEF RankingSpec

(* A reaction counts at most once in every pass of the reader, for any number of reactions,
   deliveries, restarts and rejoins: within a pass the reader never goes back, and the
   offsets a restart goes back over meet weights that are gone. *)
THEOREM NothingCountsTwice ==
    ASSUME EventsAreMessages
    PROVE  RankingSpec => []CountsOncePerPass
<1>1. ASSUME CountInv PROVE CountsOncePerPass
  <2>1. PICK counted \in SUBSET (Nat \X Nat) : CountedInv(counted)
    BY <1>1 DEF CountInv
  <2>2. counted \in SUBSET (Passes \X done["signals"][0])
    BY <2>1 DEF CountedInv
  <2> QED
    BY <2>1, <2>2 DEF CountedInv, CountsOncePerPass, CountsOnce
<1> QED
  BY <1>1, CountInvHolds, PTL

(* Until something stops or rejoins, no reaction to an article the user saw in the feed is
   lost: the score of an article is published only after the article was remembered. *)
THEOREM ReactionsToShownCount ==
    ASSUME EventsAreMessages
    PROVE  RankingSpec => []ShownReactionsCount
<1>1. ASSUME CountInv PROVE ShownReactionsCount
  <2> DEFINE Seen == {o \in done["signals"][0] : log["reaction"][0][o + 1].shown}
  <2> SUFFICES ASSUME failures = 0 PROVE CountsOnce({0} \X Seen)
    BY DEF ShownReactionsCount
  <2>1. PICK counted \in SUBSET (Nat \X Nat) : CountedInv(counted)
    BY <1>1 DEF CountInv
  <2>2. counted \in SUBSET (Passes \X done["signals"][0]) /\ {0} \X Seen \subseteq counted
    BY <2>1 DEF CountedInv
  <2> QED
    BY <2>1, <2>2 DEF CountedInv, CountsOnce
<1> QED
  BY <1>1, CountInvHolds, PTL

=============================================================================
