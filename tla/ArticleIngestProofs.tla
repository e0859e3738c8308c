------------------------ MODULE ArticleIngestProofs ------------------------
(***************************************************************************)
(* Theorems about article-service, for any sets of ids, URLs and versions  *)
(* and any bounds: both stores keep one article per URL, and the Postgres  *)
(* table is what the topic says, however often events are delivered and    *)
(* whichever rows it refuses.                                              *)
(***************************************************************************)
EXTENDS ArticleIngest, ConsumerLoopProofs

(* The key of the articles table. *)
IdOf == [a \in Article |-> a.id]

(* The memory store has one article per URL, and nothing under an id that is not also
   under a URL. *)
MemoryInv ==
    driver = "memory" =>
        /\ byID \subseteq byURL
        /\ \A a, b \in byURL : a.url = b.url => a = b

(* The Postgres table follows the log, and its URLs are unique. *)
PostgresInv ==
    driver = "postgres" =>
        /\ TableInv(Discovered, IdOf, byID, done["article"][0], Through("article"))
        /\ OneArticlePerUrl

IngestInv ==
    /\ TypeOK
    /\ LoopInv
    /\ driver \in {"postgres", "memory"}
    /\ MemoryInv
    /\ PostgresInv

-----------------------------------------------------------------------------
(* Every topic has one partition, so what is proved of the loops applies. *)
LEMMA OnePartition == SinglePartition
BY IngestAssumption DEF SinglePartition

(* The loop of article-service reads the discovered articles. *)
LEMMA DiscoveredLog ==
    ASSUME TypeOK
    PROVE  /\ "article" \in Groups /\ "discovered" \in Topics
           /\ LogOf("article")[0] = Discovered
           /\ Discovered \in Seq(Article)
BY LoopAssumption, IngestAssumption DEF TypeOK, LogOf, Discovered

(* The event Save is given is the one at the reader's offset. *)
LEMMA ArticleInHand ==
    ASSUME TypeOK, LoopInv, pc["article"] = "handle"
    PROVE  /\ cur["article"].offset \in Nat /\ cur["article"].offset < Len(Discovered)
           /\ Event \in Article /\ Event = Discovered[cur["article"].offset + 1]
<1>1. \A i \in DOMAIN LogOf("article")[0] : LogOf("article")[0][i] \in Article
  BY DiscoveredLog
<1>2. /\ Event \in Article
      /\ Event = Discovered[cur["article"].offset + 1]
  BY <1>1, DiscoveredLog, OnePartition, EventInHand DEF Event
<1>3. cur["article"].offset \in Nat /\ cur["article"].offset < Len(Discovered)
  BY DiscoveredLog DEF TypeOK, Coordinates, LoopInv, GroupInv, HandleInv
<1> QED
  BY <1>2, <1>3

(* Every step but the refusal of a row is a step of the loop. *)
LEMMA IngestStepsAreLoopSteps ==
    ASSUME [IngestNext]_storeVars
    PROVE  [Next]_vars \/ RefuseRow
BY IngestAssumption
   DEF IngestNext, Discover, FetchDiscovered, SaveRow, SaveInMemory, CommitDiscovered,
       FailIngest, RestartIngest, RejoinIngest, Next, storeVars

(* A refused row stops the loop and changes nothing else of it. *)
LEMMA RefusalStops ==
    ASSUME TypeOK, LoopInv, RefuseRow
    PROVE  /\ TypeOK' /\ LoopInv'
           /\ Through("article")' = 0 /\ UNCHANGED <<log, done, ingestVars>>
<1> USE LoopAssumption, IngestAssumption
<1>1. /\ pc' = [h \in Groups |-> "stopped"]
      /\ UNCHANGED <<log, committed, position, cur, failures, done, ingestVars>>
  BY DEF RefuseRow, StopProcess
<1>2. TypeOK'
  BY <1>1 DEF TypeOK, Places
<1>3. ASSUME NEW g \in Groups PROVE GroupInv(g)'
  BY <1>1, <1>2, LogLength, UntouchedGroup DEF LoopInv, LogOf
<1>4. Through("article")' = 0
  BY <1>1 DEF Through
<1> QED
  BY <1>1, <1>2, <1>3, <1>4 DEF LoopInv

(* The memory store keeps one article per URL: a known URL is left alone, and a store that
   is lost is empty. *)
LEMMA MemoryStep ==
    ASSUME IngestInv, [IngestNext]_storeVars
    PROVE  MemoryInv'
<1> USE DEF IngestInv, MemoryInv
<1>u. ASSUME UNCHANGED ingestVars PROVE MemoryInv'
  BY <1>u DEF ingestVars
<1>1. ASSUME SaveInMemory PROVE MemoryInv'
  <2>1. CASE \E row \in byURL : row.url = Event.url
    BY <1>1, <2>1 DEF SaveInMemory
  <2>2. CASE ~ \E row \in byURL : row.url = Event.url
    BY <1>1, <2>2 DEF SaveInMemory, Upsert
  <2> QED
    BY <2>1, <2>2
<1>2. ASSUME SaveRow PROVE MemoryInv'
  BY <1>2 DEF SaveRow
<1>3. ASSUME FailIngest PROVE MemoryInv'
  <2>1. CASE driver = "memory"
    BY <1>3, <2>1 DEF FailIngest
  <2>2. CASE driver # "memory"
    BY <1>3, <2>2, <1>u DEF FailIngest
  <2> QED
    BY <2>1, <2>2
<1>4. ASSUME \/ \E a \in Article : Discover(a)
             \/ FetchDiscovered \/ RefuseRow \/ CommitDiscovered \/ RestartIngest \/ RejoinIngest
      PROVE  UNCHANGED ingestVars
  BY <1>4 DEF Discover, FetchDiscovered, RefuseRow, CommitDiscovered, RestartIngest, RejoinIngest
<1>5. CASE UNCHANGED storeVars
  BY <1>5, <1>u DEF storeVars
<1> QED
  BY <1>u, <1>1, <1>2, <1>3, <1>4, <1>5 DEF IngestNext

(* What the table's invariant says once driver is known. *)
LEMMA PostgresNow ==
    ASSUME IngestInv, driver = "postgres"
    PROVE  TableInv(LogOf("article")[0], IdOf, byID, done["article"][0], Through("article"))
BY DiscoveredLog DEF IngestInv, PostgresInv

(* The Postgres table follows the log and keeps its URLs unique: a row is overwritten by id,
   and refused when another id has its URL. *)
LEMMA PostgresStep ==
    ASSUME IngestInv, [IngestNext]_storeVars
    PROVE  PostgresInv'
<1>0. TypeOK /\ LoopInv
  BY DEF IngestInv
<1>l. LogOf("article")[0]' = Discovered'
  <2>1. TypeOK'
    BY <1>0, IngestStepsAreLoopSteps, TypeInductive, RefusalStops
  <2> QED
    BY LoopAssumption, IngestAssumption DEF LogOf, Discovered
<1>u. ASSUME UNCHANGED <<driver, byID>>, ~HandleOk("article"), [Next]_vars PROVE PostgresInv'
  <2> SUFFICES ASSUME driver = "postgres"
               PROVE  (TableInv(Discovered, IdOf, byID, done["article"][0],
                                Through("article")) /\ OneArticlePerUrl)'
    BY <1>u DEF PostgresInv
  <2>1. TableInv(LogOf("article")'[0], IdOf, byID, done'["article"][0], Through("article")')
    BY <1>0, <1>u, PostgresNow, DiscoveredLog, OnePartition, TableUntouched
  <2>2. OneArticlePerUrl'
    BY <1>u DEF IngestInv, PostgresInv, OneArticlePerUrl
  <2> QED
    BY <1>l, <1>u, <2>1, <2>2
<1>1. ASSUME SaveRow PROVE PostgresInv'
  <2>1. /\ driver = "postgres" /\ driver' = "postgres" /\ HandleOk("article")
        /\ ~UrlTaken(Event) /\ byID' = Upsert(byID, Event)
    BY <1>1 DEF SaveRow
  <2>2. [Next]_vars
    BY <2>1, DiscoveredLog, <1>0 DEF Next
  <2>3. Event \in Article
    BY <1>0, <2>1, ArticleInHand DEF HandleOk, HandleStep
  <2>4. byID \subseteq Article
    BY <1>0, <2>1, DiscoveredLog DEF IngestInv, PostgresInv, TableInv, RowsAreEvents
  <2>5. byID' = {r \in byID : IdOf[r] # IdOf[Event]} \union {Event}
    BY <2>1, <2>3, <2>4 DEF Upsert, IdOf
  <2>6. TableInv(LogOf("article")'[0], IdOf, byID', done'["article"][0], Through("article")')
    BY <1>0, <2>1, <2>2, <2>5, PostgresNow, DiscoveredLog, OnePartition, TableAccepts DEF Event
  <2>7. OneArticlePerUrl'
    BY <2>1 DEF IngestInv, PostgresInv, OneArticlePerUrl, UrlTaken, Upsert
  <2> QED
    BY <1>l, <2>6, <2>7 DEF PostgresInv
<1>2. ASSUME RefuseRow PROVE PostgresInv'
  <2>1. /\ TypeOK' /\ Through("article")' = 0
        /\ UNCHANGED <<log, done, driver, byID>> /\ driver = "postgres"
    BY <1>0, <1>2, RefusalStops DEF ingestVars, RefuseRow
  <2>2. OneArticlePerUrl'
    BY <2>1 DEF IngestInv, PostgresInv, OneArticlePerUrl
  <2>3. TableInv(Discovered, IdOf, byID, done["article"][0], 0)
    BY <2>1 DEF IngestInv, PostgresInv, TableInv, Settled
  <2> QED
    BY <2>1, <2>2, <2>3 DEF PostgresInv, Discovered
<1>3. ASSUME SaveInMemory PROVE PostgresInv'
  BY <1>3 DEF SaveInMemory, PostgresInv
<1>4. ASSUME FailIngest PROVE PostgresInv'
  <2>1. CASE driver = "memory"
    BY <1>4, <2>1 DEF FailIngest, PostgresInv
  <2>2. CASE driver # "memory"
    <3>1. UNCHANGED <<driver, byID>>
      BY <1>4, <2>2 DEF FailIngest, ingestVars
    <3>2. ~HandleOk("article")
      BY <1>0, <1>4, DiscoveredLog
         DEF FailIngest, Stop, CommitUnanswered, StopProcess, HandleOk, HandleStep, TypeOK
    <3>3. [Next]_vars
      BY <1>4, DiscoveredLog, <1>0 DEF FailIngest, Next
    <3> QED
      BY <1>u, <3>1, <3>2, <3>3
  <2> QED
    BY <2>1, <2>2
<1>5. ASSUME \/ \E a \in Article : Discover(a)
             \/ FetchDiscovered \/ CommitDiscovered \/ RestartIngest \/ RejoinIngest
             \/ UNCHANGED storeVars
      PROVE  PostgresInv'
  <2>1. UNCHANGED <<driver, byID>>
    BY <1>5 DEF Discover, FetchDiscovered, CommitDiscovered, RestartIngest, RejoinIngest,
                storeVars, ingestVars
  <2>2. ~HandleOk("article")
    BY <1>0, <1>5, DiscoveredLog
       DEF Discover, FetchDiscovered, CommitDiscovered, RestartIngest, RejoinIngest, storeVars,
           vars, loopVars, Publish, Fetch, CommitOk, Restart, Rejoin, HandleOk, HandleStep, TypeOK
  <2>3. [Next]_vars
    BY <1>0, <1>5, DiscoveredLog, IngestAssumption
       DEF Discover, FetchDiscovered, CommitDiscovered, RestartIngest, RejoinIngest, storeVars, Next
  <2> QED
    BY <1>u, <2>1, <2>2, <2>3
<1> QED
  BY <1>1, <1>2, <1>3, <1>4, <1>5 DEF IngestNext

-----------------------------------------------------------------------------
(* The inductive invariant of article-service is an invariant of it. *)
LEMMA IngestInvHolds == IngestSpec => []IngestInv
<1>1. ASSUME IngestInit PROVE IngestInv
  <2>1. TypeOK
    BY <1>1, LoopAssumption DEF IngestInit, Init, TypeOK, Coordinates, Places
  <2>2. LoopInv
    BY <1>1, OnePartition, LoopInvInductive DEF IngestInit
  <2>3. /\ Discovered = << >> /\ byID = {} /\ byURL = {}
        /\ done["article"][0] = {} /\ Through("article") = 0
        /\ driver \in {"postgres", "memory"}
    BY <1>1, IngestAssumption DEF IngestInit, Init, Discovered, Through
  <2>4. TableInv(<< >>, IdOf, {}, {}, 0)
    BY TableStarts
  <2> QED
    BY <2>1, <2>2, <2>3, <2>4 DEF IngestInv, MemoryInv, PostgresInv, OneArticlePerUrl
<1>2. ASSUME IngestInv, [IngestNext]_storeVars PROVE IngestInv'
  <2>1. TypeOK' /\ LoopInv'
    BY <1>2, IngestStepsAreLoopSteps, RefusalStops, TypeInductive, LoopInvInductive, OnePartition
       DEF IngestInv
  <2>2. driver' = driver
    BY <1>2 DEF IngestNext, Discover, FetchDiscovered, SaveRow, RefuseRow, SaveInMemory,
                CommitDiscovered, FailIngest, RestartIngest, RejoinIngest, storeVars, ingestVars
  <2> QED
    BY <1>2, <2>1, <2>2, MemoryStep, PostgresStep DEF IngestInv
<1> QED
  BY <1>1, <1>2, PTL DEF IngestSpec

(* Deduplication, with either store and for any number of ids, URLs and deliveries: no two
   stored articles have one URL. *)
THEOREM StoredOncePerUrl == IngestSpec => []OneArticlePerUrl
<1>1. IngestInv => OneArticlePerUrl
  BY DEF IngestInv, MemoryInv, PostgresInv, OneArticlePerUrl
<1> QED
  BY <1>1, IngestInvHolds, PTL

(* Over any number of stops, rejoins, redeliveries and refused rows, every event the loop of
   article-service has accepted has a row in the Postgres table. *)
THEOREM NothingAcceptedIsLost == IngestSpec => []AcceptedIsStored
<1>1. ASSUME IngestInv PROVE AcceptedIsStored
  <2> SUFFICES ASSUME driver = "postgres", NEW o \in done["article"][0]
               PROVE  \E row \in byID : row.id = Discovered[o + 1].id
    BY DEF AcceptedIsStored
  <2>1. Discovered \in Seq(Article)
    BY <1>1, DiscoveredLog DEF IngestInv
  <2>2. PICK row \in byID : IdOf[row] = IdOf[Discovered[o + 1]]
    BY <1>1 DEF IngestInv, PostgresInv, TableInv, AcceptedHaveRows
  <2>3. o + 1 \in DOMAIN Discovered /\ row \in Article
    BY <1>1, <2>1 DEF IngestInv, PostgresInv, TableInv, AcceptedHaveRows, RowsAreEvents
  <2> QED
    BY <2>1, <2>2, <2>3 DEF IdOf
<1> QED
  BY <1>1, IngestInvHolds, PTL

(* A loop that has caught up with its topic leaves in the Postgres table what the last event
   of every article says, for any number of events and redeliveries. *)
THEOREM CaughtUpTableIsLatest == IngestSpec => []TableShowsLatest
<1>1. ASSUME IngestInv PROVE TableShowsLatest
  <2> SUFFICES ASSUME driver = "postgres", pc["article"] = "fetch",
                      position["article"][0] = Len(Discovered)
               PROVE  byID = {Discovered[i] : i \in {j \in DOMAIN Discovered :
                          \A k \in DOMAIN Discovered :
                              k > j => Discovered[k].id # Discovered[j].id}}
    BY DEF TableShowsLatest
  <2>1. Discovered \in Seq(Article) /\ LogOf("article")[0] = Discovered
    BY <1>1, DiscoveredLog DEF IngestInv
  <2>2. byID = LastOfKeys(Discovered, IdOf)
    BY <1>1, <2>1, PostgresNow, DiscoveredLog, OnePartition, TableOfCaughtUpLoop DEF IngestInv
  <2>3. \A i \in DOMAIN Discovered : IdOf[Discovered[i]] = Discovered[i].id
    BY <2>1 DEF IdOf
  <2> QED
    BY <2>2, <2>3 DEF LastOfKeys
<1> QED
  BY <1>1, IngestInvHolds, PTL

=============================================================================
