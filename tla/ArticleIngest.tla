--------------------------- MODULE ArticleIngest ---------------------------
(***************************************************************************)
(* article-service: the loop that reads discovered articles and the store  *)
(* they are saved in.  The store is chosen at start-up.  The Postgres      *)
(* table is keyed by article id and has a unique URL; the memory store     *)
(* keeps the first article of every URL and is lost when the process ends. *)
(*                                                                         *)
(* An article id is the source's name with the source's own id, so two     *)
(* sources that find the same page publish one URL under two ids: vc and   *)
(* vc_rss do.                                                              *)
(***************************************************************************)
EXTENDS ConsumerLoop

CONSTANTS Ids, Urls, Versions   \* Versions tells apart what events say of one article

Article == [id : Ids, url : Urls, version : Versions]

(* article-service has one loop, on one topic, and events carry an article; whether a
   message is rejected depends on the store and not on the message alone. *)
ASSUME IngestAssumption ==
    /\ Groups = {"article"}
    /\ Topics = {"discovered"}
    /\ Partitions = {0}
    /\ Messages = Article
    /\ Poison = [g \in Groups |-> {}]

VARIABLES
    driver,  \* the configured store, "postgres" or "memory"
    byID,    \* the rows of articles, or MemoryArticleStore.byID: one article per id
    byURL    \* MemoryArticleStore.byURL: one article per URL

ingestVars == <<driver, byID, byURL>>
storeVars == <<vars, ingestVars>>

-----------------------------------------------------------------------------
IngestInit ==
    /\ Init
    /\ driver \in {"postgres", "memory"}
    /\ byID = {}
    /\ byURL = {}

Event == PayloadAt("article", cur["article"])

(* rows with a in place of the one that has its id. *)
Upsert(rows, a) == {row \in rows : row.id # a.id} \union {a}

(* Mutant: the article's own row counts as another one. *)
UrlTakenByAny(a) == \E row \in byID : row.url = a.url

(* Another article has a's URL: the UNIQUE constraint refuses the row. *)
UrlTaken(a) == \E row \in byID : row.url = a.url /\ row.id # a.id

Discover(a) ==
    /\ Publish("discovered", 0, a)
    /\ UNCHANGED ingestVars

FetchDiscovered ==
    /\ Fetch("article", 0)
    /\ UNCHANGED ingestVars

(* Mutant: the insert does nothing when the id is there already. *)
SaveRowOnce ==
    /\ driver = "postgres"
    /\ HandleOk("article")
    /\ ~UrlTaken(Event)
    /\ byID' = IF \E row \in byID : row.id = Event.id THEN byID ELSE byID \union {Event}
    /\ UNCHANGED <<driver, byURL>>

(* PostgresArticleStore.Save: insert the row or overwrite the one with the id. *)
SaveRow ==
    /\ driver = "postgres"
    /\ HandleOk("article")
    /\ ~UrlTaken(Event)
    /\ byID' = Upsert(byID, Event)
    /\ UNCHANGED <<driver, byURL>>

(* Mutant: a refused row is taken for a duplicate and accepted. *)
RefuseRowQuietly ==
    /\ driver = "postgres"
    /\ HandleOk("article")
    /\ UrlTaken(Event)
    /\ UNCHANGED ingestVars

(* Save returns the database's error, Handle returns it and the loop ends. *)
RefuseRow ==
    /\ driver = "postgres"
    /\ pc["article"] = "handle"
    /\ UrlTaken(Event)
    /\ StopProcess("article")
    /\ UNCHANGED <<log, committed, position, cur, failures, done, ingestVars>>

(* Mutant: the memory store looks for the id and not for the URL. *)
SaveInMemoryById ==
    /\ driver = "memory"
    /\ HandleOk("article")
    /\ byURL' = {row \in byURL : row.url # Event.url} \union {Event}
    /\ byID' = Upsert(byID, Event)
    /\ UNCHANGED driver

(* MemoryArticleStore.Save: nothing happens when the URL is known. *)
SaveInMemory ==
    /\ driver = "memory"
    /\ HandleOk("article")
    /\ IF \E row \in byURL : row.url = Event.url
       THEN UNCHANGED <<byURL, byID>>
       ELSE byURL' = byURL \union {Event} /\ byID' = Upsert(byID, Event)
    /\ UNCHANGED driver

CommitDiscovered ==
    /\ CommitOk("article")
    /\ UNCHANGED ingestVars

(* The process ends; a store in memory ends with it. *)
FailIngest ==
    /\ Stop("article") \/ CommitUnanswered("article")
    /\ IF driver = "memory"
       THEN byID' = {} /\ byURL' = {} /\ UNCHANGED driver
       ELSE UNCHANGED ingestVars

RestartIngest ==
    /\ Restart("article")
    /\ UNCHANGED ingestVars

(* The reader rejoins its group; the store, also one in memory, stays as it is. *)
RejoinIngest ==
    /\ Rejoin("article")
    /\ UNCHANGED ingestVars

IngestNext ==
    \/ \E a \in Article : Discover(a)
    \/ FetchDiscovered
    \/ SaveRow
    \/ RefuseRow
    \/ SaveInMemory
    \/ CommitDiscovered
    \/ FailIngest
    \/ RestartIngest
    \/ RejoinIngest

IngestSpec == IngestInit /\ [][IngestNext]_storeVars

(* The loop goes on while it can and the process is started again. *)
IngestFairSpec ==
    /\ IngestSpec
    /\ WF_storeVars(FetchDiscovered)
    /\ WF_storeVars(SaveRow \/ RefuseRow \/ SaveInMemory)
    /\ WF_storeVars(CommitDiscovered)
    /\ WF_storeVars(RestartIngest)

-----------------------------------------------------------------------------
Discovered == log["discovered"][0]

(* Deduplication, with either store: no two articles that GetByID and Search can return
   have the same URL, whatever ids the sources gave them and however often their events
   are delivered. *)
OneArticlePerUrl == \A a, b \in byID : a.url = b.url => a = b

(* Nothing accepted is lost from the table: every event the loop has accepted has a row
   for its id, also after stops, rejoins, redeliveries and refused rows. *)
AcceptedIsStored ==
    driver = "postgres" =>
        \A o \in done["article"][0] : \E row \in byID : row.id = Discovered[o + 1].id

(* Redelivery may put an older version back, but a loop that has caught up with its topic
   leaves what the last event of every article says. *)
TableShowsLatest ==
    driver = "postgres" /\ pc["article"] = "fetch" /\ position["article"][0] = Len(Discovered)
        => byID = {Discovered[i] : i \in {j \in DOMAIN Discovered :
                      \A k \in DOMAIN Discovered : k > j => Discovered[k].id # Discovered[j].id}}

(* Two sources have published one URL under two ids. *)
UrlClash ==
    \E i, j \in DOMAIN Discovered :
        Discovered[i].url = Discovered[j].url /\ Discovered[i].id # Discovered[j].id

Published(id) == \E i \in DOMAIN Discovered : Discovered[i].id = id
Stored(id) == \E row \in byID : row.id = id

(* Every discovered article is stored in the end, unless sources disagree on the id of a
   URL. *)
StoredUnlessClash ==
    \A id \in Ids : driver = "postgres" /\ Published(id) ~> Stored(id) \/ UrlClash

(* What the README says of parser results, that they are "normalized, deduplicated, published
   to Kafka, and then stored by article-service": the page of every published event is
   stored in the end, under the event's id or, as a duplicate, under its URL. *)
PublishedIsStored ==
    \A a \in Article :
        driver = "postgres" /\ (\E i \in DOMAIN Discovered : Discovered[i] = a)
            ~> \E row \in byID : row.id = a.id \/ row.url = a.url

=============================================================================
