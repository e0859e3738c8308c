----------------------------- MODULE ParserJobs -----------------------------
(***************************************************************************)
(* parser-service: search jobs.  A job is created by an HTTP request or by *)
(* the scheduler, saved as queued, and run by a goroutine of its own that  *)
(* marks it running, searches the selected sources one after the other,    *)
(* interleaves what they found, publishes the candidates one by one and    *)
(* saves the outcome.  Nobody takes up a job whose goroutine is gone: not  *)
(* after an error of the store, not after a restart of the process.        *)
(*                                                                         *)
(* A job is kept in Postgres or in memory.  Which sources are enabled is   *)
(* kept in memory and can be changed while jobs run.                       *)
(***************************************************************************)
EXTENDS Integers, Sequences, SequencesExt, RoundRobin

CONSTANTS
    RequestIds,        \* ids of the jobs HTTP clients create (bounds their number)
    ScheduledIds,      \* ids of the jobs the scheduler creates (bounds their number)
    SourceOrder,       \* the registered sources, in the registry's order
    ConfiguredSources, \* the sources enabled by the configuration
    Toggled,           \* bound: the sources clients enable and disable
    Finds,             \* Finds[s]: what a search of s may return, sequences of URLs
    Relevance,         \* Relevance[u]: candidateRelevanceScore of the page at URL u
    Queries,           \* what HTTP clients ask for
    Scheduled,         \* the scheduler's queries, in order
    MaxOverlap,        \* bound: scheduled jobs still running when the ticker fires
    MaxFailures        \* bound: faults of the store, the broker and the process

JobIds == RequestIds \union ScheduledIds
Sources == Range(SourceOrder)
Urls == UNION {Range(found) : found \in UNION {Finds[s] : s \in Sources}}

(* Job ids are ordered by creation; a query names registered sources or none for all. *)
ASSUME JobsAssumption ==
    /\ RequestIds \subseteq Nat /\ ScheduledIds \subseteq Nat
    /\ RequestIds \intersect ScheduledIds = {}
    /\ SourceOrder \in Seq(Sources)
    /\ ConfiguredSources \subseteq Sources /\ Toggled \subseteq Sources
    /\ \A s \in Sources : Finds[s] # {} /\ \A found \in Finds[s] :
                             found \in Seq(Urls) /\ IsInjective(found)
    /\ Scheduled \in Seq(Range(Scheduled))
    /\ Queries \union Range(Scheduled) \subseteq [sources : Seq(Sources), limit : Nat \ {0}]
    /\ Relevance \in [Urls -> Nat]
    /\ MaxOverlap \in Nat /\ MaxFailures \in Nat

VARIABLES
    up,             \* the process runs
    driver,         \* the configured store, "postgres" or "memory"
    enabled,        \* RuntimeRegistry: the sources that are enabled
    jobs,           \* the stored jobs
    runner,         \* runner[j]: the goroutine of Manager.Run for job j
    published,      \* candidates on article.discovered.v1, with the job that sent them
    failureEvents,  \* events on parser.job.failed.v1: the job and the source that failed
    nextQuery,      \* the scheduler's place in RunOnce; behind the last one it waits
    failures        \* faults so far

parserVars == <<up, driver, enabled, jobs, runner, published, failureEvents, nextQuery, failures>>

NoJob == [status |-> "none", query |-> [sources |-> << >>, limit |-> 1], candidates |-> << >>]

(* The goroutine of a job is at "start", "select", "search", "publish" or "fail"; "none": not
   created; "gone": Run has returned or died with the process. *)
NewRunner ==
    [pc |-> "none", todo |-> << >>, seen |-> {}, buckets |-> << >>,
     lastErr |-> FALSE, result |-> << >>, sent |-> 0]

-----------------------------------------------------------------------------
JobsInit ==
    /\ up = TRUE
    /\ driver \in {"postgres", "memory"}
    /\ enabled = ConfiguredSources
    /\ jobs = [j \in JobIds |-> NoJob]
    /\ runner = [j \in JobIds |-> NewRunner]
    /\ published = {}
    /\ failureEvents = {}
    /\ nextQuery = 1
    /\ failures = 0

Fault == failures < MaxFailures /\ failures' = failures + 1

(* Store.Save returns nil. *)
Save(j, job) == jobs' = [jobs EXCEPT ![j] = job]

(* Store.Save or FindByID returns an error: of a Save the database may have the row all the
   same.  The memory store never fails. *)
SaveFails(j, job) ==
    /\ driver = "postgres"
    /\ Fault
    /\ UNCHANGED jobs \/ Save(j, job)

Go(j, place) == runner' = [runner EXCEPT ![j].pc = place]

(* The process ends with its goroutines. *)
KillRunners(more) ==
    runner' = [j \in JobIds |->
        IF j \in more \/ runner[j].pc # "none" THEN [runner[j] EXCEPT !.pc = "gone"]
        ELSE runner[j]]

Queued(q) == [status |-> "queued", query |-> q, candidates |-> << >>]

(* The lowest id not used yet: the next job of the scheduler. *)
IsNextId(j) ==
    /\ runner[j].pc = "none"
    /\ \A i \in ScheduledIds : i < j => runner[i].pc # "none"

-----------------------------------------------------------------------------
(* POST /api/v1/parser/jobs: StartAsync saves the job and starts its goroutine. *)
CreateJob(j, q) ==
    /\ up
    /\ runner[j].pc = "none"
    /\ Save(j, Queued(q))
    /\ Go(j, "start")
    /\ UNCHANGED <<up, driver, enabled, published, failureEvents, nextQuery, failures>>

(* Start fails: the client gets an error and no goroutine is started. *)
CreateJobFails(j, q) ==
    /\ up
    /\ runner[j].pc = "none"
    /\ SaveFails(j, Queued(q))
    /\ Go(j, "gone")
    /\ UNCHANGED <<up, driver, enabled, published, failureEvents, nextQuery>>

(* RunOnce starts the job of its next query. *)
ScheduleNext(j) ==
    /\ up
    /\ nextQuery <= Len(Scheduled)
    /\ IsNextId(j)
    /\ Save(j, Queued(Scheduled[nextQuery]))
    /\ Go(j, "start")
    /\ nextQuery' = nextQuery + 1
    /\ UNCHANGED <<up, driver, enabled, published, failureEvents, failures>>

(* StartAsync fails: RunOnce, Run and App.Run return the error and the process ends. *)
ScheduleFails(j) ==
    /\ up
    /\ nextQuery <= Len(Scheduled)
    /\ IsNextId(j)
    /\ SaveFails(j, Queued(Scheduled[nextQuery]))
    /\ up' = FALSE
    /\ KillRunners({j})
    /\ UNCHANGED <<driver, enabled, published, failureEvents, nextQuery>>

(* Mutant: the scheduler runs once. *)
TickOnce ==
    /\ up
    /\ nextQuery > Len(Scheduled) + 1
    /\ nextQuery' = 1
    /\ UNCHANGED <<up, driver, enabled, jobs, runner, published, failureEvents, failures>>

(* The ticker fires and RunOnce begins again, while ids are left. *)
Tick ==
    /\ up
    /\ nextQuery > Len(Scheduled)
    /\ Cardinality({j \in ScheduledIds : runner[j].pc \notin {"none", "gone"}}) <= MaxOverlap
    /\ \E j \in ScheduledIds : runner[j].pc = "none"
    /\ nextQuery' = 1
    /\ UNCHANGED <<up, driver, enabled, jobs, runner, published, failureEvents, failures>>

(* PATCH /api/v1/parser/sources/s. *)
SetEnabled(s) ==
    /\ up
    /\ enabled' = IF s \in enabled THEN enabled \ {s} ELSE enabled \union {s}
    /\ UNCHANGED <<up, driver, jobs, runner, published, failureEvents, nextQuery, failures>>

(* Run finds its job and saves it as running. *)
MarkRunning(j) ==
    /\ runner[j].pc = "start"
    /\ Save(j, [jobs[j] EXCEPT !.status = "running"])
    /\ Go(j, "select")
    /\ UNCHANGED <<up, driver, enabled, published, failureEvents, nextQuery, failures>>

(* FindByID or Save fails: Run returns, and nobody reads what it returns. *)
MarkRunningFails(j) ==
    /\ runner[j].pc = "start"
    /\ SaveFails(j, [jobs[j] EXCEPT !.status = "running"])
    /\ Go(j, "gone")
    /\ UNCHANGED <<up, driver, enabled, published, failureEvents, nextQuery>>

(* selectedSources: the enabled ones of those asked for, or of all. *)
SelectSources(j) ==
    LET asked == jobs[j].query.sources
        among == IF asked = << >> THEN SourceOrder ELSE asked
    IN  /\ runner[j].pc = "select"
        /\ runner' = [runner EXCEPT ![j].pc = "search",
                                    ![j].todo = Keep(among, enabled)]
        /\ UNCHANGED <<up, driver, enabled, jobs, published, failureEvents, nextQuery, failures>>

(* sortScoredCandidates of what was found at some places: by falling relevance, otherwise in
   the order found (the pages here have no dates).  Pages of relevance 0 are left out, unless
   there are no others. *)
SortScored(found, places) ==
    LET relevant == {i \in places : Relevance[found[i]] > 0}
        kept     == IF relevant = {} THEN places ELSE relevant
        ahead    == [i \in kept |-> {k \in kept :
                        \/ Relevance[found[k]] > Relevance[found[i]]
                        \/ Relevance[found[k]] = Relevance[found[i]] /\ k < i}]
        order    == InOrder(ahead, kept)
    IN  [k \in DOMAIN order |-> found[order[k]]]

(* A search of the next source returns: what no earlier source had is marked as seen, and the
   best of it goes into the bucket of the source. *)
SearchSource(j) ==
    /\ runner[j].pc = "search"
    /\ runner[j].todo # << >>
    /\ \E found \in Finds[Head(runner[j].todo)] :
          LET fresh  == {i \in DOMAIN found : found[i] \notin runner[j].seen}
              ranked == SortScored(found, fresh)
              bucket == [i \in DOMAIN ranked |-> [source |-> Head(runner[j].todo), url |-> ranked[i]]]
          IN  runner' = [runner EXCEPT ![j].todo = Tail(@),
                            ![j].seen = @ \union {found[i] : i \in fresh},
                            ![j].buckets = IF bucket = << >> THEN @ ELSE Append(@, bucket)]
    /\ UNCHANGED <<up, driver, enabled, jobs, published, failureEvents, nextQuery, failures>>

(* The search of the next source fails: the failure is published, whether or not that
   succeeds, and the job goes on with the other sources. *)
SearchFails(j) ==
    /\ runner[j].pc = "search"
    /\ runner[j].todo # << >>
    /\ runner' = [runner EXCEPT ![j].todo = Tail(@), ![j].lastErr = TRUE]
    /\ \/ /\ failureEvents' = failureEvents \union {[job |-> j, source |-> Head(runner[j].todo)]}
          /\ UNCHANGED failures
       \/ Fault /\ UNCHANGED failureEvents
    /\ UNCHANGED <<up, driver, enabled, jobs, published, nextQuery>>

(* Mutant: an error of any source is an error of the job. *)
MergeBucketsStrict(j) ==
    LET merged == InterleaveBuckets(runner[j].buckets, jobs[j].query.limit)
    IN  /\ runner[j].pc = "search"
        /\ runner[j].todo = << >>
        /\ runner' = [runner EXCEPT ![j].result = merged,
                                    ![j].pc = IF runner[j].lastErr THEN "fail" ELSE "publish"]
        /\ UNCHANGED <<up, driver, enabled, jobs, published, failureEvents, nextQuery, failures>>

(* All sources are searched.  An error counts only when nothing at all was found. *)
MergeBuckets(j) ==
    LET merged == InterleaveBuckets(runner[j].buckets, jobs[j].query.limit)
    IN  /\ runner[j].pc = "search"
        /\ runner[j].todo = << >>
        /\ runner' = [runner EXCEPT ![j].result = merged,
              ![j].pc = IF merged = << >> /\ runner[j].lastErr THEN "fail" ELSE "publish"]
        /\ UNCHANGED <<up, driver, enabled, jobs, published, failureEvents, nextQuery, failures>>

Sent(j) == [job |-> j, candidate |-> runner[j].result[runner[j].sent + 1]]

PublishCandidate(j) ==
    /\ runner[j].pc = "publish"
    /\ runner[j].sent < Len(runner[j].result)
    /\ published' = published \union {Sent(j)}
    /\ runner' = [runner EXCEPT ![j].sent = @ + 1]
    /\ UNCHANGED <<up, driver, enabled, jobs, failureEvents, nextQuery, failures>>

(* Mutant: a candidate that cannot be published is skipped. *)
PublishOrSkip(j) ==
    /\ runner[j].pc = "publish"
    /\ runner[j].sent < Len(runner[j].result)
    /\ Fault
    /\ runner' = [runner EXCEPT ![j].sent = @ + 1]
    /\ UNCHANGED <<up, driver, enabled, jobs, published, failureEvents, nextQuery>>

(* Publish returns an error, perhaps after the broker has the event: the remaining candidates
   are not published and the job fails. *)
PublishFails(j) ==
    /\ runner[j].pc = "publish"
    /\ runner[j].sent < Len(runner[j].result)
    /\ Fault
    /\ UNCHANGED published \/ published' = published \union {Sent(j)}
    /\ Go(j, "fail")
    /\ UNCHANGED <<up, driver, enabled, jobs, failureEvents, nextQuery>>

Completed(j) == [jobs[j] EXCEPT !.status = "completed", !.candidates = runner[j].result]
Failed(j) == [jobs[j] EXCEPT !.status = "failed"]

SaveCompleted(j) ==
    /\ runner[j].pc = "publish"
    /\ runner[j].sent = Len(runner[j].result)
    /\ Save(j, Completed(j))
    /\ Go(j, "gone")
    /\ UNCHANGED <<up, driver, enabled, published, failureEvents, nextQuery, failures>>

(* Mutant: Run returns the search's error without saving the job. *)
FailUnsaved(j) ==
    /\ runner[j].pc = "fail"
    /\ Go(j, "gone")
    /\ UNCHANGED <<up, driver, enabled, jobs, published, failureEvents, nextQuery, failures>>

SaveFailed(j) ==
    /\ runner[j].pc = "fail"
    /\ Save(j, Failed(j))
    /\ Go(j, "gone")
    /\ UNCHANGED <<up, driver, enabled, published, failureEvents, nextQuery, failures>>

(* The outcome cannot be saved: the job stays as it is stored. *)
SaveOutcomeFails(j) ==
    /\ \/ /\ runner[j].pc = "publish"
          /\ runner[j].sent = Len(runner[j].result)
          /\ SaveFails(j, Completed(j))
       \/ runner[j].pc = "fail" /\ SaveFails(j, Failed(j))
    /\ Go(j, "gone")
    /\ UNCHANGED <<up, driver, enabled, published, failureEvents, nextQuery>>

(* The process ends: the goroutines are gone, and the jobs if they were kept in memory. *)
StopParser ==
    /\ up
    /\ Fault
    /\ up' = FALSE
    /\ KillRunners({})
    /\ jobs' = IF driver = "memory" THEN [j \in JobIds |-> NoJob] ELSE jobs
    /\ UNCHANGED <<driver, enabled, published, failureEvents, nextQuery>>

(* The runtime starts the process again: sources as configured, the scheduler from its first
   query, and no job is taken up. *)
RestartParser ==
    /\ ~up
    /\ up' = TRUE
    /\ enabled' = ConfiguredSources
    /\ nextQuery' = 1
    /\ UNCHANGED <<driver, jobs, runner, published, failureEvents, failures>>

RunJob(j) ==
    \/ MarkRunning(j) \/ SelectSources(j) \/ SearchSource(j) \/ SearchFails(j)
    \/ MergeBuckets(j) \/ PublishCandidate(j) \/ SaveCompleted(j) \/ SaveFailed(j)

JobsNext ==
    \/ \E j \in RequestIds, q \in Queries : CreateJob(j, q) \/ CreateJobFails(j, q)
    \/ \E j \in ScheduledIds : ScheduleNext(j) \/ ScheduleFails(j)
    \/ Tick
    \/ \E s \in Toggled : SetEnabled(s)
    \/ \E j \in JobIds : RunJob(j) \/ MarkRunningFails(j) \/ PublishFails(j) \/ SaveOutcomeFails(j)
    \/ StopParser
    \/ RestartParser

JobsSpec == JobsInit /\ [][JobsNext]_parserVars

(* Goroutines run, the ticker ticks, and a stopped process is started again; nothing is
   assumed of clients and faults. *)
JobsFairSpec ==
    /\ JobsSpec
    /\ \A j \in JobIds : WF_parserVars(RunJob(j))
    /\ \A j \in ScheduledIds : WF_parserVars(ScheduleNext(j))
    /\ WF_parserVars(Tick)
    /\ WF_parserVars(RestartParser)

-----------------------------------------------------------------------------
Ended(j) == jobs[j].status \in {"completed", "failed"}

(* A source that is down does not spoil the others: while store, broker and process work, a
   job fails only when no source found anything, and the failure was published. *)
FailureIsolated ==
    failures = 0 => \A j \in JobIds : jobs[j].status = "failed" =>
        runner[j].buckets = << >> /\ \E e \in failureEvents : e.job = j

Contract ==
    INSTANCE JobContract
    WITH durable   <- driver = "postgres",
         status    <- [j \in JobIds |-> jobs[j].status],
         shown     <- [j \in JobIds |-> Range(jobs[j].candidates)],
         announced <- published

(* Goroutines, scheduler, stores and process do of every job what the contract says, over
   errors that hide whether a save or a publication took place, and over restarts: jobs end
   once, and a completed job shows exactly what it has published. *)
ImplementsJobContract == Contract!Spec

(* Every job that was accepted ends, as long as store, broker and process work: whatever the
   sources answer. *)
JobEnds == \A j \in JobIds : jobs[j].status = "queued" ~> Ended(j) \/ failures > 0

(* Background ingestion recovers: every query of the scheduler is searched to an end, over
   store errors that end the process or strand a job, and over restarts. *)
ScheduledIsSearched ==
    \A k \in DOMAIN Scheduled :
        <>(\E j \in ScheduledIds : jobs[j].query = Scheduled[k] /\ Ended(j))

=============================================================================
