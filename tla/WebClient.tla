------------------------------ MODULE WebClient ------------------------------
(***************************************************************************)
(* web: the single-page application.  Its handlers are asynchronous: each  *)
(* runs to its request, and the rest of it, or its catch block, runs when  *)
(* the response arrives.  Any number of them are under way at once, their  *)
(* responses come in any order, and all of them write one state object:    *)
(* the list of cards, the paging cursor and the parser job on display.     *)
(*                                                                         *)
(* A card is its key (item.id || item.url): what is drawn on it, and the   *)
(* marks that reactions other than "skip" leave, are left out.  So are the *)
(* reader pane and the source boxes.  A query is "" (the field is blank)   *)
(* or not, and so is a cursor.                                             *)
(***************************************************************************)
EXTENDS Integers, FiniteSets, Bags, Sequences, SequencesExt, RoundRobin

CONSTANTS
    Articles,   \* keys of cards
    Jobs,       \* ids of parser jobs
    Finished,   \* the job that is in the history at the beginning
    PageSize,   \* bound: cards in a response
    MaxClicks   \* bound: what the user does

(* The history can start with a job, and a response has room for a card. *)
ASSUME WebAssumption ==
    /\ Finished \in Jobs
    /\ IsFiniteSet(Articles) /\ IsFiniteSet(Jobs)
    /\ "" \notin Articles /\ "" \notin Jobs
    /\ PageSize \in Nat \ {0} /\ MaxClicks \in Nat

VARIABLES
    items,            \* the cards of the feed, in order
    feedQuery,        \* whether there is a query to page through
    nextCursor,       \* whether there is a cursor
    feedHasMore,
    feedLoadingMore,
    activeJob,        \* the job on display, [id, status]; id "" for none
    jobHistory,       \* the jobs that can be clicked on
    pollTimer,        \* the id setTimeout returned last, 0 for none
    timers,           \* external: ids of the timers that have not fired
    lastError,        \* whether an error is shown
    calls,            \* external: the bag of requests that have not been answered
    jobs,             \* external: status of every job at the gateway
    clicks            \* bound: clicks so far

feedState == <<items, feedQuery, nextCursor, feedHasMore>>
jobState  == <<activeJob, pollTimer, timers>>
webVars   == <<feedState, feedLoadingMore, jobState, jobHistory, lastError, calls, jobs, clicks>>

Statuses == {"queued", "running", "completed", "failed"}
NoJob == [id |-> "", status |-> ""]

(* What a response can bring: cards of distinct articles.  The gateway lists an article once, and
   the candidates of a job are without duplicates. *)
Pages == {s \in SeqOf(Articles, PageSize) : IsInjective(s)}

-----------------------------------------------------------------------------
Fresh(S) == CHOOSE n \in 1..(Cardinality(S) + 1) : n \notin S

(* requestJSON: another request, besides the bag cs of those under way; `seen` is the status its
   job has when it is sent. *)
Request(cs, kind, job, article) ==
    cs (+) SetToBag({[kind |-> kind, job |-> job, article |-> article,
                      seen |-> IF job = "" THEN "" ELSE jobs[job]]})

InFlight(kind) == \E c \in BagToSet(calls) : c.kind = kind
Answered(c) == calls (-) SetToBag({c})

WebInit ==
    /\ items = << >>
    /\ feedQuery = FALSE
    /\ nextCursor = FALSE
    /\ feedHasMore = FALSE
    /\ feedLoadingMore = FALSE
    /\ activeJob = NoJob
    /\ jobHistory = {}
    /\ pollTimer = 0
    /\ timers = {}
    /\ lastError = FALSE
    /\ jobs = [j \in Jobs |-> IF j = Finished THEN "completed" ELSE ""]
    /\ calls = Request(Request(EmptyBag, "feed", "", ""), "history", "", "")
    /\ clicks = 0

(* Mutant: the timer that is set is not cleared. *)
ClearNothing == timers

(* clearTimeout(state.pollTimer) *)
ClearTimer == timers \ {pollTimer}

Click == clicks < MaxClicks /\ clicks' = clicks + 1

-----------------------------------------------------------------------------
(* loadFeed up to its request.  The button is disabled while the last one is under way. *)
RefreshFeed ==
    /\ Click
    /\ ~InFlight("feed")
    /\ feedQuery' = FALSE /\ nextCursor' = FALSE /\ feedHasMore' = FALSE
    /\ feedLoadingMore' = FALSE
    /\ lastError' = FALSE
    /\ calls' = Request(calls, "feed", "", "")
    /\ UNCHANGED <<items, jobState, jobHistory, jobs>>

(* searchStoredArticles up to its request: a blank query throws before anything is assigned. *)
SearchStored(query) ==
    /\ Click
    /\ ~InFlight("search")
    /\ IF query
       THEN /\ feedQuery' = TRUE /\ nextCursor' = FALSE /\ feedHasMore' = FALSE
            /\ lastError' = FALSE
            /\ calls' = Request(calls, "search", "", "")
       ELSE /\ lastError' = TRUE
            /\ UNCHANGED <<feedQuery, nextCursor, feedHasMore, calls>>
    /\ UNCHANGED <<items, feedLoadingMore, jobState, jobHistory, jobs>>

(* loadMoreFeed up to its request, from the button or from scrolling. *)
LoadMore ==
    /\ Click
    /\ nextCursor /\ ~feedLoadingMore /\ feedQuery
    /\ feedLoadingMore' = TRUE
    /\ calls' = Request(calls, "more", "", "")
    /\ UNCHANGED <<feedState, jobState, jobHistory, lastError, jobs>>

(* startSearchJob up to its request: the timer goes first, also when the query is blank. *)
StartSearchJob(query) ==
    /\ Click
    /\ ~InFlight("start")
    /\ timers' = ClearTimer
    /\ lastError' = ~query
    /\ calls' = IF query THEN Request(calls, "start", "", "") ELSE calls
    /\ UNCHANGED <<feedState, feedLoadingMore, activeJob, pollTimer, jobHistory, jobs>>

(* openJob up to its request. *)
OpenJob(j) ==
    /\ Click
    /\ j \in jobHistory
    /\ lastError' = FALSE
    /\ calls' = Request(calls, "open", j, "")
    /\ UNCHANGED <<feedState, feedLoadingMore, jobState, jobHistory, jobs>>

(* loadJobHistory up to its request, from its button. *)
RefreshJobs ==
    /\ Click
    /\ calls' = Request(calls, "history", "", "")
    /\ UNCHANGED <<feedState, feedLoadingMore, jobState, jobHistory, lastError, jobs>>

(* sendReaction up to its request: "skip" on a card. *)
Skip(a) ==
    /\ Click
    /\ a \in Range(items)
    /\ lastError' = FALSE
    /\ calls' = Request(calls, "react", "", a)
    /\ UNCHANGED <<feedState, feedLoadingMore, jobState, jobHistory, jobs>>

-----------------------------------------------------------------------------
shouldPollJob(job) == job.status \in {"queued", "running"}

(* renderCompletedJobResults: the candidates of the job, none of a failed one, become the list. *)
RenderCompletedJobResults(job) ==
    /\ items' \in IF job.status = "completed" THEN Pages ELSE {<< >>}
    /\ nextCursor' = FALSE /\ feedHasMore' = FALSE
    /\ UNCHANGED feedQuery

(* scheduleJobPoll for the job on display from now on, when the requests cs are under way. *)
ScheduleJobPoll(job, cs) ==
    IF shouldPollJob(job)
    THEN LET id == Fresh(ClearTimer)
         IN  /\ timers' = ClearTimer \union {id}
             /\ pollTimer' = id
             /\ calls' = cs
             /\ UNCHANGED feedState
    ELSE /\ timers' = ClearTimer
         /\ UNCHANGED pollTimer
         /\ IF job.status = "completed"
            THEN RenderCompletedJobResults(job) /\ calls' = Request(cs, "history", "", "")
            ELSE UNCHANGED feedState /\ calls' = cs

(* The timer's callback up to its request: it asks for the job on display when it fires. *)
FireTimer ==
    \E t \in timers :
        /\ timers' = timers \ {t}
        /\ calls' = Request(calls, "poll", activeJob.id, "")
        /\ UNCHANGED <<feedState, feedLoadingMore, activeJob, pollTimer, jobHistory, lastError,
                       jobs, clicks>>

-----------------------------------------------------------------------------
(* External: parser-service creates the job of a request, runs it and finishes it. *)
CreateJob(c, j) ==
    /\ c.kind = "start" /\ c.job = ""
    /\ jobs[j] = ""
    /\ jobs' = [jobs EXCEPT ![j] = "queued"]
    /\ calls' = Answered(c) (+) SetToBag({[c EXCEPT !.job = j, !.seen = "queued"]})
    /\ UNCHANGED <<feedState, feedLoadingMore, jobState, jobHistory, lastError, clicks>>

JobProgress(j) ==
    /\ \/ jobs[j] = "queued" /\ jobs' = [jobs EXCEPT ![j] = "running"]
       \/ jobs[j] = "running" /\ \E s \in {"completed", "failed"} : jobs' = [jobs EXCEPT ![j] = s]
    /\ UNCHANGED <<feedState, feedLoadingMore, jobState, jobHistory, lastError, calls, clicks>>

Rank(status) ==
    CASE status = "" -> 0
      [] status = "queued" -> 1
      [] status = "running" -> 2
      [] OTHER -> 3

(* The job of a request as its response may show it: as it was at some time since the request. *)
Shown(c) ==
    {[id |-> c.job, status |-> s] :
        s \in {s \in Statuses : /\ Rank(c.seen) <= Rank(s)
                                /\ s = jobs[c.job] \/ Rank(s) < Rank(jobs[c.job])}}

-----------------------------------------------------------------------------
(* Mutant: what is on display already is appended again. *)
AppendAll(list, page) == list \o page

(* appendUniqueFeedItems; the page has no two equal cards. *)
AppendUnique(list, page) == list \o Keep(page, Articles \ Range(list))

(* The rest of loadFeed. *)
FeedLoaded(c) ==
    /\ c.kind = "feed"
    /\ items' \in Pages
    /\ nextCursor' = FALSE /\ feedHasMore' = FALSE
    /\ calls' = Answered(c)
    /\ UNCHANGED <<feedQuery, feedLoadingMore, jobState, jobHistory, lastError, jobs, clicks>>

(* The rest of searchStoredArticles. *)
SearchLoaded(c) ==
    /\ c.kind = "search"
    /\ items' \in Pages
    /\ nextCursor' \in BOOLEAN /\ feedHasMore' = nextCursor'
    /\ calls' = Answered(c)
    /\ UNCHANGED <<feedQuery, feedLoadingMore, jobState, jobHistory, lastError, jobs, clicks>>

(* The rest of loadMoreFeed: the page goes after whatever is on display now. *)
MoreLoaded(c) ==
    /\ c.kind = "more"
    /\ \E page \in Pages : items' = AppendUnique(items, page)
    /\ nextCursor' \in BOOLEAN /\ feedHasMore' = nextCursor'
    /\ feedLoadingMore' = FALSE
    /\ calls' = Answered(c)
    /\ UNCHANGED <<feedQuery, jobState, jobHistory, lastError, jobs, clicks>>

(* The rest of startSearchJob: the job on display is the new one, as it was created. *)
JobStarted(c) ==
    /\ c.kind = "start" /\ c.job # ""
    /\ activeJob' = [id |-> c.job, status |-> "queued"]
    /\ ScheduleJobPoll(activeJob', Request(Answered(c), "history", "", ""))
    /\ UNCHANGED <<feedLoadingMore, jobHistory, lastError, jobs, clicks>>

(* Mutant: the next poll is not scheduled. *)
PollOnce(c) ==
    /\ c.kind = "poll"
    /\ \E job \in Shown(c) : activeJob' = job
    /\ calls' = Answered(c)
    /\ UNCHANGED <<feedState, feedLoadingMore, pollTimer, timers, jobHistory, lastError, jobs, clicks>>

(* The rest of the timer's callback. *)
PollAnswered(c) ==
    /\ c.kind = "poll"
    /\ \E job \in Shown(c) :
          /\ activeJob' = job
          /\ ScheduleJobPoll(job, IF shouldPollJob(job) THEN Answered(c)
                                  ELSE Request(Answered(c), "history", "", ""))
    /\ UNCHANGED <<feedLoadingMore, jobHistory, lastError, jobs, clicks>>

(* The rest of openJob: a finished job is displayed, and a timer of another one is left alone. *)
JobOpened(c) ==
    /\ c.kind = "open"
    /\ \E job \in Shown(c) :
          /\ activeJob' = job
          /\ IF shouldPollJob(job)
             THEN ScheduleJobPoll(job, Answered(c))
             ELSE /\ RenderCompletedJobResults(job)
                  /\ calls' = Answered(c)
                  /\ UNCHANGED <<pollTimer, timers>>
    /\ UNCHANGED <<feedLoadingMore, jobHistory, lastError, jobs, clicks>>

(* The rest of loadJobHistory. *)
HistoryLoaded(c) ==
    /\ c.kind = "history"
    /\ jobHistory' = {j \in Jobs : jobs[j] # ""}
    /\ calls' = Answered(c)
    /\ UNCHANGED <<feedState, feedLoadingMore, jobState, lastError, jobs, clicks>>

(* The rest of sendReaction: applyLocalFeedReaction takes the card from what is on display now. *)
Skipped(c) ==
    /\ c.kind = "react"
    /\ items' = Keep(items, Articles \ {c.article})
    /\ calls' = Answered(c)
    /\ UNCHANGED <<feedQuery, nextCursor, feedHasMore, feedLoadingMore, jobState, jobHistory,
                   lastError, jobs, clicks>>

(* The catch and finally blocks: no connection, or a status that is not ok.  A failing history
   request empties the history and shows no error of its own in lastError. *)
Failed(c) ==
    /\ feedLoadingMore' = (feedLoadingMore /\ c.kind # "more")
    /\ jobHistory' = IF c.kind = "history" THEN {} ELSE jobHistory
    /\ lastError' = (lastError \/ c.kind # "history")
    /\ calls' = Answered(c)
    /\ UNCHANGED <<feedState, jobState, jobs, clicks>>

Respond ==
    \E c \in BagToSet(calls) :
        \/ FeedLoaded(c)
        \/ SearchLoaded(c)
        \/ MoreLoaded(c)
        \/ JobStarted(c)
        \/ PollAnswered(c)
        \/ JobOpened(c)
        \/ HistoryLoaded(c)
        \/ Skipped(c)
        \/ Failed(c)

WebNext ==
    \/ RefreshFeed
    \/ \E query \in BOOLEAN : SearchStored(query) \/ StartSearchJob(query)
    \/ LoadMore
    \/ \E j \in Jobs : OpenJob(j) \/ JobProgress(j)
    \/ RefreshJobs
    \/ \E a \in Articles : Skip(a)
    \/ \E c \in BagToSet(calls), j \in Jobs : CreateJob(c, j)
    \/ FireTimer
    \/ Respond

(* A timer fires, and a request is answered or fails. *)
WebSpec ==
    /\ WebInit /\ [][WebNext]_webVars
    /\ WF_webVars(FireTimer) /\ WF_webVars(Respond)

-----------------------------------------------------------------------------
(* No article has two cards, whichever responses of the feed, of searches, of pages and of jobs
   overwrite and extend the list, in whichever order: appendUniqueFeedItems looks at the list the
   page is appended to, not at the one it was asked for. *)
NoDuplicateCards == IsInjective(items)

(* However many chains of polls are started by new jobs, by opened jobs and by late responses,
   they share a single timer, the one state.pollTimer knows: the page never asks for jobs faster
   than once in 1200 ms. *)
OnePollTimer == timers \subseteq {pollTimer}

(* Something is under way that will ask for the job on display. *)
Polling == timers # {} \/ InFlight("poll") \/ InFlight("start")

(* When the job on display has finished at the gateway while it was being polled for, the page
   comes to show that, or shows an error: no order of clicks and responses makes the polling stop
   in silence. *)
FinishedJobIsShown ==
    \A j \in Jobs :
        (/\ activeJob.id = j /\ activeJob.status \in {"queued", "running"}
         /\ jobs[j] \in {"completed", "failed"} /\ Polling)
        ~> (lastError \/ activeJob.id # j \/ activeJob.status \in {"completed", "failed"})

=============================================================================
