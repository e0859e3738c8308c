-------------------------- MODULE ParserJobsProofs --------------------------
(***************************************************************************)
(* Proofs about parser-service's jobs, for any number of jobs, sources and *)
(* scheduled queries, and for any faults.  The goroutine of a job says how *)
(* the job is stored and what it has published: that is the invariant the  *)
(* contract and the isolation of failing sources both follow from.         *)
(***************************************************************************)
EXTENDS ParserJobs, RoundRobinProofs

Query == [sources : Seq(Sources), limit : Nat \ {0}]
Candidate == [source : Sources, url : Urls]

Job ==
    [status : {"none", "queued", "running", "completed", "failed"},
     query : Query, candidates : Seq(Candidate)]

Runner ==
    [pc : {"none", "start", "select", "search", "publish", "fail", "gone"},
     todo : Seq(Sources), seen : SUBSET Urls, buckets : Seq(Seq(Candidate)),
     lastErr : BOOLEAN, result : Seq(Candidate), sent : Nat]

(* What the jobs, their goroutines and their events are. *)
JobsTypeOK ==
    /\ driver \in {"postgres", "memory"}
    /\ enabled \subseteq Sources
    /\ jobs \in [JobIds -> Job]
    /\ runner \in [JobIds -> Runner]
    /\ published \subseteq [job : JobIds, candidate : Candidate]
    /\ failureEvents \subseteq [job : JobIds, source : Sources]
    /\ nextQuery \in Nat \ {0}
    /\ failures \in Nat

PublishedBy(j) == {e \in published : e.job = j}

(* What the place of its goroutine says of a job and of its events. *)
JobFollowsRunner(j) ==
    /\ runner[j].pc = "none" => jobs[j].status = "none"
    /\ runner[j].pc = "start" => jobs[j].status = "queued"
    /\ runner[j].pc \in {"select", "search", "publish", "fail"} => jobs[j].status = "running"
    /\ jobs[j].status # "completed" => jobs[j].candidates = << >>
    /\ runner[j].pc \in {"none", "start", "select", "search"} =>
          PublishedBy(j) = {} /\ runner[j].sent = 0
    /\ runner[j].pc = "publish" =>
          /\ runner[j].sent <= Len(runner[j].result)
          /\ PublishedBy(j) =
                {[job |-> j, candidate |-> runner[j].result[k]] : k \in 1..runner[j].sent}

JobsInv == JobsTypeOK /\ \A j \in JobIds : JobFollowsRunner(j)

(* While nothing but sources fails, a job is about to fail, or has failed, only with no bucket,
   and after a failure that was published. *)
FailsEmpty(j) ==
    /\ \A b \in DOMAIN runner[j].buckets : runner[j].buckets[b] # << >>
    /\ failures = 0 /\ runner[j].lastErr => \E e \in failureEvents : e.job = j
    /\ failures = 0 /\ (runner[j].pc = "fail" \/ jobs[j].status = "failed") =>
          runner[j].buckets = << >> /\ runner[j].lastErr

IsolationInv == JobsInv /\ \A j \in JobIds : FailsEmpty(j)

-----------------------------------------------------------------------------
(* sortScoredCandidates returns a list of pages. *)
LEMMA SortedIsList ==
  ASSUME NEW found \in Seq(Urls), NEW places \in SUBSET DOMAIN found
  PROVE  SortScored(found, places) \in Seq(Urls)
<1> DEFINE relevant == {i \in places : Relevance[found[i]] > 0}
           kept == IF relevant = {} THEN places ELSE relevant
           ahead == [i \in kept |-> {k \in kept :
                        \/ Relevance[found[k]] > Relevance[found[i]]
                        \/ Relevance[found[k]] = Relevance[found[i]] /\ k < i}]
           order == InOrder(ahead, kept)
<1>1. DOMAIN found = 1..Len(found) /\ Len(found) \in Nat
  OBVIOUS
<1>2. IsFiniteSet(1..Len(found))
  BY <1>1, FS_Interval
<1>3. kept \in SUBSET (1..Len(found))
  BY <1>1
<1>4. IsFiniteSet(kept)
  <2> HIDE DEF kept
  <2> QED BY <1>2, <1>3, FS_Subset
<1>5. SortScored(found, places) = [k \in DOMAIN order |-> found[order[k]]]
  BY DEF SortScored
<1>6. \A i, k \in kept :
         k \in ahead[i] <=> \/ Relevance[found[k]] > Relevance[found[i]]
                            \/ Relevance[found[k]] = Relevance[found[i]] /\ k < i
  <2> HIDE DEF kept
  <2> SUFFICES ASSUME NEW i \in kept, NEW k \in kept
               PROVE  k \in ahead[i] <=> \/ Relevance[found[k]] > Relevance[found[i]]
                                         \/ Relevance[found[k]] = Relevance[found[i]] /\ k < i
    OBVIOUS
  <2>1. ahead[i] = {x \in kept : \/ Relevance[found[x]] > Relevance[found[i]]
                                 \/ Relevance[found[x]] = Relevance[found[i]] /\ x < i}
    BY Zenon
  <2> HIDE DEF ahead
  <2> QED BY <2>1, Zenon
<1> HIDE DEF kept, ahead
<1>7. \A i \in kept : i \in Nat /\ found[i] \in Urls /\ Relevance[found[i]] \in Nat
  BY <1>3, JobsAssumption
<1>8. Orders(ahead, kept)
  <2>1. \A i \in kept : i \notin ahead[i]
    BY <1>6, <1>7
  <2>2. \A r, s, t \in kept : s \in ahead[r] /\ t \in ahead[s] => t \in ahead[r]
    BY <1>6, <1>7
  <2>3. ASSUME NEW r \in kept, NEW s \in kept PROVE r = s \/ r \in ahead[s] \/ s \in ahead[r]
    <3>1. r \in Nat /\ s \in Nat /\ Relevance[found[r]] \in Nat /\ Relevance[found[s]] \in Nat
      BY <1>7
    <3>2. \/ Relevance[found[r]] > Relevance[found[s]] \/ Relevance[found[s]] > Relevance[found[r]]
          \/ Relevance[found[r]] = Relevance[found[s]] /\ (r < s \/ s < r \/ r = s)
      BY <3>1
    <3> QED BY <1>6, <3>2, Zenon
  <2> QED BY <2>1, <2>2, <2>3 DEF Orders
<1>9. Cardinality(kept) \in Nat /\ order \in [1..Cardinality(kept) -> kept]
  BY <1>4, <1>8, InOrderLists
<1> HIDE DEF order
<1>10. SortScored(found, places) \in [1..Cardinality(kept) -> Urls]
  BY <1>5, <1>7, <1>9
<1> QED BY <1>9, <1>10, ListOfLength

(* Everything is as it should be at the start. *)
LEMMA JobsStart == JobsInit => IsolationInv
<1> SUFFICES ASSUME JobsInit PROVE IsolationInv
  OBVIOUS
<1>1. NoJob \in Job /\ NewRunner \in Runner
  BY DEF NoJob, NewRunner, Job, Runner, Query
<1>2. JobsTypeOK
  BY <1>1, JobsAssumption DEF JobsInit, JobsTypeOK
<1>3. ASSUME NEW j \in JobIds PROVE JobFollowsRunner(j) /\ FailsEmpty(j)
  <2>1. jobs[j] = NoJob /\ runner[j] = NewRunner /\ published = {} /\ failures = 0
    BY DEF JobsInit
  <2>2. PublishedBy(j) = {}
    BY <2>1 DEF PublishedBy
  <2>3. jobs[j].status = "none" /\ jobs[j].candidates = << >>
    BY <2>1 DEF NoJob
  <2>4. /\ runner[j].pc = "none" /\ runner[j].sent = 0 /\ runner[j].buckets = << >>
        /\ runner[j].lastErr = FALSE
    BY <2>1 DEF NewRunner
  <2>5. JobFollowsRunner(j)
    BY <2>2, <2>3, <2>4 DEF JobFollowsRunner
  <2>6. FailsEmpty(j)
    BY <2>3, <2>4 DEF FailsEmpty
  <2> QED BY <2>5, <2>6
<1> QED BY <1>2, <1>3 DEF IsolationInv, JobsInv

-----------------------------------------------------------------------------
(* Moving a goroutine changes its place alone. *)
LEMMA GoKeepsType ==
  ASSUME runner \in [JobIds -> Runner], NEW j \in JobIds,
         NEW place \in {"none", "start", "select", "search", "publish", "fail", "gone"},
         Go(j, place)
  PROVE  /\ runner' \in [JobIds -> Runner]
         /\ runner'[j] = [runner[j] EXCEPT !.pc = place]
         /\ \A i \in JobIds \ {j} : runner'[i] = runner[i]
BY DEF Go, Runner

(* Saving a job keeps the other jobs. *)
LEMMA SaveKeepsType ==
  ASSUME jobs \in [JobIds -> Job], NEW j \in JobIds, NEW job \in Job,
         UNCHANGED jobs \/ Save(j, job)
  PROVE  /\ jobs' \in [JobIds -> Job]
         /\ jobs'[j] \in {jobs[j], job}
         /\ \A i \in JobIds \ {j} : jobs'[i] = jobs[i]
BY DEF Save

(* What a goroutine and the API save is a job. *)
LEMMA SavedJobs ==
  ASSUME JobsTypeOK, NEW j \in JobIds
  PROVE  /\ \A q \in Query : Queued(q) \in Job
         /\ [jobs[j] EXCEPT !.status = "running"] \in Job
         /\ Completed(j) \in Job
         /\ Failed(j) \in Job
<1>1. jobs[j] \in Job /\ runner[j].result \in Seq(Candidate)
  BY DEF JobsTypeOK, Runner
<1>2. ASSUME NEW q \in Query PROVE Queued(q) \in Job
  BY DEF Job, Queued
<1>3. [jobs[j] EXCEPT !.status = "running"] \in Job
  BY <1>1 DEF Job
<1>4. Completed(j) \in Job
  BY <1>1 DEF Job, Completed
<1>5. Failed(j) \in Job
  BY <1>1 DEF Job, Failed
<1> QED BY <1>2, <1>3, <1>4, <1>5

(* The queries of clients and of the scheduler. *)
LEMMA QueriesAreQueries ==
  /\ Queries \subseteq Query
  /\ \A k \in Nat \ {0} : k <= Len(Scheduled) => Scheduled[k] \in Query
<1>1. Queries \subseteq Query /\ Range(Scheduled) \subseteq Query /\ Scheduled \in Seq(Range(Scheduled))
  BY JobsAssumption DEF Query
<1> QED BY <1>1

(* Faults are counted. *)
LEMMA FaultCounts ==
  ASSUME failures \in Nat, Fault
  PROVE  failures' \in Nat /\ failures' # 0
BY DEF Fault

(* The step of a search that returns: one source less to do, and its bucket if there is one. *)
LEMMA SearchSourceStep ==
  ASSUME JobsTypeOK, NEW j \in JobIds, SearchSource(j)
  PROVE  /\ runner' \in [JobIds -> Runner]
         /\ \A i \in JobIds \ {j} : runner'[i] = runner[i]
         /\ runner'[j].pc = "search" /\ runner'[j].sent = runner[j].sent
         /\ runner'[j].lastErr = runner[j].lastErr
         /\ \/ runner'[j].buckets = runner[j].buckets
            \/ \E bucket \in Seq(Candidate) :
                  bucket # << >> /\ runner'[j].buckets = Append(runner[j].buckets, bucket)
<1> DEFINE r == runner[j]
           s == Head(r.todo)
<1>1. r \in Runner /\ r.pc = "search" /\ r.todo # << >>
  BY DEF JobsTypeOK, SearchSource
<1>2. s \in Sources /\ Tail(r.todo) \in Seq(Sources)
  BY <1>1 DEF Runner
<1>3. PICK found \in Finds[s] :
        LET fresh  == {i \in DOMAIN found : found[i] \notin runner[j].seen}
            ranked == SortScored(found, fresh)
            bucket == [i \in DOMAIN ranked |-> [source |-> Head(runner[j].todo), url |-> ranked[i]]]
        IN  runner' = [runner EXCEPT ![j].todo = Tail(@),
                          ![j].seen = @ \union {found[i] : i \in fresh},
                          ![j].buckets = IF bucket = << >> THEN @ ELSE Append(@, bucket)]
  BY DEF SearchSource
<1> DEFINE fresh == {i \in DOMAIN found : found[i] \notin runner[j].seen}
           ranked == SortScored(found, fresh)
           bucket == [i \in DOMAIN ranked |-> [source |-> s, url |-> ranked[i]]]
           more == {found[i] : i \in fresh}
           new == IF bucket = << >> THEN r.buckets ELSE Append(r.buckets, bucket)
<1>4. found \in Seq(Urls)
  BY <1>2, <1>3, JobsAssumption
<1>5. ranked \in Seq(Urls)
  <2>1. fresh \in SUBSET DOMAIN found
    OBVIOUS
  <2> HIDE DEF fresh
  <2> QED BY <1>4, <2>1, SortedIsList
<1>6. more \subseteq Urls
  BY <1>4
<1>7. runner' = [runner EXCEPT ![j].todo = Tail(@), ![j].seen = @ \union more, ![j].buckets = new]
  BY <1>3
<1> HIDE DEF ranked, more, new
<1>8. bucket \in Seq(Candidate)
  <2>1. Len(ranked) \in Nat /\ DOMAIN ranked = 1..Len(ranked) /\ \A i \in 1..Len(ranked) : ranked[i] \in Urls
    BY <1>5
  <2>2. \A i \in 1..Len(ranked) : [source |-> s, url |-> ranked[i]] \in Candidate
    BY <1>2, <2>1 DEF Candidate
  <2>3. bucket \in [1..Len(ranked) -> Candidate]
    BY <2>1, <2>2
  <2> QED BY <2>1, <2>3, ListOfLength
<1> HIDE DEF bucket
<1>9. new \in Seq(Seq(Candidate))
  BY <1>1, <1>8 DEF new, Runner
<1>10. runner'[j] = [r EXCEPT !.todo = Tail(r.todo), !.seen = r.seen \union more, !.buckets = new]
  BY <1>7 DEF JobsTypeOK
<1>11. runner'[j] \in Runner
  BY <1>1, <1>2, <1>6, <1>9, <1>10 DEF Runner
<1>12. /\ runner' \in [JobIds -> Runner]
       /\ \A i \in JobIds \ {j} : runner'[i] = runner[i]
  BY <1>7, <1>11 DEF JobsTypeOK
<1>13. /\ runner'[j].pc = r.pc /\ runner'[j].sent = r.sent /\ runner'[j].lastErr = r.lastErr
       /\ runner'[j].buckets = new
  BY <1>1, <1>10 DEF Runner
<1>14. new = r.buckets \/ (bucket # << >> /\ new = Append(r.buckets, bucket))
  BY DEF new
<1> QED BY <1>1, <1>8, <1>12, <1>13, <1>14

(* The step of the merge. *)
LEMMA MergeStep ==
  ASSUME JobsTypeOK, NEW j \in JobIds, MergeBuckets(j)
  PROVE  LET merged == InterleaveBuckets(runner[j].buckets, jobs[j].query.limit)
         IN  /\ merged \in Seq(Candidate)
             /\ merged = << >> => Turns(runner[j].buckets) = {}
             /\ runner' \in [JobIds -> Runner]
             /\ \A i \in JobIds \ {j} : runner'[i] = runner[i]
             /\ runner'[j].pc = IF merged = << >> /\ runner[j].lastErr THEN "fail" ELSE "publish"
             /\ runner'[j].sent = runner[j].sent /\ runner'[j].result = merged
             /\ runner'[j].lastErr = runner[j].lastErr /\ runner'[j].buckets = runner[j].buckets
<1> DEFINE r == runner[j]
           limit == jobs[j].query.limit
           merged == InterleaveBuckets(r.buckets, limit)
           place == IF merged = << >> /\ r.lastErr THEN "fail" ELSE "publish"
<1>1. r \in Runner /\ r.buckets \in Seq(Seq(Candidate)) /\ limit \in Nat \ {0}
  BY DEF JobsTypeOK, Runner, Job, Query
<1>2. runner' = [runner EXCEPT ![j].result = merged, ![j].pc = place]
  BY DEF MergeBuckets
<1> HIDE DEF limit
<1>3. merged \in Seq(Candidate) /\ (Len(merged) = 0 => Turns(r.buckets) = {})
  <2>1. limit \in Nat /\ limit # 0
    BY <1>1
  <2> DEFINE buckets == r.buckets
  <2>2. buckets \in Seq(Seq(Candidate))
    BY <1>1
  <2> HIDE DEF buckets
  <2>3. /\ InterleaveBuckets(buckets, limit) \in Seq(Candidate)
        /\ Len(InterleaveBuckets(buckets, limit)) = 0 => limit = 0 \/ Turns(buckets) = {}
    BY <2>1, <2>2, InterleaveTakes
  <2> QED BY <2>1, <2>3 DEF buckets
<1> HIDE DEF merged
<1>4. merged = << >> => Turns(r.buckets) = {}
  BY <1>3
<1>5. place \in {"fail", "publish"}
  OBVIOUS
<1> HIDE DEF place
<1>6. runner'[j] = [r EXCEPT !.result = merged, !.pc = place]
  BY <1>2 DEF JobsTypeOK
<1>7. runner'[j] \in Runner
  BY <1>1, <1>3, <1>5, <1>6 DEF Runner
<1>8. /\ runner' \in [JobIds -> Runner]
      /\ \A i \in JobIds \ {j} : runner'[i] = runner[i]
  BY <1>2, <1>7 DEF JobsTypeOK
<1>9. /\ runner'[j].pc = place /\ runner'[j].sent = r.sent /\ runner'[j].result = merged
      /\ runner'[j].lastErr = r.lastErr /\ runner'[j].buckets = r.buckets
  BY <1>1, <1>6 DEF Runner
<1> QED BY <1>3, <1>4, <1>8, <1>9 DEF merged, limit, place

-----------------------------------------------------------------------------
(* A step of one job leaves the others alone. *)
OthersKept(j) ==
    \A i \in JobIds \ {j} :
        runner'[i] = runner[i] /\ jobs'[i] = jobs[i] /\ PublishedBy(i)' = PublishedBy(i)

(* It is enough to look at the job of the step. *)
LEMMA OthersFollow ==
  ASSUME JobsInv, NEW j \in JobIds, JobsTypeOK', OthersKept(j), JobFollowsRunner(j)'
  PROVE  JobsInv'
<1>1. ASSUME NEW i \in JobIds, i # j PROVE JobFollowsRunner(i)'
  <2>1. JobFollowsRunner(i) /\ runner'[i] = runner[i] /\ jobs'[i] = jobs[i]
        /\ PublishedBy(i)' = PublishedBy(i)
    BY <1>1 DEF JobsInv, OthersKept
  <2> QED BY <2>1 DEF JobFollowsRunner
<1> QED BY <1>1 DEF JobsInv

(* A job that is saved before it is published keeps the events of all jobs. *)
LEMMA SameEvents ==
  ASSUME UNCHANGED published, NEW i
  PROVE  PublishedBy(i)' = PublishedBy(i)
BY DEF PublishedBy

(* A job is accepted, or its acceptance fails and leaves no goroutine. *)
LEMMA AcceptStep ==
  ASSUME JobsInv, NEW j \in JobIds, NEW q \in Query, runner[j].pc = "none",
         \/ Save(j, Queued(q)) /\ Go(j, "start")
         \/ (UNCHANGED jobs \/ Save(j, Queued(q))) /\ Go(j, "gone"),
         UNCHANGED <<driver, enabled, published, failureEvents>>,
         nextQuery' \in Nat \ {0}, failures' \in Nat
  PROVE  JobsInv'
<1>1. JobsTypeOK /\ Queued(q) \in Job
  BY SavedJobs DEF JobsInv
<1>2. /\ runner \in [JobIds -> Runner] /\ jobs \in [JobIds -> Job]
      /\ runner[j] \in Runner /\ runner[j].sent = 0 /\ PublishedBy(j) = {}
      /\ jobs[j].status = "none" /\ jobs[j].candidates = << >>
  BY <1>1 DEF JobsTypeOK, JobsInv, JobFollowsRunner
<1>3. PICK place \in {"start", "gone"} : Go(j, place) /\ (place = "start" => Save(j, Queued(q)))
  OBVIOUS
<1>4. UNCHANGED jobs \/ Save(j, Queued(q))
  OBVIOUS
<1>5. /\ runner' \in [JobIds -> Runner] /\ runner'[j] = [runner[j] EXCEPT !.pc = place]
      /\ \A i \in JobIds \ {j} : runner'[i] = runner[i]
  BY <1>2, <1>3, GoKeepsType
<1>6. /\ jobs' \in [JobIds -> Job] /\ jobs'[j] \in {jobs[j], Queued(q)}
      /\ \A i \in JobIds \ {j} : jobs'[i] = jobs[i]
  BY <1>1, <1>2, <1>4, SaveKeepsType
<1>7. JobsTypeOK'
  BY <1>1, <1>5, <1>6 DEF JobsTypeOK
<1>8. \A i : PublishedBy(i)' = PublishedBy(i)
  BY SameEvents
<1>9. OthersKept(j)
  BY <1>5, <1>6, <1>8 DEF OthersKept
<1>10. runner'[j].pc = place /\ runner'[j].sent = 0
  BY <1>2, <1>5 DEF Runner
<1>11. jobs'[j].candidates = << >> /\ (place = "start" => jobs'[j].status = "queued")
  <2>1. Queued(q).candidates = << >> /\ Queued(q).status = "queued"
    BY DEF Queued
  <2>2. place = "start" => jobs'[j] = Queued(q)
    BY <1>2, <1>3 DEF Save
  <2> QED BY <1>2, <1>6, <2>1, <2>2
<1>12. JobFollowsRunner(j)'
  BY <1>2, <1>8, <1>10, <1>11 DEF JobFollowsRunner
<1> QED BY <1>7, <1>9, <1>12, OthersFollow

(* A goroutine saves its job and goes on, or cannot save it and is gone. *)
LEMMA SaveStep ==
  ASSUME JobsInv, NEW j \in JobIds, NEW job \in Job, NEW place \in {"select", "gone"},
         UNCHANGED jobs \/ Save(j, job), Go(j, place),
         place = "select" => Save(j, job) /\ runner[j].pc = "start" /\ job.status = "running",
         job.status # "completed" => job.candidates = << >>,
         UNCHANGED <<driver, enabled, published, failureEvents, nextQuery>>, failures' \in Nat
  PROVE  JobsInv'
<1>1. JobsTypeOK
  BY DEF JobsInv
<1>2. /\ runner \in [JobIds -> Runner] /\ jobs \in [JobIds -> Job] /\ runner[j] \in Runner
      /\ jobs[j].status # "completed" => jobs[j].candidates = << >>
      /\ runner[j].pc = "start" => PublishedBy(j) = {} /\ runner[j].sent = 0
  BY <1>1 DEF JobsTypeOK, JobsInv, JobFollowsRunner
<1>3. /\ runner' \in [JobIds -> Runner] /\ runner'[j] = [runner[j] EXCEPT !.pc = place]
      /\ \A i \in JobIds \ {j} : runner'[i] = runner[i]
  BY <1>2, GoKeepsType
<1>4. /\ jobs' \in [JobIds -> Job] /\ jobs'[j] \in {jobs[j], job}
      /\ \A i \in JobIds \ {j} : jobs'[i] = jobs[i]
  BY <1>2, SaveKeepsType
<1>5. JobsTypeOK'
  BY <1>1, <1>3, <1>4 DEF JobsTypeOK
<1>6. \A i : PublishedBy(i)' = PublishedBy(i)
  BY SameEvents
<1>7. OthersKept(j)
  BY <1>3, <1>4, <1>6 DEF OthersKept
<1>8. runner'[j].pc = place /\ runner'[j].sent = runner[j].sent
  BY <1>2, <1>3 DEF Runner
<1>9. jobs'[j].status # "completed" => jobs'[j].candidates = << >>
  BY <1>2, <1>4
<1>10. place = "select" => jobs'[j].status = "running"
  BY <1>2 DEF Save
<1>11. JobFollowsRunner(j)'
  BY <1>2, <1>6, <1>8, <1>9, <1>10 DEF JobFollowsRunner
<1> QED BY <1>5, <1>7, <1>11, OthersFollow

(* A goroutine moves within a job that stays as it is stored and publishes nothing. *)
LEMMA MoveStep ==
  ASSUME JobsInv, NEW j \in JobIds, JobsTypeOK',
         \A i \in JobIds \ {j} : runner'[i] = runner[i],
         UNCHANGED <<jobs, published>>,
         runner[j].pc \in {"select", "search"}, runner'[j].pc \in {"search", "publish", "fail"},
         runner'[j].sent = runner[j].sent
  PROVE  JobsInv'
<1>1. \A i : PublishedBy(i)' = PublishedBy(i)
  BY SameEvents
<1>2. OthersKept(j)
  BY <1>1 DEF OthersKept
<1>3. PublishedBy(j) = {} /\ runner[j].sent = 0 /\ jobs[j].status = "running"
      /\ jobs[j].candidates = << >>
  BY DEF JobsInv, JobFollowsRunner
<1>4. runner'[j].result \in Seq(Candidate)
  BY DEF JobsTypeOK, Runner
<1>5. JobFollowsRunner(j)'
  <2>1. 0 <= Len(runner'[j].result)
    BY <1>4
  <2>2. {[job |-> j, candidate |-> runner'[j].result[k]] : k \in 1..0} = {}
    OBVIOUS
  <2> QED BY <1>1, <1>3, <2>1, <2>2 DEF JobFollowsRunner
<1> QED BY <1>2, <1>5, OthersFollow

(* The candidate that is next is a candidate, published by its job alone. *)
LEMMA SentStep ==
  ASSUME JobsTypeOK, NEW j \in JobIds, runner[j].sent < Len(runner[j].result),
         published' = published \union {Sent(j)}
  PROVE  /\ Sent(j) = [job |-> j, candidate |-> runner[j].result[runner[j].sent + 1]]
         /\ Sent(j) \in [job : JobIds, candidate : Candidate] /\ Sent(j).job = j
         /\ published' \subseteq [job : JobIds, candidate : Candidate]
         /\ PublishedBy(j)' = PublishedBy(j) \union {Sent(j)}
         /\ \A i \in JobIds \ {j} : PublishedBy(i)' = PublishedBy(i)
<1>1. runner[j].result \in Seq(Candidate) /\ runner[j].sent \in Nat
  BY DEF JobsTypeOK, Runner
<1>2. runner[j].result[runner[j].sent + 1] \in Candidate
  BY <1>1
<1>3. Sent(j) = [job |-> j, candidate |-> runner[j].result[runner[j].sent + 1]]
  BY DEF Sent
<1>4. Sent(j) \in [job : JobIds, candidate : Candidate] /\ Sent(j).job = j
  BY <1>2, <1>3
<1>5. published' \subseteq [job : JobIds, candidate : Candidate]
  BY <1>4 DEF JobsTypeOK
<1>6. PublishedBy(j)' = PublishedBy(j) \union {Sent(j)}
  BY <1>4 DEF PublishedBy
<1>7. ASSUME NEW i \in JobIds \ {j} PROVE PublishedBy(i)' = PublishedBy(i)
  BY <1>4 DEF PublishedBy
<1> QED BY <1>3, <1>4, <1>5, <1>6, <1>7

(* A candidate is published. *)
LEMMA PublishStep ==
  ASSUME JobsInv, NEW j \in JobIds, PublishCandidate(j)
  PROVE  JobsInv'
<1> DEFINE r == runner[j]
<1>1. JobsTypeOK /\ r \in Runner /\ r.pc = "publish" /\ r.sent < Len(r.result)
  BY DEF JobsInv, JobsTypeOK, PublishCandidate
<1>2. r.result \in Seq(Candidate) /\ r.sent \in Nat
  BY <1>1 DEF Runner
<1>3. /\ Sent(j) = [job |-> j, candidate |-> r.result[r.sent + 1]]
      /\ published' \subseteq [job : JobIds, candidate : Candidate]
      /\ PublishedBy(j)' = PublishedBy(j) \union {Sent(j)}
      /\ \A i \in JobIds \ {j} : PublishedBy(i)' = PublishedBy(i)
  BY <1>1, SentStep DEF PublishCandidate
<1>4. runner'[j] = [r EXCEPT !.sent = r.sent + 1] /\ \A i \in JobIds \ {j} : runner'[i] = runner[i]
  BY <1>1 DEF PublishCandidate, JobsTypeOK
<1>5. runner'[j] \in Runner /\ runner' \in [JobIds -> Runner]
  <2>1. runner'[j] \in Runner
    <3> DEFINE next == r.sent + 1
    <3>1. next \in Nat /\ runner'[j] = [r EXCEPT !.sent = next] /\ r \in Runner
      BY <1>1, <1>2, <1>4
    <3> HIDE DEF next, r
    <3> QED BY <3>1 DEF Runner
  <2> QED BY <1>1, <1>4, <2>1 DEF JobsTypeOK, PublishCandidate
<1>6. JobsTypeOK'
  BY <1>1, <1>3, <1>5 DEF JobsTypeOK, PublishCandidate
<1>7. OthersKept(j)
  BY <1>3, <1>4 DEF OthersKept, PublishCandidate
<1>8. runner'[j].pc = "publish" /\ runner'[j].sent = r.sent + 1 /\ runner'[j].result = r.result
  BY <1>1, <1>4 DEF Runner
<1>9. /\ PublishedBy(j) = {[job |-> j, candidate |-> r.result[k]] : k \in 1..r.sent}
      /\ jobs[j].status = "running" /\ jobs[j].candidates = << >>
      /\ jobs'[j] = jobs[j]
  BY <1>1 DEF JobsInv, JobFollowsRunner, PublishCandidate
<1> HIDE DEF r
<1>10. PublishedBy(j)' = {[job |-> j, candidate |-> r.result[k]] : k \in 1..(r.sent + 1)}
  <2>1. 1..(r.sent + 1) = 1..r.sent \union {r.sent + 1}
    BY <1>2
  <2> QED BY <1>3, <1>9, <2>1
<1>11. r.sent + 1 <= Len(r.result)
  BY <1>1, <1>2
<1>12. JobFollowsRunner(j)'
  BY <1>8, <1>9, <1>10, <1>11 DEF JobFollowsRunner
<1> QED BY <1>6, <1>7, <1>12, OthersFollow

(* A candidate cannot be published, or so it seems. *)
LEMMA PublishFailsStep ==
  ASSUME JobsInv, NEW j \in JobIds, PublishFails(j)
  PROVE  JobsInv'
<1>1. JobsTypeOK /\ runner[j] \in Runner /\ runner \in [JobIds -> Runner]
      /\ runner[j].pc = "publish" /\ runner[j].sent < Len(runner[j].result)
  BY DEF JobsInv, JobsTypeOK, PublishFails
<1>2. /\ published' \subseteq [job : JobIds, candidate : Candidate]
      /\ \A i \in JobIds \ {j} : PublishedBy(i)' = PublishedBy(i)
  <2>1. CASE UNCHANGED published
    BY <1>1, <2>1, SameEvents DEF JobsTypeOK
  <2>2. CASE published' = published \union {Sent(j)}
    BY <1>1, <2>2, SentStep
  <2> QED BY <2>1, <2>2 DEF PublishFails
<1>3. /\ runner' \in [JobIds -> Runner] /\ runner'[j] = [runner[j] EXCEPT !.pc = "fail"]
      /\ \A i \in JobIds \ {j} : runner'[i] = runner[i]
  BY <1>1, GoKeepsType DEF PublishFails
<1>4. failures' \in Nat
  BY <1>1, FaultCounts DEF PublishFails, JobsTypeOK
<1>5. JobsTypeOK'
  BY <1>1, <1>2, <1>3, <1>4 DEF JobsTypeOK, PublishFails
<1>6. OthersKept(j)
  BY <1>2, <1>3 DEF OthersKept, PublishFails
<1>7. runner'[j].pc = "fail"
  BY <1>1, <1>3 DEF Runner
<1>8. jobs'[j] = jobs[j] /\ jobs[j].status = "running" /\ jobs[j].candidates = << >>
  BY <1>1 DEF JobsInv, JobFollowsRunner, PublishFails
<1>9. JobFollowsRunner(j)'
  BY <1>7, <1>8 DEF JobFollowsRunner
<1> QED BY <1>5, <1>6, <1>9, OthersFollow

(* The process ends: what is stored stays, or all of it is lost, and of the job that was just
   being accepted it may be stored or not. *)
LEMMA KillStep ==
  ASSUME JobsInv, NEW more \in SUBSET JobIds, KillRunners(more),
         jobs' \in [JobIds -> Job],
         \A i \in JobIds : \/ jobs'[i] = jobs[i]
                           \/ jobs'[i] = NoJob
                           \/ i \in more /\ jobs'[i].candidates = << >>,
         UNCHANGED <<driver, enabled, published, failureEvents, nextQuery>>, failures' \in Nat
  PROVE  JobsInv'
<1>1. JobsTypeOK
  BY DEF JobsInv
<1>2. ASSUME NEW i \in JobIds
      PROVE  /\ runner'[i] \in Runner
             /\ runner'[i].pc = IF i \in more \/ runner[i].pc # "none" THEN "gone" ELSE "none"
             /\ runner'[i].sent = runner[i].sent
             /\ JobFollowsRunner(i)'
  <2>1. runner[i] \in Runner /\ JobFollowsRunner(i)
    BY <1>1 DEF JobsTypeOK, JobsInv
  <2>2. /\ i \in more \/ runner[i].pc # "none" => runner'[i] = [runner[i] EXCEPT !.pc = "gone"]
        /\ ~(i \in more \/ runner[i].pc # "none") => runner'[i] = runner[i]
    BY DEF KillRunners
  <2>3. /\ runner'[i] \in Runner
        /\ runner'[i].pc = IF i \in more \/ runner[i].pc # "none" THEN "gone" ELSE "none"
        /\ runner'[i].sent = runner[i].sent
    BY <2>1, <2>2 DEF Runner
  <2>4. NoJob.status = "none" /\ NoJob.candidates = << >>
    BY DEF NoJob
  <2>5. jobs'[i].status # "completed" => jobs'[i].candidates = << >>
    BY <2>1, <2>4 DEF JobFollowsRunner
  <2>6. PublishedBy(i)' = PublishedBy(i)
    BY SameEvents
  <2>7. CASE i \in more \/ runner[i].pc # "none"
    <3>1. runner'[i].pc = "gone"
      BY <2>3, <2>7
    <3>2. JobFollowsRunner(i)'
      BY <2>5, <3>1 DEF JobFollowsRunner
    <3> QED BY <2>3, <3>2
  <2>8. CASE ~(i \in more \/ runner[i].pc # "none")
    <3>1. runner'[i] = runner[i] /\ runner[i].pc = "none"
      BY <2>2, <2>8
    <3>2. jobs'[i] \in {jobs[i], NoJob}
      BY <2>8
    <3>3. JobFollowsRunner(i)'
      BY <2>1, <2>4, <2>5, <2>6, <3>1, <3>2 DEF JobFollowsRunner
    <3> QED BY <2>3, <3>3
  <2> QED BY <2>7, <2>8
<1>3. runner' \in [JobIds -> Runner]
  BY <1>2 DEF KillRunners
<1>4. JobsTypeOK'
  BY <1>1, <1>3 DEF JobsTypeOK
<1> QED BY <1>2, <1>4 DEF JobsInv

(* The search of a source fails: one source less to do. *)
LEMMA SearchFailsStep ==
  ASSUME JobsTypeOK, NEW j \in JobIds, SearchFails(j)
  PROVE  /\ JobsTypeOK'
         /\ \A i \in JobIds \ {j} : runner'[i] = runner[i]
         /\ runner'[j].pc = "search" /\ runner'[j].sent = runner[j].sent
         /\ runner'[j].lastErr = TRUE /\ runner'[j].buckets = runner[j].buckets
         /\ failureEvents \subseteq failureEvents'
         /\ failures' = 0 => failures = 0 /\ \E e \in failureEvents' : e.job = j
<1> DEFINE r == runner[j]
           e == [job |-> j, source |-> Head(r.todo)]
<1>1. r \in Runner /\ r.pc = "search" /\ r.todo # << >>
  BY DEF JobsTypeOK, SearchFails
<1>2. Head(r.todo) \in Sources /\ Tail(r.todo) \in Seq(Sources)
  BY <1>1 DEF Runner
<1>3. e \in [job : JobIds, source : Sources] /\ e.job = j
  BY <1>2
<1>4. \/ failureEvents' = failureEvents \union {e} /\ UNCHANGED failures
      \/ Fault /\ UNCHANGED failureEvents
  BY DEF SearchFails
<1>5. runner'[j] = [r EXCEPT !.todo = Tail(r.todo), !.lastErr = TRUE]
      /\ \A i \in JobIds \ {j} : runner'[i] = runner[i]
  BY DEF SearchFails, JobsTypeOK
<1>6. /\ runner'[j] \in Runner
      /\ runner'[j].pc = r.pc /\ runner'[j].sent = r.sent /\ runner'[j].lastErr = TRUE
      /\ runner'[j].buckets = r.buckets
  <2> HIDE DEF r
  <2> QED BY <1>1, <1>2, <1>5 DEF Runner
<1>7. runner' \in [JobIds -> Runner]
  BY <1>5, <1>6 DEF SearchFails, JobsTypeOK
<1>8. /\ failureEvents \subseteq failureEvents'
      /\ failureEvents' \subseteq [job : JobIds, source : Sources]
  BY <1>3, <1>4 DEF JobsTypeOK
<1>9. failures' \in Nat /\ (failures' = 0 => failures = 0 /\ failureEvents' = failureEvents \union {e})
  BY <1>4, FaultCounts DEF JobsTypeOK
<1>10. JobsTypeOK'
  BY <1>7, <1>8, <1>9 DEF JobsTypeOK, SearchFails
<1> QED BY <1>1, <1>3, <1>5, <1>6, <1>8, <1>9, <1>10

(* The sources to search are chosen. *)
LEMMA SelectStep ==
  ASSUME JobsTypeOK, NEW j \in JobIds, SelectSources(j)
  PROVE  /\ JobsTypeOK'
         /\ \A i \in JobIds \ {j} : runner'[i] = runner[i]
         /\ runner'[j].pc = "search" /\ runner'[j].sent = runner[j].sent
         /\ runner'[j].lastErr = runner[j].lastErr /\ runner'[j].buckets = runner[j].buckets
<1> DEFINE r == runner[j]
           asked == jobs[j].query.sources
           among == IF asked = << >> THEN SourceOrder ELSE asked
           todo == Keep(among, enabled)
<1>1. r \in Runner /\ among \in Seq(Sources)
  <2>1. asked \in Seq(Sources)
    BY DEF JobsTypeOK, Job, Query
  <2> QED BY <2>1, JobsAssumption DEF JobsTypeOK
<1>2. runner' = [runner EXCEPT ![j].pc = "search", ![j].todo = todo]
  BY DEF SelectSources
<1> HIDE DEF among
<1>3. todo \in Seq(Sources)
  <2>1. todo \in Seq(Sources \intersect enabled)
    BY <1>1, KeepFilters
  <2> HIDE DEF todo
  <2> QED BY <2>1
<1> HIDE DEF todo
<1>4. runner'[j] = [r EXCEPT !.pc = "search", !.todo = todo]
      /\ \A i \in JobIds \ {j} : runner'[i] = runner[i]
  BY <1>2 DEF JobsTypeOK
<1>5. /\ runner'[j] \in Runner
      /\ runner'[j].pc = "search" /\ runner'[j].sent = r.sent /\ runner'[j].lastErr = r.lastErr
      /\ runner'[j].buckets = r.buckets
  <2> HIDE DEF r
  <2> QED BY <1>1, <1>3, <1>4 DEF Runner
<1>6. JobsTypeOK'
  BY <1>2, <1>4, <1>5 DEF JobsTypeOK, SelectSources
<1> QED BY <1>4, <1>5, <1>6

(* Every step keeps the invariant. *)
LEMMA JobsStep == JobsInv /\ [JobsNext]_parserVars => JobsInv'
<1> SUFFICES ASSUME JobsInv, [JobsNext]_parserVars PROVE JobsInv'
  OBVIOUS
<1>t. JobsTypeOK /\ \A j \in JobIds : JobFollowsRunner(j)
  BY DEF JobsInv
<1>u. ASSUME UNCHANGED <<jobs, runner, published>>, JobsTypeOK' PROVE JobsInv'
  <2>1. ASSUME NEW j \in JobIds PROVE JobFollowsRunner(j)'
    <3>1. PublishedBy(j)' = PublishedBy(j)
      BY <1>u, SameEvents
    <3> QED BY <1>t, <1>u, <3>1 DEF JobFollowsRunner
  <2> QED BY <1>u, <2>1 DEF JobsInv
<1>f. ASSUME Fault PROVE failures' \in Nat
  BY <1>t, <1>f, FaultCounts DEF JobsTypeOK
<1>i. RequestIds \subseteq JobIds /\ ScheduledIds \subseteq JobIds
  BY DEF JobIds
<1>1. ASSUME NEW j \in RequestIds, NEW q \in Queries, CreateJob(j, q) PROVE JobsInv'
  <2>1. q \in Query /\ j \in JobIds
    BY <1>i, QueriesAreQueries
  <2>2. nextQuery' \in Nat \ {0} /\ failures' \in Nat
    BY <1>t, <1>1 DEF CreateJob, JobsTypeOK
  <2> QED BY <1>1, <2>1, <2>2, AcceptStep DEF CreateJob
<1>2. ASSUME NEW j \in RequestIds, NEW q \in Queries, CreateJobFails(j, q) PROVE JobsInv'
  <2>1. q \in Query /\ j \in JobIds
    BY <1>i, QueriesAreQueries
  <2>2. nextQuery' \in Nat \ {0} /\ failures' \in Nat /\ (UNCHANGED jobs \/ Save(j, Queued(q)))
    BY <1>t, <1>2, <1>f DEF CreateJobFails, JobsTypeOK, SaveFails
  <2> QED BY <1>2, <2>1, <2>2, AcceptStep DEF CreateJobFails
<1>3. ASSUME NEW j \in ScheduledIds, ScheduleNext(j) PROVE JobsInv'
  <2>1. nextQuery \in Nat \ {0} /\ nextQuery' \in Nat \ {0} /\ failures' \in Nat
    BY <1>t, <1>3 DEF ScheduleNext, JobsTypeOK
  <2>2. Scheduled[nextQuery] \in Query /\ j \in JobIds
    BY <1>3, <1>i, <2>1, QueriesAreQueries DEF ScheduleNext
  <2> QED BY <1>3, <2>1, <2>2, AcceptStep DEF ScheduleNext, IsNextId
<1>4. ASSUME NEW j \in ScheduledIds, ScheduleFails(j) PROVE JobsInv'
  <2> DEFINE job == Queued(Scheduled[nextQuery])
  <2>1. nextQuery \in Nat \ {0} /\ failures' \in Nat /\ (UNCHANGED jobs \/ Save(j, job))
    BY <1>t, <1>4, <1>f DEF ScheduleFails, JobsTypeOK, SaveFails
  <2>2. Scheduled[nextQuery] \in Query /\ j \in JobIds
    BY <1>4, <1>i, <2>1, QueriesAreQueries DEF ScheduleFails
  <2>3. job \in Job /\ job.candidates = << >>
    BY <1>t, <2>2, SavedJobs DEF Queued
  <2> HIDE DEF job
  <2>4. /\ jobs' \in [JobIds -> Job] /\ jobs'[j] \in {jobs[j], job}
        /\ \A i \in JobIds \ {j} : jobs'[i] = jobs[i]
    BY <1>t, <2>1, <2>2, <2>3, SaveKeepsType DEF JobsTypeOK
  <2>5. \A i \in JobIds : jobs'[i] = jobs[i] \/ (i \in {j} /\ jobs'[i].candidates = << >>)
    BY <2>3, <2>4
  <2> QED BY <1>4, <2>1, <2>2, <2>4, <2>5, KillStep DEF ScheduleFails
<1>5. ASSUME Tick PROVE JobsInv'
  BY <1>t, <1>u, <1>5 DEF Tick, JobsTypeOK
<1>6. ASSUME NEW s \in Toggled, SetEnabled(s) PROVE JobsInv'
  <2>1. enabled' \subseteq Sources
    BY <1>t, <1>6, JobsAssumption DEF SetEnabled, JobsTypeOK
  <2> QED BY <1>t, <1>u, <1>6, <2>1 DEF SetEnabled, JobsTypeOK
<1>7. ASSUME NEW j \in JobIds, MarkRunning(j) \/ MarkRunningFails(j) PROVE JobsInv'
  <2> DEFINE job == [jobs[j] EXCEPT !.status = "running"]
  <2>1. jobs[j] \in Job /\ job \in Job /\ jobs[j].status = "queued" /\ jobs[j].candidates = << >>
    BY <1>t, <1>7, SavedJobs DEF JobsTypeOK, JobFollowsRunner, MarkRunning, MarkRunningFails
  <2>2. job.status = "running" /\ job.candidates = << >>
    BY <2>1 DEF Job
  <2> HIDE DEF job
  <2>3. CASE MarkRunning(j)
    <3>1. Save(j, job) /\ Go(j, "select") /\ runner[j].pc = "start" /\ failures' \in Nat
      BY <1>t, <2>3 DEF MarkRunning, job, JobsTypeOK
    <3> QED BY <2>1, <2>2, <2>3, <3>1, SaveStep DEF MarkRunning
  <2>4. CASE MarkRunningFails(j)
    <3>1. (UNCHANGED jobs \/ Save(j, job)) /\ Go(j, "gone") /\ failures' \in Nat
      BY <1>f, <2>4 DEF MarkRunningFails, SaveFails, job
    <3> QED BY <2>1, <2>2, <2>4, <3>1, SaveStep DEF MarkRunningFails
  <2> QED BY <1>7, <2>3, <2>4
<1>8. ASSUME NEW j \in JobIds, SelectSources(j) PROVE JobsInv'
  <2>1. /\ JobsTypeOK' /\ \A i \in JobIds \ {j} : runner'[i] = runner[i]
        /\ runner'[j].pc = "search" /\ runner'[j].sent = runner[j].sent
    BY <1>t, <1>8, SelectStep
  <2> QED BY <1>8, <2>1, MoveStep DEF SelectSources
<1>9. ASSUME NEW j \in JobIds, SearchSource(j) PROVE JobsInv'
  <2>1. /\ runner' \in [JobIds -> Runner] /\ \A i \in JobIds \ {j} : runner'[i] = runner[i]
        /\ runner'[j].pc = "search" /\ runner'[j].sent = runner[j].sent
    BY <1>t, <1>9, SearchSourceStep
  <2>2. JobsTypeOK'
    BY <1>t, <1>9, <2>1 DEF JobsTypeOK, SearchSource
  <2> QED BY <1>9, <2>1, <2>2, MoveStep DEF SearchSource
<1>10. ASSUME NEW j \in JobIds, SearchFails(j) PROVE JobsInv'
  <2>1. /\ JobsTypeOK' /\ \A i \in JobIds \ {j} : runner'[i] = runner[i]
        /\ runner'[j].pc = "search" /\ runner'[j].sent = runner[j].sent
    BY <1>t, <1>10, SearchFailsStep
  <2> QED BY <1>10, <2>1, MoveStep DEF SearchFails
<1>11. ASSUME NEW j \in JobIds, MergeBuckets(j) PROVE JobsInv'
  <2>1. /\ runner' \in [JobIds -> Runner] /\ \A i \in JobIds \ {j} : runner'[i] = runner[i]
        /\ runner'[j].pc \in {"fail", "publish"} /\ runner'[j].sent = runner[j].sent
    BY <1>t, <1>11, MergeStep
  <2>2. JobsTypeOK'
    BY <1>t, <1>11, <2>1 DEF JobsTypeOK, MergeBuckets
  <2> QED BY <1>11, <2>1, <2>2, MoveStep DEF MergeBuckets
<1>12. ASSUME NEW j \in JobIds, PublishCandidate(j) \/ PublishFails(j) PROVE JobsInv'
  BY <1>12, PublishStep, PublishFailsStep
<1>13. ASSUME NEW j \in JobIds, SaveCompleted(j) \/ SaveFailed(j) \/ SaveOutcomeFails(j) PROVE JobsInv'
  <2>1. PICK job \in {Completed(j), Failed(j)} : UNCHANGED jobs \/ Save(j, job)
    BY <1>13 DEF SaveCompleted, SaveFailed, SaveOutcomeFails, SaveFails
  <2>2. job \in Job
    BY <1>t, SavedJobs
  <2>3. jobs[j] \in Job /\ jobs[j].candidates = << >>
    BY <1>t, <1>13 DEF JobsTypeOK, JobFollowsRunner, SaveCompleted, SaveFailed, SaveOutcomeFails
  <2>4. Completed(j).status = "completed" /\ Failed(j).candidates = << >>
    BY <2>3 DEF Completed, Failed, Job
  <2>5. job.status # "completed" => job.candidates = << >>
    BY <2>1, <2>4
  <2>6. Go(j, "gone") /\ failures' \in Nat
        /\ UNCHANGED <<driver, enabled, published, failureEvents, nextQuery>>
    BY <1>t, <1>13, <1>f DEF SaveCompleted, SaveFailed, SaveOutcomeFails, SaveFails, JobsTypeOK
  <2> QED BY <2>1, <2>2, <2>5, <2>6, SaveStep
<1>14. ASSUME StopParser PROVE JobsInv'
  <2>1. jobs' \in [JobIds -> Job] /\ \A i \in JobIds : jobs'[i] = jobs[i] \/ jobs'[i] = NoJob
    <3>1. NoJob \in Job
      BY DEF NoJob, Job, Query
    <3> QED BY <1>t, <1>14, <3>1 DEF StopParser, JobsTypeOK
  <2>2. KillRunners({}) /\ failures' \in Nat
    BY <1>f, <1>14 DEF StopParser
  <2> QED BY <1>14, <2>1, <2>2, KillStep DEF StopParser
<1>15. ASSUME RestartParser PROVE JobsInv'
  BY <1>t, <1>u, <1>15, JobsAssumption DEF RestartParser, JobsTypeOK
<1>16. ASSUME UNCHANGED parserVars PROVE JobsInv'
  BY <1>t, <1>u, <1>16 DEF parserVars, JobsTypeOK
<1> QED
  BY <1>1, <1>2, <1>3, <1>4, <1>5, <1>6, <1>7, <1>8, <1>9, <1>10, <1>11, <1>12, <1>13, <1>14, <1>15,
     <1>16, Zenon DEF JobsNext, RunJob

-----------------------------------------------------------------------------
(* The job as the contract sees it. *)
status == [j \in JobIds |-> jobs[j].status]
shown == [j \in JobIds |-> Range(jobs[j].candidates)]

(* A save changes the job that is saved, in the contract too. *)
LEMMA SavedInContract ==
  ASSUME JobsTypeOK, NEW j \in JobIds, NEW job \in Job, Save(j, job)
  PROVE  /\ status' = [status EXCEPT ![j] = job.status]
         /\ shown' = [shown EXCEPT ![j] = Range(job.candidates)]
         /\ job.candidates = jobs[j].candidates => shown' = shown
<1>1. jobs' = [jobs EXCEPT ![j] = job] /\ jobs \in [JobIds -> Job]
  BY DEF Save, JobsTypeOK
<1>2. status' = [status EXCEPT ![j] = job.status]
  BY <1>1 DEF status
<1>3. shown' = [shown EXCEPT ![j] = Range(job.candidates)]
  BY <1>1 DEF shown
<1>4. shown[j] = Range(jobs[j].candidates) /\ shown = [i \in JobIds |-> shown[i]]
  BY DEF shown
<1>5. job.candidates = jobs[j].candidates => shown' = shown
  BY <1>3, <1>4
<1> QED BY <1>2, <1>3, <1>5

(* A job that is stored with a new status and no other candidates moves. *)
LEMMA MovedInContract ==
  ASSUME JobsTypeOK, NEW j \in JobIds, NEW job \in Job, Save(j, job),
         job.candidates = jobs[j].candidates, UNCHANGED <<driver, published>>,
         \/ jobs[j].status = "none" /\ job.status = "queued"
         \/ jobs[j].status = "queued" /\ job.status = "running"
         \/ jobs[j].status = "running" /\ job.status = "failed"
  PROVE  Contract!Next
<1>1. status' = [status EXCEPT ![j] = job.status] /\ shown' = shown /\ status[j] = jobs[j].status
  BY SavedInContract DEF status
<1>2. UNCHANGED (driver = "postgres")
  OBVIOUS
<1>3. Contract!Accept(j) \/ Contract!Begin(j) \/ Contract!Fail(j)
  BY <1>1, <1>2 DEF Contract!Accept, Contract!Begin, Contract!Fail, Contract!Move, status, shown
<1> QED BY <1>3 DEF Contract!Next

(* What a completed job is stored with is what it has published. *)
LEMMA CompletedInContract ==
  ASSUME JobsInv, NEW j \in JobIds, Save(j, Completed(j)), UNCHANGED <<driver, published>>,
         runner[j].pc = "publish", runner[j].sent = Len(runner[j].result)
  PROVE  Contract!Next
<1> DEFINE result == runner[j].result
<1>1. JobsTypeOK /\ JobFollowsRunner(j) /\ Completed(j) \in Job /\ jobs[j] \in Job
      /\ result \in Seq(Candidate)
  BY SavedJobs DEF JobsInv, JobsTypeOK, Runner
<1>2. Completed(j).status = "completed" /\ Completed(j).candidates = result
  BY <1>1 DEF Completed, Job
<1>3. /\ status' = [status EXCEPT ![j] = "completed"]
      /\ shown' = [shown EXCEPT ![j] = Range(result)]
      /\ status[j] = "running"
  <2>1. status[j] = "running"
    BY <1>1 DEF JobFollowsRunner, status
  <2>2. /\ status' = [status EXCEPT ![j] = Completed(j).status]
        /\ shown' = [shown EXCEPT ![j] = Range(Completed(j).candidates)]
    BY <1>1, SavedInContract
  <2> QED BY <1>2, <2>1, <2>2
<1>4. {e \in published : e.job = j} = {[job |-> j, candidate |-> result[k]] : k \in 1..Len(result)}
  BY <1>1 DEF JobFollowsRunner, PublishedBy
<1> HIDE DEF result
<1>5. {e.candidate : e \in {f \in published : f.job = j}} = Range(result)
  <2>1. DOMAIN result = 1..Len(result)
    BY <1>1
  <2>2. ASSUME NEW k \in 1..Len(result)
        PROVE  [job |-> j, candidate |-> result[k]].candidate = result[k]
    OBVIOUS
  <2>3. {e.candidate : e \in {f \in published : f.job = j}} \subseteq Range(result)
    BY <1>4, <2>1, <2>2 DEF Range
  <2>4. Range(result) \subseteq {e.candidate : e \in {f \in published : f.job = j}}
    BY <1>4, <2>1, <2>2 DEF Range
  <2> QED BY <2>3, <2>4
<1>6. UNCHANGED (driver = "postgres")
  OBVIOUS
<1>7. Contract!Complete(j)
  BY <1>3, <1>5, <1>6 DEF Contract!Complete, Contract!Move, status, shown
<1> QED BY <1>7 DEF Contract!Next

(* A candidate is announced while its job runs. *)
LEMMA AnnouncedInContract ==
  ASSUME JobsInv, NEW j \in JobIds, runner[j].pc = "publish",
         runner[j].sent < Len(runner[j].result),
         published' = published \union {Sent(j)}, UNCHANGED <<driver, jobs>>
  PROVE  Contract!Next
<1>1. JobsTypeOK /\ jobs[j].status = "running"
  BY DEF JobsInv, JobFollowsRunner
<1>2. Sent(j).job = j
  BY <1>1, SentStep
<1>3. status[j] = "running" /\ status' = status /\ shown' = shown
  BY <1>1 DEF status, shown
<1>4. /\ published \subseteq published'
      /\ \A e, f \in published' \ published : e = f /\ e.job = j
  BY <1>2
<1>5. UNCHANGED (driver = "postgres")
  OBVIOUS
<1>6. Contract!Announce(j)
  BY <1>3, <1>4, <1>5 DEF Contract!Announce, status, shown
<1> QED BY <1>6 DEF Contract!Next

(* Every step of parser-service is one step of the contract or none. *)
LEMMA JobsStepInContract ==
  JobsInv /\ [JobsNext]_parserVars => [Contract!Next]_(Contract!contractVars)
<1> SUFFICES ASSUME JobsInv, [JobsNext]_parserVars
             PROVE  [Contract!Next]_(Contract!contractVars)
  OBVIOUS
<1>t. JobsTypeOK /\ \A j \in JobIds : JobFollowsRunner(j)
  BY DEF JobsInv
<1>u. ASSUME UNCHANGED <<driver, jobs, published>>
      PROVE  [Contract!Next]_(Contract!contractVars)
  BY <1>u DEF Contract!contractVars
<1>a. ASSUME NEW j \in JobIds, NEW q \in Query, runner[j].pc = "none", Save(j, Queued(q)),
             UNCHANGED <<driver, published>>
      PROVE  Contract!Next
  <2>1. Queued(q) \in Job /\ Queued(q).status = "queued" /\ Queued(q).candidates = << >>
    BY <1>t, SavedJobs DEF Queued
  <2>2. jobs[j].status = "none" /\ jobs[j].candidates = << >>
    BY <1>t, <1>a DEF JobFollowsRunner
  <2> QED BY <1>t, <1>a, <2>1, <2>2, MovedInContract
<1>i. RequestIds \subseteq JobIds /\ ScheduledIds \subseteq JobIds
  BY DEF JobIds
<1>1. ASSUME NEW j \in RequestIds, NEW q \in Queries, CreateJob(j, q) \/ CreateJobFails(j, q)
      PROVE  [Contract!Next]_(Contract!contractVars)
  <2>1. q \in Query /\ j \in JobIds
    BY <1>i, QueriesAreQueries
  <2>2. runner[j].pc = "none" /\ UNCHANGED <<driver, published>> /\ (UNCHANGED jobs \/ Save(j, Queued(q)))
    BY <1>1 DEF CreateJob, CreateJobFails, SaveFails
  <2> QED BY <1>u, <1>a, <2>1, <2>2
<1>2. ASSUME NEW j \in ScheduledIds, ScheduleNext(j) \/ ScheduleFails(j)
      PROVE  [Contract!Next]_(Contract!contractVars)
  <2>1. Scheduled[nextQuery] \in Query /\ j \in JobIds
    BY <1>t, <1>2, <1>i, QueriesAreQueries DEF ScheduleNext, ScheduleFails, JobsTypeOK
  <2>2. /\ runner[j].pc = "none" /\ UNCHANGED <<driver, published>>
        /\ UNCHANGED jobs \/ Save(j, Queued(Scheduled[nextQuery]))
    BY <1>2 DEF ScheduleNext, ScheduleFails, SaveFails, IsNextId
  <2> QED BY <1>u, <1>a, <2>1, <2>2
<1>3. ASSUME Tick \/ (\E s \in Toggled : SetEnabled(s)) \/ RestartParser \/ UNCHANGED parserVars
      PROVE  [Contract!Next]_(Contract!contractVars)
  BY <1>3, <1>u DEF Tick, SetEnabled, RestartParser, parserVars
<1>4. ASSUME NEW j \in JobIds, MarkRunning(j) \/ MarkRunningFails(j)
      PROVE  [Contract!Next]_(Contract!contractVars)
  <2> DEFINE job == [jobs[j] EXCEPT !.status = "running"]
  <2>1. job \in Job /\ jobs[j] \in Job /\ jobs[j].status = "queued"
    BY <1>t, <1>4, SavedJobs DEF JobFollowsRunner, JobsTypeOK, MarkRunning, MarkRunningFails
  <2>2. job.status = "running" /\ job.candidates = jobs[j].candidates
    BY <2>1 DEF Job
  <2>3. UNCHANGED <<driver, published>> /\ (UNCHANGED jobs \/ Save(j, job))
    BY <1>4 DEF MarkRunning, MarkRunningFails, SaveFails
  <2> HIDE DEF job
  <2> QED BY <1>t, <1>u, <2>1, <2>2, <2>3, MovedInContract
<1>5. ASSUME NEW j \in JobIds, SelectSources(j) \/ SearchSource(j) \/ SearchFails(j) \/ MergeBuckets(j)
      PROVE  [Contract!Next]_(Contract!contractVars)
  BY <1>5, <1>u DEF SelectSources, SearchSource, SearchFails, MergeBuckets
<1>6. ASSUME NEW j \in JobIds, PublishCandidate(j) \/ PublishFails(j)
      PROVE  [Contract!Next]_(Contract!contractVars)
  <2>1. /\ runner[j].pc = "publish" /\ runner[j].sent < Len(runner[j].result)
        /\ UNCHANGED <<driver, jobs>>
        /\ UNCHANGED published \/ published' = published \union {Sent(j)}
    BY <1>6 DEF PublishCandidate, PublishFails
  <2> QED BY <1>u, <2>1, AnnouncedInContract
<1>7. ASSUME NEW j \in JobIds, SaveCompleted(j) \/ SaveFailed(j) \/ SaveOutcomeFails(j)
      PROVE  [Contract!Next]_(Contract!contractVars)
  <2>1. /\ UNCHANGED <<driver, published>>
        /\ \/ UNCHANGED jobs
           \/ /\ Save(j, Completed(j))
              /\ runner[j].pc = "publish" /\ runner[j].sent = Len(runner[j].result)
           \/ Save(j, Failed(j)) /\ runner[j].pc = "fail"
    BY <1>7 DEF SaveCompleted, SaveFailed, SaveOutcomeFails, SaveFails
  <2>2. CASE UNCHANGED jobs
    BY <1>u, <2>1, <2>2
  <2>3. CASE Save(j, Completed(j)) /\ runner[j].pc = "publish"
             /\ runner[j].sent = Len(runner[j].result)
    BY <2>1, <2>3, CompletedInContract
  <2>4. CASE Save(j, Failed(j)) /\ runner[j].pc = "fail"
    <3>1. Failed(j) \in Job /\ jobs[j] \in Job /\ jobs[j].status = "running"
      BY <1>t, <2>4, SavedJobs DEF JobFollowsRunner, JobsTypeOK
    <3>2. Failed(j).status = "failed" /\ Failed(j).candidates = jobs[j].candidates
      BY <3>1 DEF Failed, Job
    <3> QED BY <1>t, <2>1, <2>4, <3>1, <3>2, MovedInContract
  <2> QED BY <2>1, <2>2, <2>3, <2>4
<1>8. ASSUME StopParser PROVE [Contract!Next]_(Contract!contractVars)
  <2>1. CASE driver # "memory"
    BY <1>8, <1>u, <2>1 DEF StopParser
  <2>2. CASE driver = "memory"
    <3>1. jobs' = [j \in JobIds |-> NoJob] /\ UNCHANGED <<driver, published>> /\ driver # "postgres"
      BY <1>8, <2>2 DEF StopParser
    <3>2. NoJob.status = "none" /\ Range(NoJob.candidates) = {}
      BY DEF NoJob, Range
    <3>3. /\ [j \in JobIds |-> jobs'[j].status] = [j \in JobIds |-> "none"]
          /\ [j \in JobIds |-> Range(jobs'[j].candidates)] = [j \in JobIds |-> {}]
      BY <3>1, <3>2
    <3>4. Contract!LoseAll
      BY <3>1, <3>3 DEF Contract!LoseAll
    <3> QED BY <3>4 DEF Contract!Next
  <2> QED BY <2>1, <2>2
<1> QED
  BY <1>1, <1>2, <1>3, <1>4, <1>5, <1>6, <1>7, <1>8, Zenon DEF JobsNext, RunJob

(* parser-service keeps its promise of search jobs, whatever the sources find, however often
   store, broker and process fail, and whatever a failing save or publication has done: jobs go
   from accepted to running to completed or failed and stay there, and a completed job shows
   exactly the candidates it has published. *)
THEOREM JobsImplementContract == JobsSpec => ImplementsJobContract
<1>1. JobsInit => JobsInv
  BY JobsStart DEF IsolationInv
<1>2. JobsInit => Contract!Init
  <2> SUFFICES ASSUME JobsInit PROVE Contract!Init
    OBVIOUS
  <2>1. NoJob.status = "none" /\ Range(NoJob.candidates) = {}
    BY DEF NoJob, Range
  <2>2. /\ [j \in JobIds |-> jobs[j].status] = [j \in JobIds |-> "none"]
        /\ [j \in JobIds |-> Range(jobs[j].candidates)] = [j \in JobIds |-> {}]
    BY <2>1 DEF JobsInit
  <2> QED BY <2>2 DEF JobsInit, Contract!Init
<1>3. JobsInv /\ [JobsNext]_parserVars => JobsInv'
  BY JobsStep
<1>4. JobsInv /\ [JobsNext]_parserVars => [Contract!Next]_(Contract!contractVars)
  BY JobsStepInContract
<1> QED BY <1>1, <1>2, <1>3, <1>4, PTL DEF JobsSpec, ImplementsJobContract, Contract!Spec

-----------------------------------------------------------------------------
(* A job whose buckets, errors and outcome stay as they are, stays isolated. *)
LEMMA StaysIsolated ==
  ASSUME NEW i \in JobIds, FailsEmpty(i),
         runner'[i].buckets = runner[i].buckets, runner'[i].lastErr = runner[i].lastErr,
         failureEvents \subseteq failureEvents', failures' = 0 => failures = 0,
         failures' = 0 /\ (runner'[i].pc = "fail" \/ jobs'[i].status = "failed") =>
             runner[i].pc = "fail" \/ jobs[i].status = "failed"
  PROVE  FailsEmpty(i)'
<1>1. \A b \in DOMAIN runner'[i].buckets : runner'[i].buckets[b] # << >>
  BY DEF FailsEmpty
<1>2. failures' = 0 /\ runner'[i].lastErr => \E e \in failureEvents' : e.job = i
  BY DEF FailsEmpty
<1>3. failures' = 0 /\ (runner'[i].pc = "fail" \/ jobs'[i].status = "failed") =>
          runner'[i].buckets = << >> /\ runner'[i].lastErr
  BY DEF FailsEmpty
<1> QED BY <1>1, <1>2, <1>3 DEF FailsEmpty

(* A goroutine that only goes to another place keeps its buckets and errors. *)
LEMMA GoKeepsWork ==
  ASSUME runner \in [JobIds -> Runner], NEW j \in JobIds,
         NEW place \in {"start", "select", "fail", "gone"}, Go(j, place), NEW i \in JobIds
  PROVE  /\ runner'[i].buckets = runner[i].buckets /\ runner'[i].lastErr = runner[i].lastErr
         /\ runner'[i].pc = IF i = j THEN place ELSE runner[i].pc
<1>1. runner[i] \in Runner
  OBVIOUS
<1>2. runner'[j] = [runner[j] EXCEPT !.pc = place] /\ \A k \in JobIds \ {j} : runner'[k] = runner[k]
  BY GoKeepsType
<1>3. CASE i # j
  BY <1>2, <1>3
<1>4. CASE i = j
  BY <1>1, <1>2, <1>4 DEF Runner
<1> QED BY <1>3, <1>4

(* A list of buckets that are not empty, without a turn to take, has no bucket. *)
LEMMA NoTurnsNoBuckets ==
  ASSUME NEW buckets \in Seq(Seq(Candidate)), Turns(buckets) = {},
         \A b \in DOMAIN buckets : buckets[b] # << >>
  PROVE  buckets = << >>
<1> SUFFICES ASSUME buckets # << >> PROVE FALSE
  OBVIOUS
<1>1. 1 \in DOMAIN buckets /\ buckets[1] \in Seq(Candidate)
  OBVIOUS
<1>2. buckets[1] # << >>
  BY <1>1
<1>3. 1 \in DOMAIN buckets[1]
  BY <1>1, <1>2
<1>4. <<1, 1>> \in Turns(buckets)
  BY <1>1, <1>3, TurnsAre
<1> QED BY <1>4

(* Every step keeps the jobs isolated from failing sources. *)
LEMMA IsolationStep == IsolationInv /\ [JobsNext]_parserVars => IsolationInv'
<1> SUFFICES ASSUME IsolationInv, [JobsNext]_parserVars PROVE IsolationInv'
  OBVIOUS
<1>t. JobsInv /\ JobsTypeOK /\ \A j \in JobIds : JobFollowsRunner(j) /\ FailsEmpty(j)
  BY DEF IsolationInv, JobsInv
<1>n. JobsInv'
  BY <1>t, JobsStep
<1> SUFFICES ASSUME NEW i \in JobIds PROVE FailsEmpty(i)'
  BY <1>n DEF IsolationInv
<1>f. ASSUME Fault PROVE failures' # 0
  BY <1>t, <1>f, FaultCounts DEF JobsTypeOK
<1>u. ASSUME runner'[i] = runner[i], jobs'[i] = jobs[i], failureEvents \subseteq failureEvents',
             failures' = 0 => failures = 0
      PROVE  FailsEmpty(i)'
  BY <1>t, <1>u, StaysIsolated
<1>g. ASSUME NEW j \in JobIds, NEW place \in {"start", "select", "gone"}, Go(j, place),
             UNCHANGED failureEvents, failures' = 0 => UNCHANGED failures,
             \A k \in JobIds \ {j} : jobs'[k] = jobs[k],
             failures' = 0 /\ jobs'[j].status = "failed" => runner[j].pc = "fail" \/ jobs[j].status = "failed"
      PROVE  FailsEmpty(i)'
  <2>1. /\ runner'[i].buckets = runner[i].buckets /\ runner'[i].lastErr = runner[i].lastErr
        /\ runner'[i].pc = IF i = j THEN place ELSE runner[i].pc
    BY <1>t, <1>g, GoKeepsWork DEF JobsTypeOK
  <2> QED BY <1>t, <1>g, <2>1, StaysIsolated
<1>i. RequestIds \subseteq JobIds /\ ScheduledIds \subseteq JobIds
  BY DEF JobIds
<1>k. ASSUME NEW more \in SUBSET JobIds, KillRunners(more), UNCHANGED failureEvents, failures' # 0
      PROVE  FailsEmpty(i)'
  <2>1. runner[i] \in Runner
    BY <1>t DEF JobsTypeOK
  <2>2. runner'[i] \in {runner[i], [runner[i] EXCEPT !.pc = "gone"]}
    BY <1>k DEF KillRunners
  <2>3. runner'[i].buckets = runner[i].buckets /\ runner'[i].lastErr = runner[i].lastErr
    BY <2>1, <2>2 DEF Runner
  <2> QED BY <1>t, <1>k, <2>3, StaysIsolated
<1>1. ASSUME NEW j \in RequestIds, NEW q \in Queries, CreateJob(j, q) \/ CreateJobFails(j, q)
      PROVE  FailsEmpty(i)'
  <2>1. Queued(q).status = "queued"
    BY DEF Queued
  <2>2. /\ UNCHANGED jobs \/ Save(j, Queued(q))
        /\ \E place \in {"start", "gone"} : Go(j, place)
        /\ UNCHANGED failureEvents /\ (failures' = 0 => UNCHANGED failures)
    BY <1>1, <1>f DEF CreateJob, CreateJobFails, SaveFails
  <2>3. /\ \A k \in JobIds \ {j} : jobs'[k] = jobs[k]
        /\ jobs'[j] \in {jobs[j], Queued(q)}
    BY <1>t, <1>i, <2>2 DEF Save, JobsTypeOK
  <2> QED BY <1>g, <1>i, <2>1, <2>2, <2>3
<1>2. ASSUME NEW j \in ScheduledIds, ScheduleNext(j) PROVE FailsEmpty(i)'
  <2> DEFINE job == Queued(Scheduled[nextQuery])
  <2>1. job.status = "queued"
    BY DEF Queued
  <2>2. Save(j, job) /\ Go(j, "start") /\ UNCHANGED <<failureEvents, failures>>
    BY <1>2 DEF ScheduleNext
  <2> HIDE DEF job
  <2>3. jobs'[j] = job /\ \A k \in JobIds \ {j} : jobs'[k] = jobs[k]
    BY <1>t, <1>i, <2>2 DEF Save, JobsTypeOK
  <2> QED BY <1>g, <1>i, <2>1, <2>2, <2>3
<1>3. ASSUME NEW j \in ScheduledIds, ScheduleFails(j) PROVE FailsEmpty(i)'
  BY <1>3, <1>f, <1>i, <1>k DEF ScheduleFails, SaveFails
<1>4. ASSUME Tick \/ (\E s \in Toggled : SetEnabled(s)) \/ RestartParser \/ UNCHANGED parserVars
      PROVE  FailsEmpty(i)'
  BY <1>4, <1>u DEF Tick, SetEnabled, RestartParser, parserVars
<1>5. ASSUME NEW j \in JobIds, MarkRunning(j) \/ MarkRunningFails(j) PROVE FailsEmpty(i)'
  <2> DEFINE job == [jobs[j] EXCEPT !.status = "running"]
  <2>1. jobs[j] \in Job /\ jobs \in [JobIds -> Job]
    BY <1>t DEF JobsTypeOK
  <2>2. job.status = "running"
    BY <2>1 DEF Job
  <2>3. /\ UNCHANGED jobs \/ Save(j, job)
        /\ \E place \in {"select", "gone"} : Go(j, place)
        /\ UNCHANGED failureEvents /\ (failures' = 0 => UNCHANGED failures)
    BY <1>5, <1>f DEF MarkRunning, MarkRunningFails, SaveFails
  <2> HIDE DEF job
  <2>4. jobs'[j] \in {jobs[j], job} /\ \A k \in JobIds \ {j} : jobs'[k] = jobs[k]
    BY <2>1, <2>3 DEF Save
  <2> QED BY <1>g, <2>2, <2>3, <2>4
<1>6. ASSUME NEW j \in JobIds, SelectSources(j) PROVE FailsEmpty(i)'
  <2>1. /\ \A k \in JobIds \ {j} : runner'[k] = runner[k]
        /\ runner'[j].pc = "search"
        /\ runner'[j].lastErr = runner[j].lastErr /\ runner'[j].buckets = runner[j].buckets
    BY <1>t, <1>6, SelectStep
  <2>2. UNCHANGED <<jobs, failureEvents, failures>>
    BY <1>6 DEF SelectSources
  <2> QED BY <1>t, <2>1, <2>2, StaysIsolated
<1>7. ASSUME NEW j \in JobIds, SearchSource(j) PROVE FailsEmpty(i)'
  <2>1. /\ \A k \in JobIds \ {j} : runner'[k] = runner[k]
        /\ runner'[j].pc = "search" /\ runner'[j].lastErr = runner[j].lastErr
        /\ \/ runner'[j].buckets = runner[j].buckets
           \/ \E bucket \in Seq(Candidate) :
                 bucket # << >> /\ runner'[j].buckets = Append(runner[j].buckets, bucket)
    BY <1>t, <1>7, SearchSourceStep
  <2>2. UNCHANGED <<jobs, failureEvents, failures>> /\ runner[j].pc = "search"
    BY <1>7 DEF SearchSource
  <2>3. CASE i # j
    BY <1>u, <2>1, <2>2, <2>3
  <2>4. CASE i = j
    <3>1. runner[j].buckets \in Seq(Seq(Candidate)) /\ jobs[j].status = "running"
      BY <1>t, <2>2 DEF JobsTypeOK, Runner, JobFollowsRunner
    <3>2. \A b \in DOMAIN runner'[j].buckets : runner'[j].buckets[b] # << >>
      <4>1. \A b \in DOMAIN runner[j].buckets : runner[j].buckets[b] # << >>
        BY <1>t DEF FailsEmpty
      <4> DEFINE old == runner[j].buckets
                 new == runner'[j].buckets
      <4>2. CASE new = old
        BY <4>1, <4>2
      <4>3. ASSUME NEW bucket \in Seq(Candidate), bucket # << >>, new = Append(old, bucket)
            PROVE  \A b \in DOMAIN new : new[b] # << >>
        <5>1. old \in Seq(Seq(Candidate)) /\ \A b \in DOMAIN old : old[b] # << >>
          BY <3>1, <4>1
        <5> HIDE DEF old, new
        <5>2. \A b \in DOMAIN Append(old, bucket) :
                 \/ b \in DOMAIN old /\ Append(old, bucket)[b] = old[b]
                 \/ Append(old, bucket)[b] = bucket
          BY <5>1
        <5> QED BY <4>3, <5>1, <5>2
      <4> QED BY <2>1, <4>2, <4>3
    <3>3. failures' = 0 /\ runner'[j].lastErr => \E e \in failureEvents' : e.job = j
      BY <1>t, <2>1, <2>2 DEF FailsEmpty
    <3>4. runner'[j].pc # "fail" /\ jobs'[j].status # "failed"
      BY <2>1, <2>2, <3>1
    <3> QED BY <2>4, <3>2, <3>3, <3>4 DEF FailsEmpty
  <2> QED BY <2>3, <2>4
<1>8. ASSUME NEW j \in JobIds, SearchFails(j) PROVE FailsEmpty(i)'
  <2>1. /\ \A k \in JobIds \ {j} : runner'[k] = runner[k]
        /\ runner'[j].pc = "search" /\ runner'[j].lastErr = TRUE
        /\ runner'[j].buckets = runner[j].buckets
        /\ failureEvents \subseteq failureEvents'
        /\ failures' = 0 => failures = 0 /\ \E e \in failureEvents' : e.job = j
    BY <1>t, <1>8, SearchFailsStep
  <2>2. UNCHANGED jobs /\ runner[j].pc = "search"
    BY <1>8 DEF SearchFails
  <2>3. CASE i # j
    BY <1>u, <2>1, <2>2, <2>3
  <2>4. CASE i = j
    <3>1. jobs[j].status = "running"
      BY <1>t, <2>2 DEF JobFollowsRunner
    <3>2. \A b \in DOMAIN runner'[j].buckets : runner'[j].buckets[b] # << >>
      BY <1>t, <2>1 DEF FailsEmpty
    <3>3. runner'[j].pc # "fail" /\ jobs'[j].status # "failed"
      BY <2>1, <2>2, <3>1
    <3> QED BY <2>1, <2>4, <3>2, <3>3 DEF FailsEmpty
  <2> QED BY <2>3, <2>4
<1>9. ASSUME NEW j \in JobIds, MergeBuckets(j) PROVE FailsEmpty(i)'
  <2> DEFINE merged == InterleaveBuckets(runner[j].buckets, jobs[j].query.limit)
  <2>1. /\ merged = << >> => Turns(runner[j].buckets) = {}
        /\ \A k \in JobIds \ {j} : runner'[k] = runner[k]
        /\ runner'[j].pc = IF merged = << >> /\ runner[j].lastErr THEN "fail" ELSE "publish"
        /\ runner'[j].lastErr = runner[j].lastErr /\ runner'[j].buckets = runner[j].buckets
    BY <1>t, <1>9, MergeStep
  <2> HIDE DEF merged
  <2>2. UNCHANGED <<jobs, failureEvents, failures>> /\ runner[j].pc = "search"
    BY <1>9 DEF MergeBuckets
  <2>3. CASE i # j
    BY <1>u, <2>1, <2>2, <2>3
  <2>4. CASE i = j
    <3>1. runner[j].buckets \in Seq(Seq(Candidate)) /\ jobs[j].status = "running"
      BY <1>t, <2>2 DEF JobsTypeOK, Runner, JobFollowsRunner
    <3>2. \A b \in DOMAIN runner[j].buckets : runner[j].buckets[b] # << >>
      BY <1>t DEF FailsEmpty
    <3>3. runner'[j].pc = "fail" => runner[j].buckets = << >> /\ runner[j].lastErr
      BY <2>1, <3>1, <3>2, NoTurnsNoBuckets
    <3>4. failures' = 0 /\ runner'[j].lastErr => \E e \in failureEvents' : e.job = j
      BY <1>t, <2>1, <2>2 DEF FailsEmpty
    <3>5. jobs'[j].status # "failed"
      BY <2>2, <3>1
    <3> QED BY <2>1, <2>4, <3>2, <3>3, <3>4, <3>5 DEF FailsEmpty
  <2> QED BY <2>3, <2>4
<1>10. ASSUME NEW j \in JobIds, PublishCandidate(j) PROVE FailsEmpty(i)'
  <2>1. runner[i] \in Runner /\ runner \in [JobIds -> Runner]
    BY <1>t DEF JobsTypeOK
  <2>2. runner'[i] \in {runner[i], [runner[i] EXCEPT !.sent = runner[i].sent + 1]}
    BY <1>10, <2>1 DEF PublishCandidate
  <2> DEFINE next == runner[i].sent + 1
  <2>3. runner'[i] \in {runner[i], [runner[i] EXCEPT !.sent = next]}
    BY <2>2
  <2> HIDE DEF next
  <2>4. /\ runner'[i].buckets = runner[i].buckets /\ runner'[i].lastErr = runner[i].lastErr
        /\ runner'[i].pc = runner[i].pc
    BY <2>1, <2>3 DEF Runner
  <2>5. UNCHANGED <<jobs, failureEvents, failures>>
    BY <1>10 DEF PublishCandidate
  <2> QED BY <1>t, <2>4, <2>5, StaysIsolated
<1>11. ASSUME NEW j \in JobIds, PublishFails(j) PROVE FailsEmpty(i)'
  <2>1. /\ runner'[i].buckets = runner[i].buckets /\ runner'[i].lastErr = runner[i].lastErr
    BY <1>t, <1>11, GoKeepsWork DEF PublishFails, JobsTypeOK
  <2>2. UNCHANGED <<jobs, failureEvents>> /\ failures' # 0
    BY <1>11, <1>f DEF PublishFails
  <2> QED BY <1>t, <2>1, <2>2, StaysIsolated
<1>12. ASSUME NEW j \in JobIds, SaveCompleted(j) \/ SaveFailed(j) \/ SaveOutcomeFails(j)
       PROVE  FailsEmpty(i)'
  <2>1. jobs[j] \in Job /\ jobs \in [JobIds -> Job]
    BY <1>t DEF JobsTypeOK
  <2>2. Completed(j).status = "completed"
    BY <2>1 DEF Completed, Job
  <2>3. /\ \/ UNCHANGED jobs
           \/ Save(j, Completed(j))
           \/ Save(j, Failed(j)) /\ runner[j].pc = "fail"
        /\ Go(j, "gone")
        /\ UNCHANGED failureEvents /\ (failures' = 0 => UNCHANGED failures)
    BY <1>12, <1>f DEF SaveCompleted, SaveFailed, SaveOutcomeFails, SaveFails
  <2>4. /\ \A k \in JobIds \ {j} : jobs'[k] = jobs[k]
        /\ jobs'[j].status = "failed" => runner[j].pc = "fail" \/ jobs[j].status = "failed"
    BY <2>1, <2>2, <2>3 DEF Save
  <2> QED BY <1>g, <2>3, <2>4
<1>13. ASSUME StopParser PROVE FailsEmpty(i)'
  BY <1>13, <1>f, <1>k DEF StopParser
<1> QED
  BY <1>1, <1>2, <1>3, <1>4, <1>5, <1>6, <1>7, <1>8, <1>9, <1>10, <1>11, <1>12, <1>13, Zenon
     DEF JobsNext, RunJob

(* A source that is down never spoils a job for which another source found something: as long as
   store, broker and process work, a job fails only without any find, and only after a failure
   of a source was published, for any number of sources and any answers of theirs. *)
THEOREM FailuresAreIsolated == JobsSpec => []FailureIsolated
<1>1. JobsInit => IsolationInv
  BY JobsStart
<1>2. IsolationInv /\ [JobsNext]_parserVars => IsolationInv'
  BY IsolationStep
<1>3. IsolationInv => FailureIsolated
  BY DEF IsolationInv, FailsEmpty, FailureIsolated
<1> QED BY <1>1, <1>2, <1>3, PTL DEF JobsSpec

=============================================================================
