---------------------------- MODULE JobContract ----------------------------
(***************************************************************************)
(* What parser-service promises of a search job, to the client that polls  *)
(* it and to the services that read its events: it is accepted, it begins, *)
(* it announces candidates one at a time, and it ends once, completed with *)
(* exactly the candidates it has announced, or failed with none to show.   *)
(* What has ended stays as it is; a store that is not durable may lose all *)
(* jobs at once.                                                           *)
(***************************************************************************)
CONSTANT JobIds

VARIABLES
    durable,   \* whether the store outlives the process
    status,    \* status[j]: "none" before the job is accepted
    shown,     \* shown[j]: the candidates the job is stored with
    announced  \* the published candidates, [job, candidate]

contractVars == <<durable, status, shown, announced>>

Init ==
    /\ durable \in BOOLEAN
    /\ status = [j \in JobIds |-> "none"]
    /\ shown = [j \in JobIds |-> {}]
    /\ announced = {}

Move(j, from, to) == status[j] = from /\ status' = [status EXCEPT ![j] = to]

Accept(j) == Move(j, "none", "queued") /\ UNCHANGED <<durable, shown, announced>>

Begin(j) == Move(j, "queued", "running") /\ UNCHANGED <<durable, shown, announced>>

Announce(j) ==
    /\ status[j] = "running"
    /\ announced \subseteq announced'
    /\ \A e, f \in announced' \ announced : e = f /\ e.job = j
    /\ UNCHANGED <<durable, status, shown>>

Complete(j) ==
    /\ Move(j, "running", "completed")
    /\ shown' = [shown EXCEPT ![j] = {e.candidate : e \in {f \in announced : f.job = j}}]
    /\ UNCHANGED <<durable, announced>>

Fail(j) == Move(j, "running", "failed") /\ UNCHANGED <<durable, shown, announced>>

LoseAll ==
    /\ ~durable
    /\ status' = [j \in JobIds |-> "none"]
    /\ shown' = [j \in JobIds |-> {}]
    /\ UNCHANGED <<durable, announced>>

Next ==
    \/ \E j \in JobIds : Accept(j) \/ Begin(j) \/ Announce(j) \/ Complete(j) \/ Fail(j)
    \/ LoseAll

Spec == Init /\ [][Next]_contractVars

=============================================================================
