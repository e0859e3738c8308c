------------------------ MODULE UserReactionsProofs ------------------------
(***************************************************************************)
(* Theorems about user-service, for any sets of users, articles, types,    *)
(* times, emails and interests and any bounds: the loop and the HTTP       *)
(* handler never leave a reaction without a profile, no profile loses what *)
(* was given, and the Postgres table is what the topic says.               *)
(***************************************************************************)
EXTENDS UserReactions, ConsumerLoopProofs

(* The key of the table user_reactions. *)
KeyOf == [r \in Reaction |-> <<r.user, r.article, r.type>>]

(* Between the two transactions of Record the loop is inside Handle, and the profile of the
   reaction's user is there. *)
EnsuredInv ==
    ensured => pc["user"] = "handle" /\ \E p \in users : p.id = Event.user

(* The Postgres table follows the log. *)
RecordedInv ==
    driver = "postgres" =>
        TableInv(Reactions, KeyOf, reactions, done["user"][0], Through("user"))

UserInv ==
    /\ TypeOK
    /\ LoopInv
    /\ driver \in {"postgres", "memory"}
    /\ users \subseteq Profile
    /\ EnsuredInv
    /\ ReactionHasProfile
    /\ RecordedInv

-----------------------------------------------------------------------------
(* SameKey compares the keys of the table. *)
LEMMA SameKeyIsKey ==
    ASSUME NEW r \in Reaction, NEW s \in Reaction
    PROVE  SameKey(r, s) <=> KeyOf[r] = KeyOf[s]
BY DEF SameKey, KeyOf

(* Every topic has one partition, so what is proved of the loops applies. *)
LEMMA OnePartition == SinglePartition
BY UserAssumption DEF SinglePartition

(* The loop of user-service reads the reactions. *)
LEMMA ReactionLog ==
    ASSUME TypeOK
    PROVE  /\ "user" \in Groups /\ "reaction" \in Topics
           /\ LogOf("user")[0] = Reactions
           /\ Reactions \in Seq(Reaction)
BY LoopAssumption, UserAssumption DEF TypeOK, LogOf, Reactions

(* The reaction Record is given. *)
LEMMA ReactionInHand ==
    ASSUME TypeOK, LoopInv, pc["user"] = "handle"
    PROVE  Event \in Reaction
<1>1. \A i \in DOMAIN LogOf("user")[0] : LogOf("user")[0][i] \in Reaction
  BY ReactionLog
<1> QED
  BY <1>1, ReactionLog, OnePartition, EventInHand DEF Event

(* The reaction stays the same while it is being handled. *)
LEMMA ReactionStays ==
    ASSUME TypeOK, LoopInv, [Next]_vars, pc["user"] = "handle", cur' = cur
    PROVE  Event' = Event
<1>1. \A i \in DOMAIN LogOf("user")[0] : LogOf("user")[0][i] \in Reaction
  BY ReactionLog
<1>2. /\ cur["user"].offset + 1 \in DOMAIN Reactions
      /\ cur["user"].partition = 0
  BY <1>1, ReactionLog, OnePartition, EventInHand
     DEF TypeOK, Coordinates, SinglePartition
<1>3. Reactions'[cur["user"].offset + 1] = Reactions[cur["user"].offset + 1]
  BY <1>2, ReactionLog, OnePartition, LogGrows DEF Reactions
<1>4. Event = Reactions[cur["user"].offset + 1]
  BY <1>2, ReactionLog DEF Event, PayloadAt
<1>5. LogOf("user")' = log'["reaction"]
  BY LoopAssumption, UserAssumption DEF LogOf
<1> QED
  BY <1>2, <1>3, <1>4, <1>5 DEF Event, PayloadAt, Reactions

(* Every step of user-service is a step of the loop, or changes nothing of it. *)
LEMMA UserStepsAreLoopSteps ==
    ASSUME [UserNext]_serviceVars
    PROVE  [Next]_vars
BY UserAssumption
   DEF UserNext, React, EnsureUserProfile, FetchReaction, RecordProfile, RecordReaction,
       CommitReaction, FailUser, RestartUser, RejoinUser, Next, serviceVars

(* EnsureProfile keeps every profile: its id and its time stay, and an email is replaced
   only by another one. *)
LEMMA EnsureKeeps ==
    ASSUME users \subseteq Profile, NEW p \in Profile, EnsureProfile(p)
    PROVE  /\ users' \subseteq Profile
           /\ \E q \in users' : q.id = p.id
           /\ \A row \in users : \E q \in users' :
                 q.id = row.id /\ q.at = row.at /\ (row.email # "" => q.email # "")
<1>1. ASSUME NEW row \in users
      PROVE  /\ Merge(row, p) \in Profile
             /\ Merge(row, p).id = row.id /\ Merge(row, p).at = row.at
             /\ (row.email # "" => Merge(row, p).email # "")
  <2>1. row \in Profile
    BY <1>1
  <2> QED
    BY <2>1 DEF Profile, Merge
<1>2. CASE \E row \in users : row.id = p.id
  <2> DEFINE M(row) == IF row.id = p.id THEN Merge(row, p) ELSE row
  <2>1. users' = {M(row) : row \in users}
    BY <1>2 DEF EnsureProfile
  <2>2. \A row \in users : /\ M(row) \in Profile /\ M(row).id = row.id /\ M(row).at = row.at
                           /\ (row.email # "" => M(row).email # "")
    BY <1>1
  <2> HIDE DEF M
  <2>3. users' \subseteq Profile
    BY <2>1, <2>2
  <2>4. \A row \in users : M(row) \in users'
    BY <2>1
  <2>5. \E q \in users' : q.id = p.id
    BY <1>2, <2>2, <2>4
  <2> QED
    BY <2>2, <2>3, <2>4, <2>5
<1>3. CASE ~ \E row \in users : row.id = p.id
  BY <1>3 DEF EnsureProfile
<1> QED
  BY <1>2, <1>3

(* What Record ensures is a profile. *)
LEMMA RecordedProfile ==
    ASSUME NEW r \in Reaction
    PROVE  [id |-> r.user, email |-> "", interests |-> NoInterests, at |-> r.at] \in Profile
BY DEF Reaction, Profile

-----------------------------------------------------------------------------
(* Profiles keep their types, and no reaction is left without a profile. *)
LEMMA ProfilesStep ==
    ASSUME UserInv, [UserNext]_serviceVars
    PROVE  users' \subseteq Profile /\ ReactionHasProfile'
<1> USE DEF UserInv
<1>u. ASSUME UNCHANGED <<users, reactions>>
      PROVE  users' \subseteq Profile /\ ReactionHasProfile'
  BY <1>u DEF ReactionHasProfile
<1>e. ASSUME NEW p \in Profile, EnsureProfile(p), UNCHANGED reactions
      PROVE  users' \subseteq Profile /\ ReactionHasProfile'
  <2>1. /\ users' \subseteq Profile
        /\ \A row \in users : \E q \in users' : q.id = row.id
    BY <1>e, EnsureKeeps
  <2> QED
    BY <1>e, <2>1 DEF ReactionHasProfile
<1>1. ASSUME NEW p \in Profile, EnsureUserProfile(p)
      PROVE  users' \subseteq Profile /\ ReactionHasProfile'
  BY <1>1, <1>e DEF EnsureUserProfile
<1>2. ASSUME RecordProfile
      PROVE  users' \subseteq Profile /\ ReactionHasProfile'
  <2>1. Event \in Reaction
    BY <1>2, ReactionInHand DEF RecordProfile
  <2> QED
    BY <1>2, <2>1, <1>e, RecordedProfile DEF RecordProfile
<1>3. ASSUME RecordReaction
      PROVE  users' \subseteq Profile /\ ReactionHasProfile'
  BY <1>3 DEF RecordReaction, EnsuredInv, ReactionHasProfile
<1>4. ASSUME FailUser
      PROVE  users' \subseteq Profile /\ ReactionHasProfile'
  <2>1. CASE driver = "memory"
    BY <1>4, <2>1 DEF FailUser, ReactionHasProfile
  <2>2. CASE driver # "memory"
    BY <1>4, <2>2, <1>u DEF FailUser
  <2> QED
    BY <2>1, <2>2
<1>5. ASSUME \/ \E r \in Reaction : React(r)
             \/ FetchReaction \/ CommitReaction \/ RestartUser \/ RejoinUser
             \/ UNCHANGED serviceVars
      PROVE  UNCHANGED <<users, reactions>>
  BY <1>5 DEF React, FetchReaction, CommitReaction, RestartUser, RejoinUser, serviceVars, userVars
<1> QED
  BY <1>u, <1>1, <1>2, <1>3, <1>4, <1>5 DEF UserNext

(* The profile Record has ensured is there until Record is done with the reaction. *)
LEMMA EnsuredStep ==
    ASSUME UserInv, [UserNext]_serviceVars
    PROVE  EnsuredInv'
<1> USE DEF UserInv
<1>n. [Next]_vars
  BY UserStepsAreLoopSteps
<1>f. ASSUME ensured' = FALSE PROVE EnsuredInv'
  BY <1>f DEF EnsuredInv
<1>k. ASSUME pc'["user"] = pc["user"], UNCHANGED <<cur, ensured>>,
             \A row \in users : \E q \in users' : q.id = row.id
      PROVE  EnsuredInv'
  <2> SUFFICES ASSUME ensured
               PROVE  pc'["user"] = "handle" /\ \E p \in users' : p.id = Event'.user
    BY <1>k DEF EnsuredInv
  <2>1. Event' = Event
    BY <1>k, <1>n, ReactionStays DEF EnsuredInv
  <2> QED
    BY <1>k, <2>1 DEF EnsuredInv
<1>1. ASSUME NEW r \in Reaction, React(r) PROVE EnsuredInv'
  BY <1>1, <1>k DEF React, Publish, loopVars, userVars
<1>2. ASSUME NEW p \in Profile, EnsureUserProfile(p) PROVE EnsuredInv'
  BY <1>2, <1>k, EnsureKeeps DEF EnsureUserProfile, vars, loopVars
<1>3. ASSUME FetchReaction PROVE EnsuredInv'
  BY <1>3, <1>f DEF FetchReaction, Fetch, EnsuredInv, userVars
<1>4. ASSUME RecordProfile PROVE EnsuredInv'
  <2>1. Event \in Reaction /\ pc["user"] = "handle"
    BY <1>4, ReactionInHand DEF RecordProfile
  <2>2. \E q \in users' : q.id = Event.user
    BY <1>4, <2>1, RecordedProfile, EnsureKeeps DEF RecordProfile
  <2>3. Event' = Event /\ pc' = pc
    BY <1>4 DEF RecordProfile, vars, loopVars, Event, PayloadAt, LogOf
  <2> QED
    BY <2>1, <2>2, <2>3 DEF EnsuredInv
<1>5. ASSUME RecordReaction \/ FailUser PROVE EnsuredInv'
  BY <1>5, <1>f DEF RecordReaction, FailUser
<1>6. ASSUME CommitReaction \/ RestartUser PROVE EnsuredInv'
  BY <1>6, <1>f
     DEF CommitReaction, RestartUser, CommitOk, Restart, EnsuredInv, userVars
<1>7. CASE RejoinUser
  BY <1>7, <1>k DEF RejoinUser, Rejoin, userVars
<1>8. CASE UNCHANGED serviceVars
  BY <1>8, <1>k DEF serviceVars, vars, loopVars, userVars
<1> QED
  BY <1>1, <1>2, <1>3, <1>4, <1>5, <1>6, <1>7, <1>8 DEF UserNext

(* The Postgres table follows the log. *)
LEMMA RecordedStep ==
    ASSUME UserInv, [UserNext]_serviceVars
    PROVE  RecordedInv'
<1>0. TypeOK /\ LoopInv /\ [Next]_vars
  BY UserStepsAreLoopSteps DEF UserInv
<1>l. LogOf("user")[0]' = Reactions'
  BY LoopAssumption, UserAssumption DEF LogOf, Reactions
<1>t. ASSUME driver = "postgres"
      PROVE  TableInv(LogOf("user")[0], KeyOf, reactions, done["user"][0], Through("user"))
  BY <1>0, <1>t, ReactionLog DEF UserInv, RecordedInv
<1>u. ASSUME UNCHANGED <<driver, reactions>>, ~HandleOk("user") PROVE RecordedInv'
  <2> SUFFICES ASSUME driver = "postgres"
               PROVE  TableInv(Reactions, KeyOf, reactions, done["user"][0], Through("user"))'
    BY <1>u DEF RecordedInv
  <2>1. TableInv(LogOf("user")'[0], KeyOf, reactions, done'["user"][0], Through("user")')
    BY <1>0, <1>t, <1>u, ReactionLog, OnePartition, TableUntouched
  <2> QED
    BY <1>l, <1>u, <2>1
<1>1. ASSUME RecordReaction PROVE RecordedInv'
  <2> SUFFICES ASSUME driver = "postgres"
               PROVE  TableInv(Reactions, KeyOf, reactions, done["user"][0], Through("user"))'
    BY <1>1 DEF RecordedInv, RecordReaction
  <2>1. /\ HandleOk("user")
        /\ reactions' = {row \in reactions : ~SameKey(row, Event)} \union {Event}
    BY <1>1 DEF RecordReaction
  <2>2. Event \in Reaction
    BY <1>0, <2>1, ReactionInHand DEF HandleOk, HandleStep
  <2>3. reactions \subseteq Reaction
    BY <1>0, ReactionLog DEF UserInv, RecordedInv, TableInv, RowsAreEvents
  <2>4. \A row \in reactions : SameKey(row, Event) <=> KeyOf[row] = KeyOf[Event]
    BY <2>2, <2>3, SameKeyIsKey
  <2>5. reactions' = {row \in reactions : KeyOf[row] # KeyOf[Event]} \union {Event}
    BY <2>1, <2>4
  <2>6. TableInv(LogOf("user")'[0], KeyOf, reactions', done'["user"][0], Through("user")')
    BY <1>0, <1>t, <2>1, <2>5, ReactionLog, OnePartition, TableAccepts DEF Event
  <2> QED
    BY <1>l, <2>6
<1>2. ASSUME FailUser PROVE RecordedInv'
  <2>1. CASE driver = "memory"
    BY <1>2, <2>1 DEF FailUser, RecordedInv
  <2>2. CASE driver # "memory"
    BY <1>0, <1>2, <1>u, <2>2, ReactionLog
       DEF FailUser, Stop, CommitUnanswered, StopProcess, HandleOk, HandleStep, TypeOK
  <2> QED
    BY <2>1, <2>2
<1>3. ASSUME \/ \E r \in Reaction : React(r)
             \/ \E p \in Profile : EnsureUserProfile(p)
             \/ FetchReaction \/ RecordProfile \/ CommitReaction \/ RestartUser \/ RejoinUser
             \/ UNCHANGED serviceVars
      PROVE  RecordedInv'
  <2>1. UNCHANGED <<driver, reactions>>
    BY <1>3 DEF React, EnsureUserProfile, FetchReaction, RecordProfile, CommitReaction,
                RestartUser, RejoinUser, serviceVars, userVars
  <2>2. ~HandleOk("user")
    BY <1>0, <1>3, ReactionLog
       DEF React, EnsureUserProfile, FetchReaction, RecordProfile, CommitReaction, RestartUser,
           RejoinUser, serviceVars, vars, loopVars, Publish, Fetch, CommitOk, Restart, Rejoin,
           HandleOk, HandleStep, TypeOK
  <2> QED
    BY <1>u, <2>1, <2>2
<1> QED
  BY <1>1, <1>2, <1>3 DEF UserNext

-----------------------------------------------------------------------------
(* The inductive invariant of user-service is an invariant of it. *)
LEMMA UserInvHolds == UserSpec => []UserInv
<1>1. ASSUME UserInit PROVE UserInv
  <2>1. TypeOK
    BY <1>1, LoopAssumption DEF UserInit, Init, TypeOK, Coordinates, Places
  <2>2. LoopInv
    BY <1>1, OnePartition, LoopInvInductive DEF UserInit
  <2>3. /\ Reactions = << >> /\ users = {} /\ reactions = {} /\ ensured = FALSE
        /\ done["user"][0] = {} /\ Through("user") = 0
        /\ driver \in {"postgres", "memory"}
    BY <1>1, UserAssumption DEF UserInit, Init, Reactions, Through
  <2>4. TableInv(<< >>, KeyOf, {}, {}, 0)
    BY TableStarts
  <2> QED
    BY <2>1, <2>2, <2>3, <2>4 DEF UserInv, EnsuredInv, RecordedInv, ReactionHasProfile
<1>2. ASSUME UserInv, [UserNext]_serviceVars PROVE UserInv'
  <2>1. TypeOK' /\ LoopInv'
    BY <1>2, UserStepsAreLoopSteps, TypeInductive, LoopInvInductive, OnePartition DEF UserInv
  <2>2. driver' = driver
    BY <1>2 DEF UserNext, React, EnsureUserProfile, FetchReaction, RecordProfile, RecordReaction,
                CommitReaction, FailUser, RestartUser, RejoinUser, serviceVars, userVars
  <2> QED
    BY <1>2, <2>1, <2>2, ProfilesStep, EnsuredStep, RecordedStep DEF UserInv
<1> QED
  BY <1>1, <1>2, PTL DEF UserSpec

(* user-service implements the consumer loop with nothing poisonous, for all users, articles
   and reaction types. *)
THEOREM UserServiceIsALoop == UserSpec => UserImplementsLoop
<1>1. UserInit => Init
  BY DEF UserInit
<1>2. [UserNext]_serviceVars => [Next]_vars
  BY UserStepsAreLoopSteps
<1> QED
  BY <1>1, <1>2, PTL DEF UserSpec, UserImplementsLoop, Spec

(* However requests and the end of the process fall between the two transactions of Record,
   no reaction is stored for a user without a profile. *)
THEOREM NoReactionWithoutProfile == UserSpec => []ReactionHasProfile
<1>1. UserInv => ReactionHasProfile
  BY DEF UserInv
<1> QED
  BY <1>1, UserInvHolds, PTL

(* Every reaction the loop has accepted has its row in the Postgres table, over any number of
   stops and redeliveries. *)
THEOREM NoReactionIsLost == UserSpec => []AcceptedIsRecorded
<1>1. ASSUME UserInv PROVE AcceptedIsRecorded
  <2> SUFFICES ASSUME driver = "postgres", NEW o \in done["user"][0]
               PROVE  \E r \in reactions : SameKey(r, Reactions[o + 1])
    BY DEF AcceptedIsRecorded
  <2>1. Reactions \in Seq(Reaction)
    BY <1>1, ReactionLog DEF UserInv
  <2>2. PICK r \in reactions : KeyOf[r] = KeyOf[Reactions[o + 1]]
    BY <1>1 DEF UserInv, RecordedInv, TableInv, AcceptedHaveRows
  <2>3. o + 1 \in DOMAIN Reactions /\ r \in Reaction
    BY <1>1, <2>1 DEF UserInv, RecordedInv, TableInv, AcceptedHaveRows, RowsAreEvents
  <2> QED
    BY <2>1, <2>2, <2>3 DEF KeyOf, SameKey
<1> QED
  BY <1>1, UserInvHolds, PTL

(* A loop that has caught up with its topic leaves the time of the last event of every user,
   article and type. *)
THEOREM CaughtUpTimesAreLatest == UserSpec => []TimesShowLatest
<1>1. ASSUME UserInv PROVE TimesShowLatest
  <2> SUFFICES ASSUME driver = "postgres", pc["user"] = "fetch",
                      position["user"][0] = Len(Reactions)
               PROVE  reactions = {Reactions[i] : i \in {j \in DOMAIN Reactions :
                          \A k \in DOMAIN Reactions :
                              k > j => ~SameKey(Reactions[k], Reactions[j])}}
    BY DEF TimesShowLatest
  <2>1. Reactions \in Seq(Reaction) /\ LogOf("user")[0] = Reactions
    BY <1>1, ReactionLog DEF UserInv
  <2>2. reactions = LastOfKeys(Reactions, KeyOf)
    BY <1>1, <2>1, ReactionLog, OnePartition, TableOfCaughtUpLoop DEF UserInv, RecordedInv
  <2>3. \A i, j \in DOMAIN Reactions :
          SameKey(Reactions[i], Reactions[j]) <=> KeyOf[Reactions[i]] = KeyOf[Reactions[j]]
    <3>1. \A i \in DOMAIN Reactions : Reactions[i] \in Reaction
      BY <2>1
    <3> QED
      BY <3>1, SameKeyIsKey
  <2> QED
    BY <2>2, <2>3 DEF LastOfKeys
<1> QED
  BY <1>1, UserInvHolds, PTL

(* No step of the loop, of a request or of a stop loses a profile, its time of creation or an
   email that was given, except the loss of the memory store with its process. *)
THEOREM ProfilesAreKept == UserSpec => ProfilesKept
<1>1. ASSUME UserInv, [UserNext]_serviceVars PROVE ProfileKept \/ UNCHANGED serviceVars
  <2> USE <1>1 DEF UserInv
  <2>u. ASSUME UNCHANGED users PROVE ProfileKept
    BY <2>u DEF ProfileKept
  <2>e. ASSUME NEW p \in Profile, EnsureProfile(p) PROVE ProfileKept
    BY <2>e, EnsureKeeps DEF ProfileKept
  <2>1. ASSUME RecordProfile PROVE ProfileKept
    <3>1. Event \in Reaction
      BY <2>1, ReactionInHand DEF RecordProfile
    <3> QED
      BY <2>1, <2>e, <3>1, RecordedProfile DEF RecordProfile
  <2>2. ASSUME FailUser PROVE ProfileKept
    <3>1. pc'["user"] = "stopped"
      BY <2>2, UserAssumption DEF FailUser, Stop, CommitUnanswered, StopProcess
    <3> QED
      BY <2>2, <2>u, <3>1 DEF FailUser, ProfileKept
  <2>3. ASSUME NEW p \in Profile, EnsureUserProfile(p) PROVE ProfileKept
    BY <2>3, <2>e DEF EnsureUserProfile
  <2>4. ASSUME \/ \E r \in Reaction : React(r)
               \/ FetchReaction \/ RecordReaction \/ CommitReaction \/ RestartUser \/ RejoinUser
        PROVE  UNCHANGED users
    BY <2>4 DEF React, FetchReaction, RecordReaction, CommitReaction, RestartUser, RejoinUser,
                userVars
  <2> QED
    BY <2>u, <2>1, <2>2, <2>3, <2>4 DEF UserNext
<1> QED
  BY <1>1, UserInvHolds, PTL DEF UserSpec, ProfilesKept

=============================================================================
