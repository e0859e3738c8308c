--------------------------- MODULE UserReactions ---------------------------
(***************************************************************************)
(* user-service: the loop that reads reactions, the HTTP handler that      *)
(* ensures profiles, and the store they share.  Recording a reaction is    *)
(* two transactions of the store, first the profile and then the reaction, *)
(* and an HTTP request or the end of the process may come between them.    *)
(* The store is chosen at start-up: two Postgres tables, or two maps that  *)
(* are lost when the process ends.                                         *)
(***************************************************************************)
EXTENDS ConsumerLoop

CONSTANTS
    Users,
    Articles,
    ReactionTypes,
    Times,      \* creation times; requests may be published out of their order
    Emails,     \* email addresses, without ""
    Interests   \* lists of interests, without the empty one

NoInterests == "null"   \* what json.Marshal makes of the nil slice

Reaction == [user : Users, article : Articles, type : ReactionTypes, at : Times]
Profile == [id : Users, email : Emails \union {""}, interests : Interests \union {NoInterests},
            at : Times]

(* One loop on one topic, which carries reactions; none of them is rejected: gateway-api
   sends no empty field and user-service stores any type. *)
ASSUME UserAssumption ==
    /\ Groups = {"user"}
    /\ Topics = {"reaction"}
    /\ Partitions = {0}
    /\ Messages = Reaction
    /\ Poison = [g \in Groups |-> {}]

VARIABLES
    driver,     \* the configured store, "postgres" or "memory"
    users,      \* the rows of users, or MemoryReactions.profiles
    reactions,  \* the rows of user_reactions, or MemoryReactions.reactions
    ensured     \* Record has ensured the profile for the message being handled

userVars == <<driver, users, reactions, ensured>>
serviceVars == <<vars, userVars>>

-----------------------------------------------------------------------------
UserInit ==
    /\ Init
    /\ driver \in {"postgres", "memory"}
    /\ users = {}
    /\ reactions = {}
    /\ ensured = FALSE

Event == PayloadAt("user", cur["user"])

SameKey(r, s) == r.user = s.user /\ r.article = s.article /\ r.type = s.type

(* Mutant: a profile without an email erases the stored one. *)
MergeEmailAlways(row, p) ==
    [row EXCEPT !.email = p.email,
                !.interests = IF driver = "memory" /\ p.interests = NoInterests THEN @
                              ELSE p.interests]

(* EnsureProfile of a known user.  Both stores keep the email when none is given.  The memory
   store keeps the interests when none are given; the Postgres query keeps them when the
   given ones are '[]', and no interests are 'null'. *)
Merge(row, p) ==
    [row EXCEPT !.email = IF p.email = "" THEN @ ELSE p.email,
                !.interests = IF driver = "memory" /\ p.interests = NoInterests THEN @
                              ELSE p.interests]

EnsureProfile(p) ==
    users' = IF \E row \in users : row.id = p.id
             THEN {IF row.id = p.id THEN Merge(row, p) ELSE row : row \in users}
             ELSE users \union {p}

(* gateway-api publishes a reaction. *)
React(r) ==
    /\ Publish("reaction", 0, r)
    /\ UNCHANGED userVars

(* POST /api/v1/users: from gateway-api's GET /me with an id alone, or from a client
   that also gives an email or interests. *)
EnsureUserProfile(p) ==
    /\ pc["user"] # "stopped"
    /\ EnsureProfile(p)
    /\ UNCHANGED <<vars, driver, reactions, ensured>>

FetchReaction ==
    /\ Fetch("user", 0)
    /\ UNCHANGED userVars

(* Record, first transaction: a profile with the reaction's user and time. *)
RecordProfile ==
    /\ pc["user"] = "handle"
    /\ ~ensured
    /\ ensured' = TRUE
    /\ EnsureProfile([id |-> Event.user, email |-> "", interests |-> NoInterests,
                      at |-> Event.at])
    /\ UNCHANGED <<vars, driver, reactions>>

(* Mutant: the reaction is inserted whether or not there is a profile. *)
RecordUnensured ==
    /\ HandleOk("user")
    /\ ensured' = FALSE
    /\ reactions' = {row \in reactions : ~SameKey(row, Event)} \union {Event}
    /\ UNCHANGED <<driver, users>>

(* Mutant: a reaction that is there already keeps its time. *)
RecordOnce ==
    /\ HandleOk("user")
    /\ ensured
    /\ ensured' = FALSE
    /\ reactions' = IF \E row \in reactions : SameKey(row, Event) THEN reactions
                    ELSE reactions \union {Event}
    /\ UNCHANGED <<driver, users>>

(* Mutant: one reaction per user and article, whatever the type. *)
RecordOneType ==
    /\ HandleOk("user")
    /\ ensured
    /\ ensured' = FALSE
    /\ reactions' = {row \in reactions : row.user # Event.user \/ row.article # Event.article}
                        \union {Event}
    /\ UNCHANGED <<driver, users>>

(* Mutant: the loop ignores an error of the second transaction. *)
RecordOrGoOn ==
    /\ pc["user"] = "handle"
    /\ ensured
    /\ ensured' = FALSE
    /\ pc' = [pc EXCEPT !["user"] = "fetch"]
    /\ UNCHANGED <<log, committed, position, cur, failures, done, driver, users, reactions>>

(* Record, second transaction: the row of user, article and type, with the event's time. *)
RecordReaction ==
    /\ HandleOk("user")
    /\ ensured
    /\ ensured' = FALSE
    /\ reactions' = {row \in reactions : ~SameKey(row, Event)} \union {Event}
    /\ UNCHANGED <<driver, users>>

CommitReaction ==
    /\ CommitOk("user")
    /\ UNCHANGED userVars

(* The process ends; a store in memory ends with it. *)
FailUser ==
    /\ Stop("user") \/ CommitUnanswered("user")
    /\ ensured' = FALSE
    /\ IF driver = "memory" THEN users' = {} /\ reactions' = {}
       ELSE UNCHANGED <<users, reactions>>
    /\ UNCHANGED driver

RestartUser ==
    /\ Restart("user")
    /\ UNCHANGED userVars

(* The reader rejoins its group, also between the two transactions of a message in hand. *)
RejoinUser ==
    /\ Rejoin("user")
    /\ UNCHANGED userVars

UserNext ==
    \/ \E r \in Reaction : React(r)
    \/ \E p \in Profile : EnsureUserProfile(p)
    \/ FetchReaction
    \/ RecordProfile
    \/ RecordReaction
    \/ CommitReaction
    \/ FailUser
    \/ RestartUser
    \/ RejoinUser

UserSpec == UserInit /\ [][UserNext]_serviceVars

(* The loop goes on while it can and the process is started again; nothing is assumed of
   clients. *)
UserFairSpec ==
    /\ UserSpec
    /\ WF_serviceVars(FetchReaction)
    /\ WF_serviceVars(RecordProfile)
    /\ WF_serviceVars(RecordReaction)
    /\ WF_serviceVars(CommitReaction)
    /\ WF_serviceVars(RestartUser)

-----------------------------------------------------------------------------
Reactions == log["reaction"][0]

(* user-service is a consumer loop that no reaction can stop. *)
UserImplementsLoop == Spec

(* Whatever comes between the two transactions of Record, no reaction is stored for a user
   without a profile. *)
ReactionHasProfile == \A r \in reactions : \E p \in users : p.id = r.user

(* Nothing accepted is lost from the table: every accepted reaction has its row, although
   reactions of other types to the same article came after it. *)
AcceptedIsRecorded ==
    driver = "postgres" =>
        \A o \in done["user"][0] : \E r \in reactions : SameKey(r, Reactions[o + 1])

(* Redelivery may set a reaction's time back, but a loop that has caught up with its topic
   leaves the time of the last event of every user, article and type. *)
TimesShowLatest ==
    driver = "postgres" /\ pc["user"] = "fetch" /\ position["user"][0] = Len(Reactions)
        => reactions = {Reactions[i] : i \in {j \in DOMAIN Reactions :
              \A k \in DOMAIN Reactions : k > j => ~SameKey(Reactions[k], Reactions[j])}}

(* Once accepted and written, a profile's email and time of creation survive reactions and
   requests that give none, and the end of the process when the store is Postgres. *)
ProfileKept ==
    \A p \in users :
        \/ \E q \in users' : q.id = p.id /\ q.at = p.at /\ (p.email # "" => q.email # "")
        \/ driver = "memory" /\ pc'["user"] = "stopped"

(* Profiles are only ever extended or corrected. *)
ProfilesKept == [][ProfileKept]_serviceVars

(* What the service's README says, "Owns users, interests, reactions, and saved articles":
   interests that were given stay until others are given, as the memory store keeps them. *)
InterestsKept ==
    [][\A p \in users, q \in users' :
          driver = "postgres" /\ p.id = q.id /\ p.interests # NoInterests
              => q.interests # NoInterests]_serviceVars

=============================================================================
