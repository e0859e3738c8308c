-------------------------- MODULE GatewayFeedProofs --------------------------
(***************************************************************************)
(* Proofs about the query feed, for any number of users, articles,         *)
(* requests under way, reactions and failures.                             *)
(***************************************************************************)
EXTENDS GatewayFeed, RoundRobinProofs, SequenceTheorems

(* What the user's reactions hide. *)
HiddenBy(known) == {a \in Articles : \E type \in Types : <<a, type>> \in known /\ Hides(type)}

Items == [article : Articles, reaction : Types \union {""}]
Payloads == [items : Seq(Items), next : Nat]
Keys == [home : BOOLEAN, cursor : Nat, refill : BOOLEAN]
Places == {"idle", "lookup", "evict", "search", "list", "personalize", "refill", "store", "done"}
Requests == [pc : Places, key : Keys, found : Seq(Articles), more : BOOLEAN, payload : Payloads,
             origin : {"", "made", "open", "cached"}, hidden : SUBSET Articles]
Scrolls == [shown : SUBSET Articles, initial : SUBSET Articles, next : Nat, fresh : BOOLEAN]

GatewayTypeOK ==
    /\ now \in Nat
    /\ parsed \in Seq(Articles) /\ IsInjective(parsed)
    /\ version \in [Articles -> [rank : Nat, date : Nat]]
    /\ pool = SearchOrder(version, parsed)
    /\ reactions \in [Users -> SUBSET (Articles \X Types)]
    /\ cache \subseteq [key : Keys, payload : Payloads, expiresAt : Int]
    /\ req \in [Users -> Requests]
    /\ scroll \in [Users -> Scrolls]

-----------------------------------------------------------------------------
(* What rows may say. *)
Vers == [Articles -> [rank : Nat, date : Nat]]

(* Places in a list without repetitions order what is listed. *)
LEMMA LaterOrders ==
  ASSUME NEW list \in Seq(Articles), IsInjective(list)
  PROVE  /\ \A i, j \in DOMAIN list : Later(list, list[i], list[j]) <=> i > j
         /\ \A x : ~Later(list, x, x)
         /\ \A x, y, z : Later(list, x, y) /\ Later(list, y, z) => Later(list, x, z)
         /\ \A x, y \in Range(list) : x = y \/ Later(list, x, y) \/ Later(list, y, x)
<1>1. /\ Len(list) \in Nat /\ DOMAIN list = 1..Len(list)
      /\ \A i, j \in DOMAIN list : list[i] = list[j] => i = j
  BY DEF IsInjective
<1>2. \A i, j \in DOMAIN list : Later(list, list[i], list[j]) <=> i > j
  BY <1>1 DEF Later
<1>3. \A x : ~Later(list, x, x)
  <2> SUFFICES ASSUME NEW x, Later(list, x, x) PROVE FALSE
    OBVIOUS
  <2>1. PICK i \in DOMAIN list, j \in DOMAIN list : list[i] = x /\ list[j] = x /\ i > j
    BY DEF Later
  <2> QED BY <1>1, <2>1
<1>4. ASSUME NEW x, NEW y, NEW z, Later(list, x, y), Later(list, y, z) PROVE Later(list, x, z)
  <2>1. PICK i \in DOMAIN list, j \in DOMAIN list : list[i] = x /\ list[j] = y /\ i > j
    BY <1>4 DEF Later
  <2>2. PICK k \in DOMAIN list, l \in DOMAIN list : list[k] = y /\ list[l] = z /\ k > l
    BY <1>4 DEF Later
  <2>3. j = k
    BY <1>1, <2>1, <2>2
  <2>4. i > l
    BY <1>1, <2>1, <2>2, <2>3
  <2> QED BY <2>1, <2>2, <2>4 DEF Later
<1>5. ASSUME NEW x \in Range(list), NEW y \in Range(list)
      PROVE  x = y \/ Later(list, x, y) \/ Later(list, y, x)
  <2>1. PICK i \in DOMAIN list, j \in DOMAIN list : list[i] = x /\ list[j] = y
    BY DEF Range
  <2>2. i = j \/ i > j \/ j > i
    BY <1>1
  <2> QED BY <1>2, <2>1, <2>2
<1> QED BY <1>2, <1>3, <1>4, <1>5

(* What rows say is ordered by rank and date. *)
LEMMA HigherOrders ==
  /\ \A v \in [rank : Nat, date : Nat] : ~Higher(v, v)
  /\ \A v, w, x \in [rank : Nat, date : Nat] : Higher(v, w) /\ Higher(w, x) => Higher(v, x)
  /\ \A v, w \in [rank : Nat, date : Nat] : v = w \/ Higher(v, w) \/ Higher(w, v)
BY DEF Higher

(* The rows that match. *)
LEMMA MatchingRows ==
  ASSUME NEW ver, NEW rows \in Seq(Articles)
  PROVE  /\ Matching(ver, rows) \subseteq Range(rows) /\ Range(rows) \subseteq Articles
         /\ IsFiniteSet(Matching(ver, rows))
<1>1. Range(rows) \in SUBSET Articles
  BY DEF Range
<1>2. Matching(ver, rows) \in SUBSET Range(rows)
  BY DEF Matching
<1>3. IsFiniteSet(Articles)
  BY GatewayAssumption
<1>4. Matching(ver, rows) \in SUBSET Articles
  BY <1>1, <1>2
<1>5. IsFiniteSet(Matching(ver, rows))
  BY <1>3, <1>4, FS_Subset
<1> QED BY <1>1, <1>2, <1>5

(* The search order of a table is an order of its rows. *)
LEMMA SearchOrders ==
  ASSUME NEW ver \in Vers, NEW rows \in Seq(Articles), IsInjective(rows)
  PROVE  Orders(Better(ver, rows), Matching(ver, rows))
<1> DEFINE R == Matching(ver, rows)
           better == Better(ver, rows)
           V == [rank : Nat, date : Nat]
<1>1. \A r \in R : r \in Articles /\ r \in Range(rows) /\ ver[r] \in V
  BY MatchingRows DEF Vers
<1>2. \A a, b \in Articles : a \in better[b] <=>
         Higher(ver[a], ver[b]) \/ (ver[a] = ver[b] /\ Later(rows, a, b))
  BY DEF Better
<1>3. /\ \A v \in V : ~Higher(v, v)
      /\ \A v, w, x \in V : Higher(v, w) /\ Higher(w, x) => Higher(v, x)
      /\ \A v, w \in V : v = w \/ Higher(v, w) \/ Higher(w, v)
  BY HigherOrders
<1>4. /\ \A x : ~Later(rows, x, x)
      /\ \A x, y, z : Later(rows, x, y) /\ Later(rows, y, z) => Later(rows, x, z)
      /\ \A x, y \in Range(rows) : x = y \/ Later(rows, x, y) \/ Later(rows, y, x)
  BY LaterOrders
<1> HIDE DEF R, better, V
<1>5. \A r \in R : r \notin better[r]
  BY <1>1, <1>2, <1>3, <1>4
<1>6. ASSUME NEW r \in R, NEW s \in R, NEW t \in R, s \in better[r], t \in better[s]
      PROVE  t \in better[r]
  <2>1. /\ Higher(ver[s], ver[r]) \/ (ver[s] = ver[r] /\ Later(rows, s, r))
        /\ Higher(ver[t], ver[s]) \/ (ver[t] = ver[s] /\ Later(rows, t, s))
    BY <1>1, <1>2, <1>6
  <2>2. Higher(ver[t], ver[r]) \/ (ver[t] = ver[r] /\ Later(rows, t, r))
    BY <1>1, <1>3, <1>4, <2>1
  <2> QED BY <1>1, <1>2, <2>2
<1>7. \A r, s \in R : r = s \/ r \in better[s] \/ s \in better[r]
  BY <1>1, <1>2, <1>3, <1>4
<1> QED BY <1>5, <1>6, <1>7 DEF Orders, R, better

(* In memory, dates order the rows, and of one date the map. *)
LEMMA DatesOrder ==
  ASSUME NEW ver \in Vers, NEW listed \in Seq(Articles), IsInjective(listed)
  PROVE  Orders(Newer(ver, listed), Matching(ver, listed))
<1> DEFINE R == Matching(ver, listed)
           newer == Newer(ver, listed)
<1>1. \A r \in R : r \in Articles /\ r \in Range(listed) /\ ver[r].date \in Nat
  BY MatchingRows DEF Vers
<1>2. \A a, b \in Articles : a \in newer[b] <=>
         ver[a].date > ver[b].date \/ (ver[a].date = ver[b].date /\ Later(listed, b, a))
  BY DEF Newer
<1>3. /\ \A x : ~Later(listed, x, x)
      /\ \A x, y, z : Later(listed, x, y) /\ Later(listed, y, z) => Later(listed, x, z)
      /\ \A x, y \in Range(listed) : x = y \/ Later(listed, x, y) \/ Later(listed, y, x)
  BY LaterOrders
<1> HIDE DEF R, newer
<1>4. \A r \in R : r \notin newer[r]
  BY <1>1, <1>2, <1>3
<1>5. ASSUME NEW r \in R, NEW s \in R, NEW t \in R, s \in newer[r], t \in newer[s]
      PROVE  t \in newer[r]
  <2>1. /\ ver[s].date > ver[r].date \/ (ver[s].date = ver[r].date /\ Later(listed, r, s))
        /\ ver[t].date > ver[s].date \/ (ver[t].date = ver[s].date /\ Later(listed, s, t))
    BY <1>1, <1>2, <1>5
  <2>2. Later(listed, r, s) /\ Later(listed, s, t) => Later(listed, r, t)
    BY <1>3
  <2>3. ver[t].date > ver[r].date \/ (ver[t].date = ver[r].date /\ Later(listed, r, t))
    BY <1>1, <2>1, <2>2
  <2> QED BY <1>1, <1>2, <2>3
<1>6. ASSUME NEW r \in R, NEW s \in R PROVE r = s \/ r \in newer[s] \/ s \in newer[r]
  <2>1. r = s \/ Later(listed, r, s) \/ Later(listed, s, r)
    BY <1>1, <1>3
  <2>2. ver[r].date > ver[s].date \/ ver[r].date = ver[s].date \/ ver[s].date > ver[r].date
    BY <1>1
  <2> QED BY <1>1, <1>2, <2>1, <2>2
<1> QED BY <1>4, <1>5, <1>6 DEF Orders, R, newer

(* The pool lists every row that matches once. *)
LEMMA PoolLists ==
  ASSUME NEW ver \in Vers, NEW rows \in Seq(Articles), IsInjective(rows)
  PROVE  LET order == SearchOrder(ver, rows)
             M == Matching(ver, rows)
             n == Cardinality(M)
         IN  /\ n \in Nat /\ order \in [1..n -> M]
             /\ order \in Seq(Articles) /\ Len(order) = n /\ DOMAIN order = 1..n
             /\ IsInjective(order)
             /\ \A r \in M : \E k \in 1..n : order[k] = r
             /\ Range(order) = M
<1> DEFINE order == SearchOrder(ver, rows)
           M == Matching(ver, rows)
           n == Cardinality(M)
<1>1. IsFiniteSet(M) /\ M \in SUBSET Articles /\ Orders(Better(ver, rows), M)
  BY MatchingRows, SearchOrders
<1>2. order = NumberedByKey(SourceOf, Better(ver, rows), M)
  BY DEF SearchOrder
<1> HIDE DEF M
<1>3. /\ n \in Nat /\ order \in [1..n -> M]
      /\ IsInjective(order)
      /\ \A r \in M : \E k \in 1..n : order[k] = r
  <2> HIDE DEF order
  <2> QED BY <1>1, <1>2, NumberedLists
<1> HIDE DEF order
<1>4. order \in Seq(Articles) /\ Len(order) = n /\ DOMAIN order = 1..n
  BY <1>1, <1>3, ListOfLength
<1>5. Range(order) = M
  BY <1>3, <1>4 DEF Range
<1> QED BY <1>3, <1>4, <1>5 DEF order, M

(* The pool is a list of articles. *)
LEMMA PoolTyped ==
  ASSUME GatewayTypeOK
  PROVE  pool \in Seq(Articles)
BY PoolLists DEF GatewayTypeOK, Vers

-----------------------------------------------------------------------------
(* The strongest reaction to an article is there, and it hides the article exactly if one of
   them does. *)
LEMMA LatestDecides ==
  ASSUME NEW known, NEW a \in Articles
  PROVE  LET label == CHOOSE type \in Latest(known, a) : TRUE
         IN  label \in Types \union {""} /\ (Hides(label) <=> a \in HiddenBy(known))
<1> DEFINE types == {type \in Types : <<a, type>> \in known}
           best == {type \in types : \A other \in types : Priority(type) >= Priority(other)}
           label == CHOOSE type \in Latest(known, a) : TRUE
<1>1. \A type : /\ Priority(type) \in 0..3
                /\ Priority(type) = 3 <=> Hides(type)
  BY DEF Priority, Hides
<1>2. CASE types = {}
  <2>1. Latest(known, a) = {""}
    BY <1>2 DEF Latest
  <2>2. label = ""
    BY <2>1
  <2>3. a \notin HiddenBy(known) /\ ~Hides("")
    BY <1>2 DEF HiddenBy, Hides
  <2> QED BY <2>2, <2>3
<1>3. CASE types # {}
  <2>1. Latest(known, a) = best
    BY <1>3 DEF Latest
  <2>2. best # {}
    <3> DEFINE Strong(n) == \E type \in types : Priority(type) = n
    <3>1. CASE Strong(3)
      BY <1>1, <3>1
    <3>2. CASE ~Strong(3) /\ Strong(2)
      BY <1>1, <3>2
    <3>3. CASE ~Strong(3) /\ ~Strong(2) /\ Strong(1)
      BY <1>1, <3>3
    <3>4. CASE ~Strong(3) /\ ~Strong(2) /\ ~Strong(1)
      <4>1. \A type \in types : Priority(type) = 0
        BY <1>1, <3>4
      <4>2. PICK type \in types : TRUE
        BY <1>3
      <4>3. type \in best
        BY <4>1, <4>2
      <4> QED BY <4>3
    <3> QED BY <3>1, <3>2, <3>3, <3>4
  <2>3. label \in best
    BY <2>1, <2>2
  <2>4. label \in Types /\ label \in types /\ \A other \in types : Priority(label) >= Priority(other)
    BY <2>3
  <2>5. a \in HiddenBy(known) <=> \E type \in types : Hides(type)
    BY DEF HiddenBy
  <2>6. label \in Types \union {""} /\ (Hides(label) <=> a \in HiddenBy(known))
    <3> HIDE DEF types, label
    <3>1. Hides(label) => a \in HiddenBy(known)
      BY <2>4, <2>5
    <3>2. ASSUME NEW type \in types, Hides(type) PROVE Hides(label)
      <4>1. Priority(type) = 3 /\ Priority(label) \in 0..3 /\ Priority(label) >= Priority(type)
        BY <1>1, <2>4, <3>2
      <4>2. Priority(label) = 3
        BY <4>1
      <4> QED BY <1>1, <4>2
    <3> QED BY <2>4, <2>5, <3>1, <3>2
  <2> QED BY <2>6
<1> QED BY <1>2, <1>3

(* applyUserReactions leaves out what the reactions hide and nothing else. *)
LEMMA ApplyShows ==
  ASSUME NEW found \in Seq(Articles), NEW known
  PROVE  LET items == ApplyUserReactions(found, known)
         IN  /\ items \in Seq(Items) /\ Len(items) \in Nat /\ Len(items) <= Len(found)
             /\ \A i \in DOMAIN items : /\ items[i].article \in Range(found)
                                        /\ items[i].article \notin HiddenBy(known)
             /\ \A k \in DOMAIN found : found[k] \in HiddenBy(known)
                                        \/ \E i \in DOMAIN items : items[i].article = found[k]
             /\ Len(items) = Len(found) \/ HiddenBy(known) # {}
<1> DEFINE Label(a) == CHOOSE type \in Latest(known, a) : TRUE
           wanted == {a \in Articles : ~Hides(Label(a))}
           visible == Keep(found, wanted)
           items == ApplyUserReactions(found, known)
<1>1. \A a \in Articles : Label(a) \in Types \union {""} /\ (Hides(Label(a)) <=> a \in HiddenBy(known))
  BY LatestDecides
<1>2. items = [i \in DOMAIN visible |-> [article |-> visible[i], reaction |-> Label(visible[i])]]
  BY DEF ApplyUserReactions
<1>3. wanted = Articles \ HiddenBy(known)
  BY <1>1
<1> HIDE DEF wanted, Label
<1>4. /\ visible \in Seq(Articles \intersect wanted)
      /\ \A i \in 1..Len(found) : found[i] \in wanted =>
            \E k \in 1..Len(visible) : visible[k] = found[i]
      /\ IsSublist(visible, found)
  BY KeepFilters
<1>5. /\ Len(visible) \in Nat /\ Len(visible) <= Len(found)
      /\ (\A i \in 1..Len(found) : found[i] \in wanted) => Len(visible) = Len(found)
  BY KeepLength
<1> HIDE DEF visible, items
<1>6. DOMAIN visible = 1..Len(visible) /\ DOMAIN found = 1..Len(found)
      /\ \A k \in 1..Len(found) : found[k] \in Articles
  BY <1>4
<1>7. \A i \in 1..Len(visible) : visible[i] \in Articles /\ visible[i] \in wanted /\ visible[i] \in Range(found)
  <2>1. \A i \in 1..Len(visible) : visible[i] \in Articles /\ visible[i] \in wanted
    BY <1>4
  <2>2. \A i \in 1..Len(visible) : \E k \in 1..Len(found) : visible[i] = found[k]
    BY <1>4 DEF IsSublist
  <2> QED BY <1>6, <2>1, <2>2 DEF Range
<1>8. items \in [1..Len(visible) -> Items]
  BY <1>1, <1>2, <1>6, <1>7 DEF Items
<1>9. items \in Seq(Items) /\ Len(items) = Len(visible) /\ DOMAIN items = 1..Len(visible)
  BY <1>5, <1>8, ListOfLength
<1>10. \A i \in 1..Len(visible) : items[i].article = visible[i]
  BY <1>2, <1>6
<1>11. ASSUME NEW k \in DOMAIN found
       PROVE  found[k] \in HiddenBy(known) \/ \E i \in DOMAIN items : items[i].article = found[k]
  BY <1>3, <1>4, <1>6, <1>9, <1>10
<1>12. Len(items) = Len(found) \/ HiddenBy(known) # {}
  BY <1>3, <1>5, <1>6, <1>9
<1> QED BY <1>3, <1>5, <1>7, <1>9, <1>10, <1>11, <1>12 DEF items

-----------------------------------------------------------------------------
(* The rows from an offset to an end. *)
LEMMA PageCut ==
  ASSUME NEW list \in Seq(Articles), NEW offset \in Nat, NEW end \in Nat,
         end <= Len(list), end <= offset + Limit, end = offset + Limit \/ end = Len(list)
  PROVE  LET page == SubSeq(list, offset + 1, end)
         IN  /\ page \in Seq(Articles) /\ Len(page) <= Limit
             /\ Len(page) = Limit <=> offset + Limit <= Len(list)
             /\ \A i \in DOMAIN list : offset < i /\ i <= offset + Limit =>
                   \E k \in DOMAIN page : page[k] = list[i]
<1> DEFINE page == SubSeq(list, offset + 1, end)
<1>1. Limit \in Nat \ {0} /\ Len(list) \in Nat
  BY GatewayAssumption
<1>2. end \in Int /\ offset + 1 \in Int /\ \A i \in (offset + 1)..end : list[i] \in Articles
  BY <1>1
<1>3. /\ page \in Seq(Articles)
      /\ Len(page) = IF offset + 1 <= end THEN end - (offset + 1) + 1 ELSE 0
      /\ \A i \in 1..(end - (offset + 1) + 1) : page[i] = list[offset + 1 + i - 1]
  BY <1>2, SubSeqProperties
<1> HIDE DEF page
<1>4. DOMAIN page = 1..Len(page) /\ Len(page) \in Nat
  BY <1>3
<1>5. ASSUME NEW i \in DOMAIN list, offset < i, i <= offset + Limit
      PROVE  \E k \in DOMAIN page : page[k] = list[i]
  <2>0. i \in Nat /\ i <= Len(list)
    OBVIOUS
  <2>1. i \in Int /\ i <= end /\ i - offset \in 1..(end - (offset + 1) + 1) /\ offset + 1 <= end
    BY <1>1, <1>5, <2>0
  <2>2. i - offset \in DOMAIN page
    BY <1>3, <1>4, <2>1
  <2>3. page[i - offset] = list[offset + 1 + (i - offset) - 1]
    BY <1>3, <2>1
  <2>4. offset + 1 + (i - offset) - 1 = i
    BY <2>1
  <2> QED BY <2>2, <2>3, <2>4
<1>6. Len(page) <= Limit /\ (Len(page) = Limit <=> offset + Limit <= Len(list))
  <2>1. Len(page) = IF offset + 1 <= end THEN end - (offset + 1) + 1 ELSE 0
    BY <1>3
  <2> QED BY <1>1, <2>1
<1> QED BY <1>3, <1>5, <1>6 DEF page

(* The page of an offset: the rows at most Limit behind it. *)
LEMMA PageOfPool ==
  ASSUME NEW list \in Seq(Articles), NEW offset \in Nat
  PROVE  LET page == SubSeq(list, offset + 1, Min({offset + Limit, Len(list)}))
         IN  /\ page \in Seq(Articles) /\ Len(page) <= Limit
             /\ Len(page) = Limit <=> offset + Limit <= Len(list)
             /\ \A i \in DOMAIN list : offset < i /\ i <= offset + Limit =>
                   \E k \in DOMAIN page : page[k] = list[i]
<1> DEFINE end == Min({offset + Limit, Len(list)})
<1>1. Limit \in Nat /\ Len(list) \in Nat /\ offset + Limit \in Nat
  BY GatewayAssumption
<1>2. end = IF offset + Limit <= Len(list) THEN offset + Limit ELSE Len(list)
  BY <1>1, MinOfTwo
<1> HIDE DEF end
<1>3. /\ end \in Nat /\ end <= Len(list) /\ end <= offset + Limit
      /\ end = offset + Limit \/ end = Len(list)
  BY <1>1, <1>2
<1> QED BY <1>3, PageCut DEF end

-----------------------------------------------------------------------------
(* A step of u's request leaves the others alone. *)
OnlyOf(u) == \A v \in Users \ {u} : req'[v] = req[v] /\ scroll'[v] = scroll[v]

(* A new request, typed. *)
LEMMA NewRequestTyped ==
  ASSUME NEW key \in Keys
  PROVE  NewRequest(key) \in Requests /\ FirstPage \in Keys /\ Home \in Keys
<1>1. << >> \in Seq(Articles) /\ << >> \in Seq(Items)
  OBVIOUS
<1>2. NewRequest(key) \in Requests
  BY <1>1 DEF NewRequest, Requests, Payloads, Places
<1> QED BY <1>2 DEF FirstPage, Home, Keys

(* Ask: a new request, which has nothing yet and knows what its user has hidden. *)
LEMMA AskDoes ==
  ASSUME GatewayTypeOK, NEW u \in Users, NEW key \in Keys, Ask(u, key)
  PROVE  /\ req' \in [Users -> Requests] /\ OnlyOf(u) /\ scroll' = scroll
         /\ req'[u] = [NewRequest(key) EXCEPT !.pc = req'[u].pc, !.hidden = HiddenFrom(u)]
         /\ req'[u].pc = "list" <=> key.home
         /\ req'[u].pc \in {"list", "lookup", "search"}
<1> DEFINE new == [NewRequest(key) EXCEPT
                      !.pc = IF key.home THEN "list"
                             ELSE IF TTL > 0 /\ ~key.refill THEN "lookup" ELSE "search",
                      !.hidden = HiddenFrom(u)]
<1>1. req' = [req EXCEPT ![u] = new] /\ scroll' = scroll
  BY DEF Ask
<1>2. /\ new \in Requests
      /\ new = [NewRequest(key) EXCEPT !.pc = new.pc, !.hidden = HiddenFrom(u)]
      /\ new.pc = "list" <=> key.home
      /\ new.pc \in {"list", "lookup", "search"}
  <2>1. NewRequest(key) \in Requests /\ HiddenFrom(u) \in SUBSET Articles
    BY NewRequestTyped DEF HiddenFrom
  <2> QED BY <2>1 DEF Requests, Places
<1> HIDE DEF new
<1>3. req \in [Users -> Requests]
  BY DEF GatewayTypeOK
<1>4. req' \in [Users -> Requests] /\ req'[u] = new /\ OnlyOf(u)
  BY <1>1, <1>2, <1>3 DEF OnlyOf
<1> QED BY <1>1, <1>2, <1>4

(* A step that only moves the request on. *)
LEMMA GoDoes ==
  ASSUME GatewayTypeOK, NEW u \in Users, NEW place \in Places, Go(u, place), scroll' = scroll
  PROVE  /\ req' \in [Users -> Requests] /\ OnlyOf(u)
         /\ req'[u] = [req[u] EXCEPT !.pc = place]
<1>1. req \in [Users -> Requests] /\ req' = [req EXCEPT ![u].pc = place]
  BY DEF GatewayTypeOK, Go
<1>2. [req[u] EXCEPT !.pc = place] \in Requests
  BY <1>1 DEF Requests
<1> QED BY <1>1, <1>2 DEF OnlyOf

(* A page that is shown extends the scroll of its user. *)
LEMMA ShownDoes ==
  ASSUME GatewayTypeOK, NEW u \in Users, NEW payload \in Payloads, NEW made \in BOOLEAN,
         Shown(u, payload, made)
  PROVE  /\ scroll' \in [Users -> Scrolls]
         /\ \A v \in Users \ {u} : scroll'[v] = scroll[v]
         /\ scroll'[u].shown =
               Seen(u) \union {payload.items[i].article : i \in DOMAIN payload.items}
         /\ scroll'[u].next = payload.next
         /\ scroll'[u].fresh => /\ made /\ payload.next > 0
                                /\ req[u].key.cursor = 0 \/ scroll[u].fresh
                                /\ scroll'[u].initial = scroll[u].initial
<1> DEFINE articles == {payload.items[i].article : i \in DOMAIN payload.items}
           fresh == made /\ payload.next > 0 /\ (req[u].key.cursor = 0 \/ scroll[u].fresh)
           initial == IF fresh THEN scroll[u].initial ELSE {}
           new == [shown |-> Seen(u) \union articles, initial |-> initial,
                   next |-> payload.next, fresh |-> fresh]
<1>1. scroll' = [scroll EXCEPT ![u] = new]
  BY DEF Shown
<1>2. /\ scroll \in [Users -> Scrolls] /\ scroll[u] \in Scrolls
      /\ scroll[u].shown \in SUBSET Articles /\ scroll[u].initial \in SUBSET Articles
  BY DEF GatewayTypeOK, Scrolls
<1>3. articles \in SUBSET Articles
  <2>1. payload.items \in Seq(Items)
    BY DEF Payloads
  <2>2. \A i \in DOMAIN payload.items : payload.items[i] \in Items
    BY <2>1
  <2> QED BY <2>2 DEF Items
<1>4. payload.next \in Nat /\ Seen(u) \in SUBSET Articles /\ initial \in SUBSET Articles
  BY <1>2 DEF Payloads, Seen
<1>5. fresh \in BOOLEAN /\ (fresh => initial = scroll[u].initial)
  OBVIOUS
<1>6. new \in Scrolls /\ new.shown = Seen(u) \union articles /\ new.initial = initial
      /\ new.next = payload.next /\ new.fresh = fresh
  <2> HIDE DEF articles, fresh, initial
  <2> QED BY <1>3, <1>4, <1>5 DEF Scrolls
<1>7. /\ scroll'[u] = new /\ scroll' \in [Users -> Scrolls]
      /\ \A v \in Users \ {u} : scroll'[v] = scroll[v]
  <2> HIDE DEF new
  <2> QED BY <1>1, <1>2, <1>6
<1>8. scroll'[u].fresh => fresh /\ scroll'[u].initial = scroll[u].initial
  <2> HIDE DEF new, fresh, initial
  <2> QED BY <1>5, <1>6, <1>7
<1>9. scroll'[u].shown = Seen(u) \union articles /\ scroll'[u].next = payload.next
  <2> HIDE DEF new, articles
  <2> QED BY <1>6, <1>7
<1> QED BY <1>7, <1>8, <1>9

(* CacheGet: the request is answered by an entry that has not expired, or goes on. *)
LEMMA CacheGetDoes ==
  ASSUME GatewayTypeOK, NEW u \in Users, CacheGet(u)
  PROVE  /\ req' \in [Users -> Requests] /\ scroll' \in [Users -> Scrolls] /\ OnlyOf(u)
         /\ \/ /\ req'[u].pc = "done" /\ req'[u].origin = "cached" /\ req'[u].key = FirstPage
               /\ req'[u].hidden = req[u].hidden /\ ~scroll'[u].fresh
            \/ /\ scroll' = scroll
               /\ \E place \in {"evict", "search"} : req'[u] = [req[u] EXCEPT !.pc = place]
<1>1. ASSUME NEW e \in Entries(req[u].key),
             req' = [req EXCEPT ![u].pc = "done", ![u].key = FirstPage,
                                ![u].payload = e.payload, ![u].origin = "cached"],
             Shown(u, e.payload, FALSE)
      PROVE  /\ req' \in [Users -> Requests] /\ scroll' \in [Users -> Scrolls] /\ OnlyOf(u)
             /\ req'[u].pc = "done" /\ req'[u].origin = "cached" /\ req'[u].key = FirstPage
             /\ req'[u].hidden = req[u].hidden /\ ~scroll'[u].fresh
  <2>1. e \in cache /\ e.payload \in Payloads
    BY DEF Entries, GatewayTypeOK
  <2> DEFINE new == [req[u] EXCEPT !.pc = "done", !.key = FirstPage, !.payload = e.payload,
                                   !.origin = "cached"]
  <2>2. req' = [req EXCEPT ![u] = new] /\ req \in [Users -> Requests] /\ FirstPage \in Keys
    BY <1>1 DEF GatewayTypeOK, FirstPage, Keys
  <2>3. /\ new \in Requests /\ new.pc = "done" /\ new.origin = "cached" /\ new.key = FirstPage
        /\ new.hidden = req[u].hidden
    <3>1. req[u] \in Requests
      BY <2>2
    <3> QED BY <2>1, <2>2, <3>1 DEF Requests, Places
  <2> HIDE DEF new
  <2>4. req' \in [Users -> Requests] /\ req'[u] = new /\ \A v \in Users \ {u} : req'[v] = req[v]
    BY <2>2, <2>3
  <2>5. /\ scroll' \in [Users -> Scrolls] /\ \A v \in Users \ {u} : scroll'[v] = scroll[v]
        /\ ~scroll'[u].fresh
    <3>1. FALSE \in BOOLEAN
      OBVIOUS
    <3> QED BY <1>1, <2>1, <3>1, ShownDoes
  <2> QED BY <2>3, <2>4, <2>5 DEF OnlyOf
<1>2. ASSUME NEW place \in {"evict", "search"}, Go(u, place), UNCHANGED scroll
      PROVE  /\ req' \in [Users -> Requests] /\ scroll' \in [Users -> Scrolls] /\ OnlyOf(u)
             /\ scroll' = scroll
             /\ req'[u] = [req[u] EXCEPT !.pc = place]
  <2>1. place \in Places
    BY DEF Places
  <2>2. scroll' \in [Users -> Scrolls]
    BY <1>2 DEF GatewayTypeOK
  <2> QED BY <1>2, <2>1, <2>2, GoDoes
<1>3. CASE \E e \in Entries(req[u].key) :
              /\ now <= e.expiresAt
              /\ req' = [req EXCEPT ![u].pc = "done", ![u].key = FirstPage,
                                    ![u].payload = e.payload, ![u].origin = "cached"]
              /\ Shown(u, e.payload, FALSE)
  BY <1>1, <1>3
<1>4. CASE Go(u, "evict") /\ UNCHANGED scroll
  BY <1>2, <1>4
<1>5. CASE Go(u, "search") /\ UNCHANGED scroll
  BY <1>2, <1>5
<1> QED BY <1>3, <1>4, <1>5 DEF CacheGet

(* Search: the page at the cursor, and whether there is more behind it. *)
LEMMA SearchDoes ==
  ASSUME GatewayTypeOK, NEW u \in Users, Search(u)
  PROVE  LET page == SubSeq(pool, req[u].key.cursor + 1,
                            Min({req[u].key.cursor + Limit, Len(pool)}))
         IN  /\ req' \in [Users -> Requests] /\ scroll' \in [Users -> Scrolls] /\ OnlyOf(u)
             /\ req'[u] = [req[u] EXCEPT !.pc = "personalize", !.found = page,
                                         !.more = req[u].key.cursor + Limit < Len(pool)]
             /\ scroll'[u] = IF req[u].key.cursor # 0 THEN scroll[u]
                             ELSE [NewScroll EXCEPT !.initial = Range(pool)]
<1> DEFINE offset == req[u].key.cursor
           page == SubSeq(pool, offset + 1, Min({offset + Limit, Len(pool)}))
           more == offset + Limit < Len(pool)
           new == [req[u] EXCEPT !.pc = "personalize", !.found = page, !.more = more]
           start == [NewScroll EXCEPT !.initial = Range(pool)]
<1>1. /\ req \in [Users -> Requests] /\ scroll \in [Users -> Scrolls]
      /\ parsed \in Seq(Articles) /\ IsInjective(parsed) /\ version \in Vers
      /\ pool = SearchOrder(version, parsed)
  BY DEF GatewayTypeOK, Vers
<1>2. pool \in Seq(Articles) /\ Range(pool) \in SUBSET Articles
  <2>1. pool \in Seq(Articles)
    BY <1>1, PoolLists
  <2> QED BY <2>1 DEF Range
<1>3. /\ req' = [req EXCEPT ![u] = new]
      /\ scroll' = IF offset # 0 THEN scroll ELSE [scroll EXCEPT ![u] = start]
  BY DEF Search
<1>4. offset \in Nat
  BY <1>1 DEF Requests, Keys
<1>5. page \in Seq(Articles)
  BY <1>2, <1>4, PageOfPool
<1>6. more \in BOOLEAN
  OBVIOUS
<1>7. start \in Scrolls
  BY <1>2 DEF NewScroll, Scrolls
<1>8. new \in Requests
  <2>1. req[u] \in Requests
    BY <1>1
  <2> HIDE DEF page, more
  <2> QED BY <1>5, <1>6, <2>1 DEF Requests, Places
<1> HIDE DEF new, start
<1>9. /\ req' \in [Users -> Requests] /\ scroll' \in [Users -> Scrolls] /\ OnlyOf(u)
      /\ req'[u] = new /\ scroll'[u] = IF offset # 0 THEN scroll[u] ELSE start
  BY <1>1, <1>3, <1>7, <1>8 DEF OnlyOf
<1> QED BY <1>9 DEF new, start

(* Scores and dates order the rows of feed_items. *)
LEMMA ScoresOrder ==
  ASSUME NEW rows \in SUBSET Articles
  PROVE  IsFiniteSet(rows) /\ Orders(HigherScore, rows)
<1>1. IsFiniteSet(rows)
  <2>1. IsFiniteSet(Articles)
    BY GatewayAssumption
  <2> QED BY <2>1, FS_Subset
<1>2. /\ ScoreOf \in [Articles -> Nat]
      /\ DateOf \in [Articles -> Nat] /\ IsInjective(DateOf)
  BY GatewayAssumption
<1>3. /\ \A r \in rows : r \in Articles /\ ScoreOf[r] \in Nat /\ DateOf[r] \in Nat
      /\ \A r, s \in rows : DateOf[r] = DateOf[s] => r = s
  BY <1>2 DEF IsInjective
<1>4. \A r, s \in rows : s \in HigherScore[r] <=>
         \/ ScoreOf[s] > ScoreOf[r]
         \/ ScoreOf[s] = ScoreOf[r] /\ DateOf[s] > DateOf[r]
  BY <1>3 DEF HigherScore
<1>5. \A r \in rows : r \notin HigherScore[r]
  BY <1>3, <1>4
<1>6. \A r, s, t \in rows : s \in HigherScore[r] /\ t \in HigherScore[s] => t \in HigherScore[r]
  BY <1>3, <1>4
<1>7. \A r, s \in rows : r = s \/ r \in HigherScore[s] \/ s \in HigherScore[r]
  BY <1>3, <1>4
<1> QED BY <1>1, <1>5, <1>6, <1>7 DEF Orders

(* What feed-service lists are articles, from either store. *)
LEMMA HomeListsArticles ==
  /\ ListFeedItems(Scored) \in Seq(Articles)
  /\ ListInMemory(Scored) \in Seq(Articles)
  /\ << >> \in Seq(Articles)
<1> DEFINE n == Cardinality(Scored)
<1>1. Scored \in SUBSET Articles
  BY GatewayAssumption
<1>2. IsFiniteSet(Scored) /\ Orders(HigherScore, Scored)
  BY <1>1, ScoresOrder
<1>3. n \in Nat /\ ListFeedItems(Scored) \in [1..n -> Scored]
  BY <1>2, NumberedLists DEF ListFeedItems
<1>4. ListInMemory(Scored) \in [1..n -> Scored]
  <2>1. << >> \in Seq(Articles)
    OBVIOUS
  <2> QED BY <1>2, <2>1, InterleavedLists DEF ListInMemory
<1>5. /\ ListFeedItems(Scored) \in [1..n -> Articles]
      /\ ListInMemory(Scored) \in [1..n -> Articles]
  BY <1>1, <1>3, <1>4
<1> QED BY <1>3, <1>5, ListOfLength

(* ListHome: a page of the home feed. *)
LEMMA ListHomeDoes ==
  ASSUME GatewayTypeOK, NEW u \in Users, ListHome(u)
  PROVE  /\ req' \in [Users -> Requests] /\ OnlyOf(u) /\ scroll' = scroll
         /\ req'[u] = [req[u] EXCEPT !.pc = "personalize", !.found = req'[u].found]
         /\ Len(req'[u].found) <= Limit
<1>1. PICK all \in {ListFeedItems(Scored), ListInMemory(Scored), << >>} :
         req' = [req EXCEPT ![u].pc = "personalize",
                            ![u].found = SubSeq(all, 1, Min({Limit, Len(all)}))]
  BY DEF ListHome
<1>2. req \in [Users -> Requests] /\ scroll' = scroll
  BY DEF GatewayTypeOK, ListHome
<1> DEFINE end == Min({Limit, Len(all)})
           page == SubSeq(all, 1, end)
           new == [req[u] EXCEPT !.pc = "personalize", !.found = page]
<1>3. all \in Seq(Articles)
  BY HomeListsArticles
<1>4. page \in Seq(Articles) /\ Len(page) <= Limit
  <2>1. Limit \in Nat /\ Len(all) \in Nat
    BY <1>3, GatewayAssumption
  <2>2. end \in Nat /\ end <= Len(all) /\ end <= Limit
    BY <2>1, MinOfTwo
  <2> HIDE DEF end
  <2>3. \A i \in 1..end : all[i] \in Articles
    BY <1>3, <2>1, <2>2
  <2>4. page \in Seq(Articles) /\ Len(page) = IF 1 <= end THEN end - 1 + 1 ELSE 0
    BY <2>2, <2>3, SubSeqProperties
  <2> QED BY <2>1, <2>2, <2>4
<1> HIDE DEF page
<1>5. new \in Requests /\ new.found = page
  <2>1. req[u] \in Requests
    BY <1>2
  <2> QED BY <1>4, <2>1 DEF Requests, Places
<1>6. req' = [req EXCEPT ![u] = new]
  BY <1>1 DEF page
<1>7. req' \in [Users -> Requests] /\ req'[u] = new /\ OnlyOf(u)
  <2> HIDE DEF new
  <2> QED BY <1>2, <1>5, <1>6 DEF OnlyOf
<1> QED BY <1>2, <1>4, <1>5, <1>7

(* Respond: the response has the items, and a cursor behind them if the page was full. *)
LEMMA RespondDoes ==
  ASSUME GatewayTypeOK, NEW u \in Users, NEW items \in Seq(Items), NEW origin \in {"made", "open"},
         Respond(u, items, origin), scroll' = scroll
  PROVE  LET next == IF req[u].key.home THEN 0 ELSE NextFeedCursor(req[u].key.cursor, Len(items))
         IN  /\ req' \in [Users -> Requests] /\ OnlyOf(u) /\ next \in Nat
             /\ req'[u].key = req[u].key /\ req'[u].more = req[u].more
             /\ req'[u].hidden = req[u].hidden /\ req'[u].origin = origin
             /\ req'[u].payload.items = items /\ req'[u].payload.next = next
             /\ req'[u].pc \in {"refill", "store"}
<1> DEFINE next == IF req[u].key.home THEN 0 ELSE NextFeedCursor(req[u].key.cursor, Len(items))
           place == IF req[u].key.home THEN "store"
                    ELSE IF req[u].key.refill /\ Len(items) < MinItems THEN "refill" ELSE "store"
           payload == [items |-> items, next |-> next]
           new == [req[u] EXCEPT !.payload = payload, !.origin = origin, !.found = << >>, !.pc = place]
<1>1. req \in [Users -> Requests] /\ req[u] \in Requests
  BY DEF GatewayTypeOK
<1>2. req' = [req EXCEPT ![u] = new]
  BY DEF Respond
<1>3. next \in Nat
  <2>1. req[u].key.cursor \in Nat
    BY <1>1 DEF Requests, Keys
  <2>2. Len(items) \in Nat
    OBVIOUS
  <2> QED BY <2>1, <2>2 DEF NextFeedCursor
<1>4. place \in {"refill", "store"}
  OBVIOUS
<1> HIDE DEF next, place
<1>5. payload \in Payloads
  BY <1>3 DEF Payloads
<1>6. << >> \in Seq(Articles)
  OBVIOUS
<1>7. /\ new \in Requests /\ new.pc = place /\ new.key = req[u].key /\ new.more = req[u].more
      /\ new.hidden = req[u].hidden /\ new.origin = origin /\ new.payload = payload
  <2> HIDE DEF payload
  <2> QED BY <1>1, <1>4, <1>5, <1>6 DEF Requests, Places
<1>8. req' \in [Users -> Requests] /\ req'[u] = new /\ OnlyOf(u)
  <2> HIDE DEF new
  <2> QED BY <1>1, <1>2, <1>7 DEF OnlyOf
<1>9. payload.items = items /\ payload.next = next
  OBVIOUS
<1> HIDE DEF new, payload
<1> QED BY <1>3, <1>4, <1>7, <1>8, <1>9 DEF next

(* Finish: the response is shown to its user. *)
LEMMA FinishDoes ==
  ASSUME GatewayTypeOK, NEW u \in Users, Finish(u)
  PROVE  /\ req' \in [Users -> Requests] /\ scroll' \in [Users -> Scrolls] /\ OnlyOf(u)
         /\ req'[u] = [req[u] EXCEPT !.pc = "done", !.key = FirstPage]
         /\ scroll'[u].shown = Seen(u) \union Served(u)
         /\ scroll'[u].next = req[u].payload.next
         /\ scroll'[u].fresh => /\ req[u].origin = "made" /\ ~req[u].key.home
                                /\ req[u].payload.next > 0
                                /\ req[u].key.cursor = 0 \/ scroll[u].fresh
                                /\ scroll'[u].initial = scroll[u].initial
<1> DEFINE made == req[u].origin = "made" /\ ~req[u].key.home
           new == [req[u] EXCEPT !.pc = "done", !.key = FirstPage]
<1>1. req \in [Users -> Requests] /\ req[u] \in Requests /\ req[u].payload \in Payloads
  BY DEF GatewayTypeOK, Requests
<1>2. req' = [req EXCEPT ![u] = new] /\ Shown(u, req[u].payload, made)
  BY DEF Finish
<1>3. made \in BOOLEAN
  OBVIOUS
<1>4. new \in Requests
  <2>1. FirstPage \in Keys
    BY DEF FirstPage, Keys
  <2> QED BY <1>1, <2>1 DEF Requests, Places
<1> HIDE DEF made
<1>5. /\ scroll' \in [Users -> Scrolls]
      /\ \A v \in Users \ {u} : scroll'[v] = scroll[v]
      /\ scroll'[u].shown = Seen(u) \union Served(u)
      /\ scroll'[u].next = req[u].payload.next
      /\ scroll'[u].fresh => /\ made /\ req[u].payload.next > 0
                             /\ req[u].key.cursor = 0 \/ scroll[u].fresh
                             /\ scroll'[u].initial = scroll[u].initial
  BY <1>1, <1>2, <1>3, ShownDoes DEF Served
<1>6. req' \in [Users -> Requests] /\ req'[u] = new /\ \A v \in Users \ {u} : req'[v] = req[v]
  <2> HIDE DEF new
  <2> QED BY <1>1, <1>2, <1>4
<1> QED BY <1>5, <1>6 DEF OnlyOf, made

(* StoreArticle: the row is the last one that was parsed, and says what the event says. *)
LEMMA StoreDoes ==
  ASSUME GatewayTypeOK, NEW a \in Articles, NEW v \in Versions[a], StoreArticle(a, v)
  PROVE  /\ parsed' \in Seq(Articles) /\ IsInjective(parsed')
         /\ v \in [rank : Nat, date : Nat] /\ version' \in Vers
         /\ version' = [version EXCEPT ![a] = v]
         /\ pool' = SearchOrder(version', parsed')
         /\ scroll' \in [Users -> Scrolls]
         /\ \A u \in Users : scroll'[u] = [scroll[u] EXCEPT !.initial = @ \ MayMoveAhead(a, v)]
         /\ UNCHANGED <<now, reactions, cache, req>>
         /\ parsed' = Append(Keep(parsed, Articles \ {a}), a)
<1> DEFINE kept == Keep(parsed, Articles \ {a})
           rows == Append(kept, a)
<1>1. parsed \in Seq(Articles) /\ IsInjective(parsed) /\ scroll \in [Users -> Scrolls]
  BY DEF GatewayTypeOK
<1>2. /\ parsed' = rows /\ pool' = SearchOrder(version', parsed')
      /\ scroll' = [u \in Users |-> [scroll[u] EXCEPT !.initial = @ \ MayMoveAhead(a, v)]]
      /\ version' = [version EXCEPT ![a] = v] /\ version \in Vers
      /\ UNCHANGED <<now, reactions, cache, req>>
  BY DEF StoreArticle, GatewayTypeOK, Vers
<1>v. v \in [rank : Nat, date : Nat] /\ version' \in Vers
  <2>1. v \in [rank : Nat, date : Nat]
    BY GatewayAssumption
  <2> QED BY <1>2, <2>1 DEF Vers
<1>3. kept \in Seq(Articles \intersect (Articles \ {a})) /\ IsInjective(kept)
  BY <1>1, KeepFilters, KeepInjective
<1> HIDE DEF kept
<1>4. /\ rows \in Seq(Articles) /\ DOMAIN kept = 1..Len(kept) /\ Len(kept) \in Nat
      /\ DOMAIN rows = 1..(Len(kept) + 1) /\ rows[Len(kept) + 1] = a
      /\ \A i \in 1..Len(kept) : rows[i] = kept[i] /\ kept[i] # a
  BY <1>3
<1> HIDE DEF rows
<1>5. ASSUME NEW i \in DOMAIN rows, NEW j \in DOMAIN rows, rows[i] = rows[j] PROVE i = j
  <2>1. i \in 1..Len(kept) \/ i = Len(kept) + 1
    BY <1>4
  <2>2. j \in 1..Len(kept) \/ j = Len(kept) + 1
    BY <1>4
  <2>3. CASE i \in 1..Len(kept) /\ j \in 1..Len(kept)
    <3>1. i \in DOMAIN kept /\ j \in DOMAIN kept /\ kept[i] = kept[j]
      BY <1>4, <1>5, <2>3
    <3> QED BY <1>3, <3>1 DEF IsInjective
  <2> QED BY <1>4, <1>5, <2>1, <2>2, <2>3
<1>6. IsInjective(rows)
  BY <1>5 DEF IsInjective
<1>7. \A u \in Users : [scroll[u] EXCEPT !.initial = @ \ MayMoveAhead(a, v)] \in Scrolls
  BY <1>1 DEF Scrolls
<1>8. /\ scroll' \in [Users -> Scrolls]
      /\ \A u \in Users : scroll'[u] = [scroll[u] EXCEPT !.initial = @ \ MayMoveAhead(a, v)]
  BY <1>2, <1>7
<1> QED BY <1>2, <1>v, <1>4, <1>6, <1>8 DEF rows, kept

-----------------------------------------------------------------------------
(* What a step on u's request leaves alone, and what it types. *)
LEMMA ServeDoes ==
  ASSUME GatewayTypeOK, NEW u \in Users, Serve(u)
  PROVE  /\ req' \in [Users -> Requests] /\ scroll' \in [Users -> Scrolls] /\ OnlyOf(u)
         /\ UNCHANGED <<now, parsed, version, pool, reactions>>
<1> DEFINE Typed == req' \in [Users -> Requests] /\ scroll' \in [Users -> Scrolls] /\ OnlyOf(u)
<1>0. scroll \in [Users -> Scrolls] /\ req \in [Users -> Requests]
  BY DEF GatewayTypeOK
<1>1. ASSUME CacheGet(u) PROVE Typed
  BY <1>1, CacheGetDoes
<1>2. ASSUME CacheEvict(u) PROVE Typed
  BY <1>0, <1>2, GoDoes DEF CacheEvict, Places
<1>3. ASSUME Search(u) PROVE Typed
  BY <1>3, SearchDoes
<1>4. ASSUME SearchFails(u) PROVE Typed
  <2> DEFINE new == [NewRequest(FirstPage) EXCEPT !.pc = "done"]
  <2>1. FirstPage \in Keys
    BY DEF FirstPage, Keys
  <2>2. NewRequest(FirstPage) \in Requests
    BY <2>1, NewRequestTyped
  <2>3. new \in Requests
    BY <2>2 DEF Requests, Places
  <2>4. req' = [req EXCEPT ![u] = new] /\ scroll' = scroll
    BY <1>4 DEF SearchFails
  <2> HIDE DEF new
  <2> QED BY <1>0, <2>3, <2>4 DEF OnlyOf
<1>5. ASSUME ListHome(u) PROVE Typed
  BY <1>0, <1>5, ListHomeDoes
<1>6. ASSUME NEW known, Respond(u, ApplyUserReactions(req[u].found, known), "made"), scroll' = scroll
      PROVE  Typed
  <2>1. req[u].found \in Seq(Articles)
    BY <1>0 DEF Requests
  <2>2. ApplyUserReactions(req[u].found, known) \in Seq(Items)
    BY <2>1, ApplyShows
  <2> QED BY <1>0, <1>6, <2>2, RespondDoes
<1>7. ASSUME NEW known, Respond(u, ApplyUserReactions(req[u].found, known), "open"), scroll' = scroll
      PROVE  Typed
  <2>1. req[u].found \in Seq(Articles)
    BY <1>0 DEF Requests
  <2>2. ApplyUserReactions(req[u].found, known) \in Seq(Items)
    BY <2>1, ApplyShows
  <2> QED BY <1>0, <1>7, <2>2, RespondDoes
<1>8. ASSUME Finish(u) PROVE Typed
  BY <1>8, FinishDoes
<1>9. ASSUME StartRefillFails(u) PROVE Typed
  BY <1>0, <1>9, GoDoes DEF StartRefillFails, Places
<1>10. Typed
  <2>1. CASE Personalize(u)
    BY <1>6, <2>1 DEF Personalize
  <2>2. CASE PersonalizeFails(u)
    BY <1>7, <2>2 DEF PersonalizeFails
  <2>3. CASE StartRefill(u)
    BY <1>8, <2>3 DEF StartRefill
  <2>4. CASE StoreResponse(u)
    BY <1>8, <2>4 DEF StoreResponse
  <2>5. CASE PersonalizePartly(u)
    BY <1>7, <2>5 DEF PersonalizePartly
  <2> HIDE DEF Typed
  <2> QED BY <1>1, <1>2, <1>3, <1>4, <1>5, <1>9, <2>1, <2>2, <2>3, <2>4, <2>5 DEF Serve
<1>11. UNCHANGED <<now, parsed, version, pool, reactions>>
  BY DEF Serve, CacheGet, CacheEvict, Search, SearchFails, ListHome, Personalize, PersonalizeFails,
         PersonalizePartly, StartRefill, StartRefillFails, StoreResponse
<1> QED BY <1>10, <1>11

(* The keys of the requests that are made. *)
LEMMA AskedKeys ==
  ASSUME GatewayTypeOK, NEW u \in Users, NEW refill \in BOOLEAN, NEW cursor \in {0, scroll[u].next}
  PROVE  [FirstPage EXCEPT !.cursor = cursor, !.refill = refill] \in Keys /\ Home \in Keys
<1>1. cursor \in Nat
  BY DEF GatewayTypeOK, Scrolls
<1> QED BY <1>1 DEF FirstPage, Home, Keys

(* The entries of the cache are typed. *)
LEMMA ServeCaches ==
  ASSUME GatewayTypeOK, NEW u \in Users, Serve(u)
  PROVE  cache' \subseteq [key : Keys, payload : Payloads, expiresAt : Int]
<1> DEFINE Cached == [key : Keys, payload : Payloads, expiresAt : Int]
<1>1. cache \subseteq Cached /\ req[u] \in Requests
  BY DEF GatewayTypeOK
<1>2. CASE StoreResponse(u)
  <2> DEFINE end == now + TTL
             entry == [key |-> req[u].key, payload |-> req[u].payload, expiresAt |-> end]
  <2>1. end \in Int
    BY GatewayAssumption DEF GatewayTypeOK
  <2>2. cache' \subseteq cache \union {entry}
    BY <1>2 DEF StoreResponse, Entries
  <2> HIDE DEF end
  <2>3. entry \in Cached
    BY <1>1, <2>1 DEF Requests
  <2> HIDE DEF entry, Cached
  <2> QED BY <1>1, <2>2, <2>3 DEF Cached
<1>3. CASE ~StoreResponse(u)
  <2>1. cache' \subseteq cache
    BY <1>3 DEF Serve, CacheGet, CacheEvict, Search, SearchFails, ListHome, Personalize,
                PersonalizeFails, PersonalizePartly, StartRefill, StartRefillFails
  <2> QED BY <1>1, <2>1
<1> QED BY <1>2, <1>3

(* The types of the state, and that the pool is the search order of the table, are kept. *)
LEMMA GatewayTypeStep ==
  ASSUME GatewayTypeOK, [GatewayNext]_feedVars
  PROVE  GatewayTypeOK'
<1>1. ASSUME Tick PROVE GatewayTypeOK'
  BY <1>1 DEF Tick, GatewayTypeOK
<1>2. ASSUME NEW a \in Articles, NEW v \in Versions[a], StoreArticle(a, v) PROVE GatewayTypeOK'
  BY <1>2, StoreDoes DEF GatewayTypeOK, Vers
<1>3. ASSUME NEW u \in Users, NEW a \in Articles, NEW type \in Types, RecordReaction(u, a, type)
      PROVE  GatewayTypeOK'
  <2>1. reactions \in [Users -> SUBSET (Articles \X Types)]
    BY DEF GatewayTypeOK
  <2>2. reactions' = [reactions EXCEPT ![u] = @ \union {<<a, type>>}]
    BY <1>3 DEF RecordReaction
  <2>3. reactions' \in [Users -> SUBSET (Articles \X Types)]
    BY <2>1, <2>2
  <2> QED BY <1>3, <2>3 DEF RecordReaction, GatewayTypeOK
<1>4. ASSUME NEW u \in Users, NEW key \in Keys, Ask(u, key) PROVE GatewayTypeOK'
  <2>1. req' \in [Users -> Requests]
    BY <1>4, AskDoes
  <2> QED BY <1>4, <2>1 DEF Ask, GatewayTypeOK
<1>5. ASSUME NEW u \in Users, Serve(u) PROVE GatewayTypeOK'
  BY <1>5, ServeDoes, ServeCaches DEF GatewayTypeOK
<1>6. ASSUME UNCHANGED feedVars PROVE GatewayTypeOK'
  BY <1>6 DEF feedVars, GatewayTypeOK
<1>7. ASSUME NEW u \in Users, NEW refill \in BOOLEAN, NEW cursor \in {0, scroll[u].next},
             Ask(u, [FirstPage EXCEPT !.cursor = cursor, !.refill = refill])
      PROVE  GatewayTypeOK'
  BY <1>4, <1>7, AskedKeys
<1>8. ASSUME NEW u \in Users, Ask(u, Home) PROVE GatewayTypeOK'
  <2>1. Home \in Keys
    BY DEF FirstPage, Home, Keys
  <2> QED BY <1>4, <1>8, <2>1
<1> QED BY <1>1, <1>2, <1>3, <1>5, <1>6, <1>7, <1>8 DEF GatewayNext

(* At the beginning as well. *)
LEMMA GatewayTypeInit ==
  ASSUME GatewayInit
  PROVE  GatewayTypeOK
<1>1. NewRequest(FirstPage) \in Requests
  <2>1. FirstPage \in Keys
    BY DEF FirstPage, Keys
  <2> QED BY <2>1, NewRequestTyped
<1>2. NewScroll \in Scrolls
  BY DEF NewScroll, Scrolls
<1>3. /\ StoredFirst \in Seq(Articles) /\ IsInjective(StoredFirst)
      /\ FirstVersion \in [Articles -> [rank : Nat, date : Nat]]
  BY GatewayAssumption
<1> QED BY <1>1, <1>2, <1>3 DEF GatewayInit, GatewayTypeOK

-----------------------------------------------------------------------------
(* A response that was found to be full has a cursor, or something on the page was hidden; it
   shows what was found and is not hidden. *)
LEMMA RespondShows ==
  ASSUME GatewayTypeOK, NEW u \in Users, NEW known, NEW origin \in {"made", "open"},
         Respond(u, ApplyUserReactions(req[u].found, known), origin), scroll' = scroll
  PROVE  /\ req' \in [Users -> Requests] /\ OnlyOf(u)
         /\ req'[u].key = req[u].key /\ req'[u].more = req[u].more
         /\ req'[u].hidden = req[u].hidden /\ req'[u].origin = origin
         /\ req'[u].pc \in {"refill", "store"}
         /\ Served(u)' \intersect HiddenBy(known) = {}
         /\ Range(req[u].found) \subseteq HiddenBy(known) \union Served(u)'
         /\ ~req[u].key.home /\ Len(req[u].found) = Limit =>
               req'[u].payload.next > 0 \/ HiddenBy(known) # {}
         /\ Len(req[u].found) <= Limit /\ req'[u].payload.next > 0 =>
               req'[u].payload.next = req[u].key.cursor + Limit
<1> DEFINE found == req[u].found
           items == ApplyUserReactions(found, known)
           next == IF req[u].key.home THEN 0 ELSE NextFeedCursor(req[u].key.cursor, Len(items))
<1>1. /\ found \in Seq(Articles) /\ req[u].key.cursor \in Nat /\ req[u] \in Requests
      /\ Limit \in Nat \ {0}
  BY GatewayAssumption DEF GatewayTypeOK, Requests, Keys
<1> HIDE DEF found
<1>2. /\ items \in Seq(Items) /\ Len(items) \in Nat /\ Len(items) <= Len(found)
      /\ \A i \in DOMAIN items : /\ items[i].article \in Range(found)
                                 /\ items[i].article \notin HiddenBy(known)
      /\ \A k \in DOMAIN found : found[k] \in HiddenBy(known)
                                 \/ \E i \in DOMAIN items : items[i].article = found[k]
      /\ Len(items) = Len(found) \/ HiddenBy(known) # {}
  BY <1>1, ApplyShows
<1>3. Respond(u, items, origin)
  BY DEF found
<1> HIDE DEF items
<1>4. /\ req' \in [Users -> Requests] /\ OnlyOf(u) /\ next \in Nat
      /\ req'[u].key = req[u].key /\ req'[u].more = req[u].more
      /\ req'[u].hidden = req[u].hidden /\ req'[u].origin = origin
      /\ req'[u].payload.items = items /\ req'[u].payload.next = next
      /\ req'[u].pc \in {"refill", "store"}
  BY <1>2, <1>3, RespondDoes
<1> HIDE DEF next
<1>5. req'[u].payload.items = items /\ req'[u].payload.next = next
  BY <1>4
<1>6. Served(u)' = {items[i].article : i \in DOMAIN items}
  BY <1>5 DEF Served
<1>7. Served(u)' \intersect HiddenBy(known) = {}
  BY <1>2, <1>6
<1>8. Range(found) \subseteq HiddenBy(known) \union Served(u)'
  BY <1>2, <1>6 DEF Range
<1>9. ~req[u].key.home /\ Len(found) = Limit => next > 0 \/ HiddenBy(known) # {}
  <2> SUFFICES ASSUME ~req[u].key.home, Len(found) = Limit, HiddenBy(known) = {} PROVE next > 0
    OBVIOUS
  <2>1. Len(items) = Limit
    BY <1>2
  <2> QED BY <1>1, <2>1 DEF next, NextFeedCursor
<1>10. Len(found) <= Limit /\ next > 0 => next = req[u].key.cursor + Limit
  <2> SUFFICES ASSUME Len(found) <= Limit, next > 0 PROVE next = req[u].key.cursor + Limit
    OBVIOUS
  <2>1. ~req[u].key.home /\ ~(Len(items) < Limit) /\ next = req[u].key.cursor + Len(items)
    BY DEF next, NextFeedCursor
  <2>2. Len(found) \in Nat
    BY <1>1
  <2>3. Len(items) = Limit
    BY <1>1, <1>2, <2>1, <2>2
  <2> QED BY <2>1, <2>3
<1> QED BY <1>4, <1>5, <1>7, <1>8, <1>9, <1>10 DEF found

(* SearchFails: an error response. *)
LEMMA SearchFailsDoes ==
  ASSUME GatewayTypeOK, NEW u \in Users, SearchFails(u)
  PROVE  /\ req'[u].pc = "done" /\ req'[u].origin = "" /\ req'[u].hidden = {}
         /\ ~req'[u].more /\ scroll' = scroll
<1>1. /\ req' = [req EXCEPT ![u] = [NewRequest(FirstPage) EXCEPT !.pc = "done"]]
      /\ req \in [Users -> Requests] /\ scroll' = scroll
  BY DEF SearchFails, GatewayTypeOK
<1>2. req'[u] = [NewRequest(FirstPage) EXCEPT !.pc = "done"]
  BY <1>1
<1> QED BY <1>1, <1>2 DEF NewRequest

-----------------------------------------------------------------------------
(* What u's request knows as hidden is hidden, and a response made for u shows none of it. *)
PersonalOf(u) ==
    /\ req[u].hidden \subseteq HiddenFrom(u)
    /\ req[u].origin = "made" => Served(u) \intersect req[u].hidden = {}

(* There is more behind a page only if it is a full page of a query, and then the response has a
   cursor or something was hidden. *)
MoreOf(u) ==
    /\ req[u].pc \in {"lookup", "evict", "search"} => ~req[u].key.home
    /\ req[u].pc \in {"lookup", "evict", "search", "list"} => ~req[u].more
    /\ req[u].pc \in {"lookup", "evict", "search", "list", "personalize"} => req[u].origin = ""
    /\ req[u].pc = "personalize" /\ req[u].more => ~req[u].key.home /\ Len(req[u].found) = Limit
    /\ req[u].origin \in {"made", "open"} /\ req[u].more =>
          req[u].payload.next > 0 \/ HiddenFrom(u) # {}

PageInv == GatewayTypeOK /\ \A u \in Users : PersonalOf(u) /\ MoreOf(u)

(* A user's requests are not touched by what others do, and what is hidden stays hidden. *)
LEMMA PageKept ==
  ASSUME NEW v \in Users, PersonalOf(v), MoreOf(v), req'[v] = req[v],
         HiddenFrom(v) \subseteq HiddenFrom(v)'
  PROVE  PersonalOf(v)' /\ MoreOf(v)'
<1>1. Served(v)' = Served(v)
  BY DEF Served
<1>2. PersonalOf(v)'
  BY <1>1 DEF PersonalOf
<1>3. MoreOf(v)'
  BY DEF MoreOf
<1> QED BY <1>2, <1>3

(* Whatever is hidden depends on the reactions alone. *)
LEMMA HiddenIsHiddenBy ==
  ASSUME NEW v \in Users
  PROVE  HiddenFrom(v) = HiddenBy(reactions[v]) /\ (reactions' = reactions => HiddenFrom(v)' = HiddenFrom(v))
BY DEF HiddenFrom, HiddenBy

(* A request begins with what is hidden at that time. *)
LEMMA AskKeepsPage ==
  ASSUME PageInv, NEW u \in Users, NEW key \in Keys, Ask(u, key)
  PROVE  \A v \in Users : PersonalOf(v)' /\ MoreOf(v)'
<1>0. reactions' = reactions /\ GatewayTypeOK
  BY DEF Ask, PageInv
<1>1. /\ OnlyOf(u)
      /\ req'[u] = [NewRequest(key) EXCEPT !.pc = req'[u].pc, !.hidden = HiddenFrom(u)]
      /\ req'[u].pc = "list" <=> key.home
      /\ req'[u].pc \in {"list", "lookup", "search"}
  BY <1>0, AskDoes
<1>2. req'[u].hidden = HiddenFrom(u) /\ req'[u].origin = "" /\ req'[u].more = FALSE /\ req'[u].key = key
  BY <1>1 DEF NewRequest
<1>3. HiddenFrom(u)' = HiddenFrom(u)
  BY <1>0, HiddenIsHiddenBy
<1>4. PersonalOf(u)' /\ MoreOf(u)'
  BY <1>1, <1>2, <1>3 DEF PersonalOf, MoreOf
<1>5. ASSUME NEW v \in Users, v # u PROVE PersonalOf(v)' /\ MoreOf(v)'
  BY <1>0, <1>1, <1>5, HiddenIsHiddenBy, PageKept DEF OnlyOf, PageInv
<1> QED BY <1>4, <1>5

(* A step of the request itself. *)
LEMMA ServeKeepsPage ==
  ASSUME PageInv, NEW u \in Users, Serve(u)
  PROVE  \A v \in Users : PersonalOf(v)' /\ MoreOf(v)'
<1>0. GatewayTypeOK /\ PersonalOf(u) /\ MoreOf(u)
  BY DEF PageInv
<1>1. OnlyOf(u) /\ UNCHANGED <<now, parsed, version, pool, reactions>>
  BY <1>0, ServeDoes
<1>2. HiddenFrom(u)' = HiddenFrom(u) /\ HiddenFrom(u) = HiddenBy(reactions[u])
  BY <1>1, HiddenIsHiddenBy
<1>3. ASSUME NEW v \in Users, v # u PROVE PersonalOf(v)' /\ MoreOf(v)'
  BY <1>1, <1>3, HiddenIsHiddenBy, PageKept DEF OnlyOf, PageInv
<1> DEFINE Kept == PersonalOf(u)' /\ MoreOf(u)'
<1>r. req[u] \in Requests
  BY <1>0 DEF GatewayTypeOK
<1>m. ASSUME NEW place \in {"evict", "search", "store"}, req'[u] = [req[u] EXCEPT !.pc = place],
             req[u].pc \in {"lookup", "evict"} \/ place = "store"
      PROVE  Kept
  <2>1. /\ req'[u].pc = place /\ req'[u].hidden = req[u].hidden /\ req'[u].origin = req[u].origin
        /\ req'[u].payload = req[u].payload /\ req'[u].more = req[u].more /\ req'[u].key = req[u].key
        /\ req'[u].found = req[u].found
    BY <1>m, <1>r DEF Requests
  <2>2. Served(u)' = Served(u)
    BY <2>1 DEF Served
  <2> QED BY <1>0, <1>2, <1>m, <2>1, <2>2 DEF PersonalOf, MoreOf
<1>4. ASSUME CacheGet(u) PROVE Kept
  <2>1. req[u].pc = "lookup"
    BY <1>4 DEF CacheGet
  <2>2. CASE req'[u].pc = "done" /\ req'[u].origin = "cached" /\ req'[u].hidden = req[u].hidden
    BY <1>0, <1>2, <2>2 DEF PersonalOf, MoreOf
  <2>3. CASE \E place \in {"evict", "search"} : req'[u] = [req[u] EXCEPT !.pc = place]
    BY <1>m, <2>1, <2>3
  <2> QED BY <1>0, <1>4, <2>2, <2>3, CacheGetDoes
<1>5. ASSUME CacheEvict(u) PROVE Kept
  <2>1. req[u].pc = "evict" /\ Go(u, "search") /\ scroll' = scroll
    BY <1>5 DEF CacheEvict
  <2>2. req'[u] = [req[u] EXCEPT !.pc = "search"]
    BY <1>0, <2>1, GoDoes DEF Places
  <2> QED BY <1>m, <2>1, <2>2
<1>6. ASSUME Search(u) PROVE Kept
  <2> DEFINE page == SubSeq(pool, req[u].key.cursor + 1, Min({req[u].key.cursor + Limit, Len(pool)}))
             more == req[u].key.cursor + Limit < Len(pool)
  <2>1. /\ req[u].pc = "search" /\ pool \in Seq(Articles) /\ req[u].key.cursor \in Nat
        /\ Limit \in Nat /\ Len(pool) \in Nat
    <3>1. pool \in Seq(Articles)
      BY <1>0, PoolTyped
    <3>2. req[u].pc = "search"
      BY <1>6 DEF Search
    <3>3. req[u].key.cursor \in Nat
      BY <1>r DEF Requests, Keys
    <3>4. Limit \in Nat
      BY GatewayAssumption
    <3>5. Len(pool) \in Nat
      BY <3>1
    <3> QED BY <3>1, <3>2, <3>3, <3>4, <3>5
  <2>2. req'[u] = [req[u] EXCEPT !.pc = "personalize", !.found = page, !.more = more]
    BY <1>0, <1>6, SearchDoes
  <2>3. more => Len(page) = Limit
    <3>1. Len(page) = Limit <=> req[u].key.cursor + Limit <= Len(pool)
      BY <2>1, PageOfPool
    <3> HIDE DEF page
    <3>2. more => req[u].key.cursor + Limit <= Len(pool)
      BY <2>1
    <3> QED BY <3>1, <3>2
  <2>4. more \in BOOLEAN
    OBVIOUS
  <2> HIDE DEF page, more
  <2>5. /\ req'[u].pc = "personalize" /\ req'[u].found = page /\ req'[u].more = more
        /\ req'[u].hidden = req[u].hidden /\ req'[u].origin = req[u].origin
        /\ req'[u].key = req[u].key
    BY <1>r, <2>2 DEF Requests
  <2> QED BY <1>0, <1>2, <2>1, <2>3, <2>4, <2>5 DEF PersonalOf, MoreOf
<1>7. ASSUME SearchFails(u) PROVE Kept
  <2>1. req'[u].pc = "done" /\ req'[u].origin = "" /\ req'[u].hidden = {}
    BY <1>0, <1>7, SearchFailsDoes
  <2> QED BY <2>1 DEF PersonalOf, MoreOf
<1>8. ASSUME ListHome(u) PROVE Kept
  <2>1. req[u].pc = "list" /\ req'[u] = [req[u] EXCEPT !.pc = "personalize", !.found = req'[u].found]
    BY <1>0, <1>8, ListHomeDoes DEF ListHome
  <2>2. /\ req'[u].pc = "personalize" /\ req'[u].more = req[u].more
        /\ req'[u].hidden = req[u].hidden /\ req'[u].origin = req[u].origin
    BY <1>r, <2>1 DEF Requests
  <2> QED BY <1>0, <1>2, <2>1, <2>2 DEF PersonalOf, MoreOf
<1>9. ASSUME Personalize(u) PROVE Kept
  <2>1. /\ req[u].pc = "personalize" /\ scroll' = scroll
        /\ Respond(u, ApplyUserReactions(req[u].found, reactions[u]), "made")
    BY <1>9 DEF Personalize
  <2>2. /\ req'[u].key = req[u].key /\ req'[u].more = req[u].more
        /\ req'[u].hidden = req[u].hidden /\ req'[u].origin = "made"
        /\ req'[u].pc \in {"refill", "store"}
        /\ Served(u)' \intersect HiddenBy(reactions[u]) = {}
        /\ ~req[u].key.home /\ Len(req[u].found) = Limit =>
              req'[u].payload.next > 0 \/ HiddenBy(reactions[u]) # {}
    BY <1>0, <2>1, RespondShows
  <2>3. PersonalOf(u)'
    BY <1>0, <1>2, <2>2 DEF PersonalOf
  <2>4. MoreOf(u)'
    BY <1>0, <1>2, <2>1, <2>2 DEF MoreOf
  <2> QED BY <2>3, <2>4
<1>10. ASSUME NEW known \in SUBSET reactions[u], req[u].pc = "personalize", scroll' = scroll,
              Respond(u, ApplyUserReactions(req[u].found, known), "open")
       PROVE  Kept
  <2>1. req[u].pc = "personalize"
    BY <1>10
  <2>2. /\ req'[u].key = req[u].key /\ req'[u].more = req[u].more
        /\ req'[u].hidden = req[u].hidden /\ req'[u].origin = "open"
        /\ req'[u].pc \in {"refill", "store"}
        /\ ~req[u].key.home /\ Len(req[u].found) = Limit =>
              req'[u].payload.next > 0 \/ HiddenBy(known) # {}
    BY <1>0, <1>10, RespondShows
  <2>3. HiddenBy(known) \subseteq HiddenBy(reactions[u])
    BY DEF HiddenBy
  <2> QED BY <1>0, <1>2, <2>1, <2>2, <2>3 DEF PersonalOf, MoreOf
<1>11. ASSUME Finish(u) PROVE Kept
  <2>1. req'[u] = [req[u] EXCEPT !.pc = "done", !.key = FirstPage]
    BY <1>0, <1>11, FinishDoes
  <2>2. /\ req'[u].pc = "done" /\ req'[u].hidden = req[u].hidden /\ req'[u].origin = req[u].origin
        /\ req'[u].payload = req[u].payload /\ req'[u].more = req[u].more
    BY <1>r, <2>1 DEF Requests
  <2>3. Served(u)' = Served(u)
    BY <2>2 DEF Served
  <2> QED BY <1>0, <1>2, <2>2, <2>3 DEF PersonalOf, MoreOf
<1>12. ASSUME StartRefillFails(u) PROVE Kept
  <2>1. req[u].pc = "refill" /\ Go(u, "store") /\ scroll' = scroll
    BY <1>12 DEF StartRefillFails
  <2>2. req'[u] = [req[u] EXCEPT !.pc = "store"]
    BY <1>0, <2>1, GoDoes DEF Places
  <2> QED BY <1>m, <2>2
<1>13. Kept
  <2>1. CASE StartRefill(u) \/ StoreResponse(u)
    BY <1>11, <2>1 DEF StartRefill, StoreResponse
  <2>2. CASE PersonalizeFails(u)
    <3>1. {} \in SUBSET reactions[u]
      OBVIOUS
    <3> HIDE DEF Kept
    <3> QED BY <1>10, <2>2, <3>1 DEF PersonalizeFails
  <2>3. CASE PersonalizePartly(u)
    <3> HIDE DEF Kept
    <3> QED BY <1>10, <2>3 DEF PersonalizePartly
  <2> HIDE DEF Kept
  <2> QED BY <1>4, <1>5, <1>6, <1>7, <1>8, <1>9, <1>12, <2>1, <2>2, <2>3 DEF Serve
<1> QED BY <1>3, <1>13

(* The pages are what the requests made of them, in every state. *)
LEMMA GatewayPageInv == GatewaySpec => []PageInv
<1>1. GatewayInit => PageInv
  <2> SUFFICES ASSUME GatewayInit PROVE PageInv
    OBVIOUS
  <2>1. GatewayTypeOK
    BY GatewayTypeInit
  <2>2. ASSUME NEW u \in Users PROVE PersonalOf(u) /\ MoreOf(u)
    <3>1. req[u] = NewRequest(FirstPage)
      BY DEF GatewayInit
    <3>2. /\ NewRequest(FirstPage).pc = "idle" /\ NewRequest(FirstPage).hidden = {}
          /\ NewRequest(FirstPage).origin = ""
      BY DEF NewRequest
    <3> QED BY <3>1, <3>2 DEF PersonalOf, MoreOf
  <2> QED BY <2>1, <2>2 DEF PageInv
<1>2. PageInv /\ [GatewayNext]_feedVars => PageInv'
  <2> SUFFICES ASSUME PageInv, [GatewayNext]_feedVars PROVE PageInv'
    OBVIOUS
  <2>0. GatewayTypeOK /\ \A v \in Users : PersonalOf(v) /\ MoreOf(v)
    BY DEF PageInv
  <2>t. GatewayTypeOK'
    BY <2>0, GatewayTypeStep
  <2> DEFINE Kept == \A v \in Users : PersonalOf(v)' /\ MoreOf(v)'
  <2>1. ASSUME req' = req, reactions' = reactions PROVE Kept
    BY <2>0, <2>1, HiddenIsHiddenBy, PageKept
  <2>2. ASSUME NEW u \in Users, NEW a \in Articles, NEW type \in Types, RecordReaction(u, a, type)
        PROVE  Kept
    <3>1. req' = req /\ reactions' = [reactions EXCEPT ![u] = @ \union {<<a, type>>}]
      BY <2>2 DEF RecordReaction
    <3>2. \A v \in Users : reactions[v] \subseteq reactions'[v]
      BY <2>0, <3>1 DEF GatewayTypeOK
    <3>3. \A v \in Users : HiddenFrom(v) \subseteq HiddenFrom(v)'
      BY <3>2 DEF HiddenFrom
    <3> QED BY <2>0, <3>1, <3>3, PageKept
  <2>3. ASSUME NEW u \in Users, NEW key \in Keys, Ask(u, key) PROVE Kept
    BY <2>3, AskKeepsPage
  <2>4. ASSUME NEW u \in Users, NEW refill \in BOOLEAN, NEW cursor \in {0, scroll[u].next},
               Ask(u, [FirstPage EXCEPT !.cursor = cursor, !.refill = refill])
        PROVE  Kept
    BY <2>0, <2>3, <2>4, AskedKeys
  <2>5. ASSUME NEW u \in Users, Ask(u, Home) PROVE Kept
    <3>1. Home \in Keys
      BY DEF FirstPage, Home, Keys
    <3> QED BY <2>3, <2>5, <3>1
  <2>6. ASSUME NEW u \in Users, Serve(u) PROVE Kept
    BY <2>6, ServeKeepsPage
  <2>7. ASSUME Tick \/ (\E a \in Articles : \E v \in Versions[a] : StoreArticle(a, v))
                \/ UNCHANGED feedVars
        PROVE  Kept
    BY <2>1, <2>7 DEF Tick, StoreArticle, feedVars
  <2>8. Kept
    <3> HIDE DEF Kept
    <3> QED BY <2>2, <2>4, <2>5, <2>6, <2>7 DEF GatewayNext
  <2> QED BY <2>t, <2>8 DEF PageInv
<1> QED BY <1>1, <1>2, PTL DEF GatewaySpec

(* A response made for its user never shows what the user had hidden when asking, whatever else
   the user and the other requests do. *)
THEOREM MadeForItsUser == GatewaySpec => []FreshIsPersonal
<1>1. PageInv => FreshIsPersonal
  BY DEF PageInv, PersonalOf, FreshIsPersonal
<1> QED BY <1>1, GatewayPageInv, PTL

(* A scroll ends before the last page only for a user who has hidden something. *)
THEOREM OnlyHiddenEndsEarly == GatewaySpec => []EndsEarlyOnlyIfHidden
<1>1. PageInv => EndsEarlyOnlyIfHidden
  BY DEF PageInv, MoreOf, EndsEarlyOnlyIfHidden
<1> QED BY <1>1, GatewayPageInv, PTL

-----------------------------------------------------------------------------
(* The orders in which sources may be asked for are lists of sources. *)
LEMMA PermutationsAreLists ==
  ASSUME NEW S, IsFiniteSet(S), NEW order \in SetToAllKPermutations(S)
  PROVE  order \in Seq(S)
<1>1. PICK s \in SUBSET S : order \in SetToSeqs(s)
  BY DEF SetToAllKPermutations
<1>2. order \in [1..Cardinality(s) -> s]
  BY <1>1 DEF SetToSeqs
<1>3. Cardinality(s) \in Nat
  BY <1>1, FS_Subset, FS_CardinalityType
<1>4. order \in [1..Cardinality(s) -> S]
  BY <1>1, <1>2
<1> QED BY <1>3, <1>4, ListOfLength

(* Every order in which all rows may be listed is a list of them without repetitions. *)
LEMMA ListedRows ==
  ASSUME NEW S, IsFiniteSet(S), NEW listed \in SetToSeqs(S)
  PROVE  listed \in Seq(S) /\ IsInjective(listed) /\ Range(listed) = S
<1>1. Cardinality(S) \in Nat /\ listed \in [1..Cardinality(S) -> S] /\ IsInjective(listed)
  <2> DEFINE D == 1..Cardinality(S)
  <2>1. listed \in [D -> S] /\ \A i, j \in D : i # j => listed[i] # listed[j]
    BY DEF SetToSeqs
  <2>2. IsInjective(listed)
    <3> HIDE DEF D
    <3> QED BY <2>1 DEF IsInjective
  <2> QED BY <2>1, <2>2, FS_CardinalityType
<1>2. listed \in Seq(S)
  BY <1>1, ListOfLength
<1>3. Range(listed) = S
  <2> DEFINE n == Cardinality(S)
  <2>1. IsFiniteSet(1..n) /\ Cardinality(1..n) = n
    <3>1. 1 \in Int /\ n \in Int
      BY <1>1
    <3>2. IsFiniteSet(1..n) /\ Cardinality(1..n) = IF 1 > n THEN 0 ELSE n - 1 + 1
      BY <3>1, FS_Interval
    <3> QED BY <1>1, <3>2
  <2>2. listed \in Injection(1..n, S)
    BY <1>1 DEF Injection, IsInjective
  <2> HIDE DEF n
  <2>3. listed \in Surjection(1..n, S)
    BY <2>1, <2>2, FS_Injection DEF n
  <2> QED BY <2>3 DEF Surjection, Range
<1> QED BY <1>1, <1>2, <1>3

(* The sources of a table. *)
LEMMA SourcesFinite ==
  ASSUME NEW rows, IsFiniteSet(rows)
  PROVE  IsFiniteSet({SourceOf[a] : a \in rows})
<1> DEFINE S == {SourceOf[a] : a \in rows}
           f == [a \in rows |-> SourceOf[a]]
<1>1. f \in [rows -> S] /\ \A s \in S : \E a \in rows : f[a] = s
  OBVIOUS
<1> HIDE DEF f, S
<1>2. f \in Surjection(rows, S)
  BY <1>1 DEF Surjection
<1>3. IsFiniteSet(S)
  BY <1>2, FS_Surjection
<1> QED BY <1>3 DEF S

(* For every table, the search and the home feed take turns between the sources, in Postgres and
   in memory, with any order of the sources, wherever a page is cut and whatever requests are
   under way. *)
THEOREM EveryTableTakesTurns == GatewaySpec => []TableTakesTurns
<1>1. ASSUME GatewayTypeOK PROVE TableTakesTurns
  <2> DEFINE rows == Range(pool)
             sources == {SourceOf[a] : a \in rows}
             BestOf(better) == [s \in sources |-> InOrder(better, {a \in rows : SourceOf[a] = s})]
             ByTurns(list, buckets) ==
                 \A limit \in DOMAIN list : TakesTurns(SubSeq(list, 1, limit), buckets, limit)
             searched == Better(version, parsed)
  <2>1. /\ parsed \in Seq(Articles) /\ IsInjective(parsed) /\ version \in Vers
        /\ pool = SearchOrder(version, parsed)
    BY <1>1 DEF GatewayTypeOK, Vers
  <2>2. rows = Matching(version, parsed)
    BY <2>1, PoolLists
  <2>3. IsFiniteSet(rows) /\ rows \in SUBSET Articles /\ Orders(searched, rows)
    <3>1. IsFiniteSet(Matching(version, parsed)) /\ Matching(version, parsed) \in SUBSET Articles
      BY <2>1, MatchingRows
    <3>2. Orders(searched, Matching(version, parsed))
      BY <2>1, SearchOrders
    <3> HIDE DEF rows, searched
    <3> QED BY <2>2, <3>1, <3>2
  <2>4. pool = NumberedByKey(SourceOf, searched, rows)
    BY <2>1, <2>2 DEF SearchOrder
  <2>5. IsFiniteSet(sources)
    BY <2>3, SourcesFinite
  <2>6. ASSUME NEW better PROVE BestOf(better) = Best(SourceOf, better, rows)
    BY DEF Best, OfKey
  <2> HIDE DEF rows, searched
  <2>7. Orders(HigherScore, rows)
    BY <2>3, ScoresOrder
  <2>8. ByTurns(pool, BestOf(searched))
    <3>1. ByTurns(NumberedByKey(SourceOf, searched, rows), Best(SourceOf, searched, rows))
      BY <2>3, NumberedTakesTurns
    <3>2. BestOf(searched) = Best(SourceOf, searched, rows)
      BY <2>6
    <3> HIDE DEF BestOf
    <3> QED BY <2>4, <3>1, <3>2
  <2>9. ASSUME NEW order \in SetToAllKPermutations(sources), NEW listed \in SetToSeqs(Range(parsed)),
               order = << >> \/ Range(order) = sources
        PROVE  ByTurns(SearchInMemory(order, version, listed), BestOf(Newer(version, listed)))
    <3> DEFINE newer == Newer(version, listed)
    <3>1. order \in Seq(sources)
      <4> HIDE DEF sources
      <4> QED BY <2>5, <2>9, PermutationsAreLists
    <3>2. listed \in Seq(Articles) /\ IsInjective(listed) /\ Range(listed) = Range(parsed)
      <4>1. Range(parsed) \in SUBSET Articles
        BY <2>1 DEF Range
      <4>2. IsFiniteSet(Articles)
        BY GatewayAssumption
      <4>3. IsFiniteSet(Range(parsed))
        BY <4>1, <4>2, FS_Subset
      <4>4. listed \in Seq(Range(parsed)) /\ IsInjective(listed) /\ Range(listed) = Range(parsed)
        BY <4>3, ListedRows
      <4> QED BY <4>1, <4>4
    <3>3. Matching(version, listed) = rows
      BY <2>2, <3>2 DEF Matching
    <3>4. Orders(newer, rows)
      <4>1. Orders(Newer(version, listed), Matching(version, listed))
        BY <2>1, <3>2, DatesOrder
      <4> QED BY <3>3, <4>1
    <3>5. {a \in rows : order = << >> \/ SourceOf[a] \in Range(order)} = rows
      BY <2>9
    <3>6. SearchInMemory(order, version, listed) = InterleaveBy(SourceOf, order, InOrder(newer, rows))
      BY <3>3, <3>5 DEF SearchInMemory
    <3>7. BestOf(newer) = Best(SourceOf, newer, rows)
      BY <2>6
    <3> HIDE DEF newer
    <3>8. ByTurns(InterleaveBy(SourceOf, order, InOrder(newer, rows)), Best(SourceOf, newer, rows))
      <4> HIDE DEF sources
      <4> QED BY <2>3, <3>1, <3>4, InterleavedTakesTurns
    <3> HIDE DEF BestOf
    <3> QED BY <3>6, <3>7, <3>8 DEF newer
  <2>10. BestOf(HigherScore) = Best(SourceOf, HigherScore, rows)
    BY <2>6
  <2>11. ByTurns(ListFeedItems(rows), BestOf(HigherScore))
    <3>1. ByTurns(NumberedByKey(SourceOf, HigherScore, rows), Best(SourceOf, HigherScore, rows))
      BY <2>3, <2>7, NumberedTakesTurns
    <3> HIDE DEF BestOf
    <3> QED BY <2>10, <3>1 DEF ListFeedItems
  <2>12. ByTurns(ListInMemory(rows), BestOf(HigherScore))
    <3>1. << >> \in Seq(Articles)
      OBVIOUS
    <3>2. ByTurns(InterleaveBy(SourceOf, << >>, InOrder(HigherScore, rows)),
                  Best(SourceOf, HigherScore, rows))
      BY <2>3, <2>7, <3>1, InterleavedTakesTurns
    <3> HIDE DEF BestOf
    <3> QED BY <2>10, <3>2 DEF ListInMemory
  <2> QED BY <2>8, <2>9, <2>11, <2>12 DEF TableTakesTurns, rows, searched
<1>2. PageInv => TableTakesTurns
  BY <1>1 DEF PageInv
<1> QED BY <1>2, GatewayPageInv, PTL

(* In particular before the first request, where the run looks at the listings. *)
THEOREM ListingsAlwaysTakeTurns == GatewaySpec => []ListingsTakeTurns
<1>1. TableTakesTurns => ListingsTakeTurns
  BY DEF ListingsTakeTurns
<1> QED BY <1>1, EveryTableTakesTurns, PTL

-----------------------------------------------------------------------------
(* The table after a row was stored, or stored again. *)
IsStored(rows2, rows, b) == rows2 = Append(Keep(rows, Articles \ {b}), b)
NowSays(ver2, ver, b, v) == ver2 = [ver EXCEPT ![b] = v]

(* The stored row is the last, and the others stand to each other as before. *)
LEMMA StoredIsLast ==
  ASSUME NEW rows \in Seq(Articles), IsInjective(rows), NEW b \in Articles,
         NEW rows2 \in Seq(Articles), IsInjective(rows2), IsStored(rows2, rows, b)
  PROVE  /\ Range(rows2) = Range(rows) \union {b}
         /\ \A x, y \in Range(rows) \ {b} : Later(rows2, x, y) <=> Later(rows, x, y)
         /\ \A x \in Range(rows) \ {b} : Later(rows2, b, x)
<1> DEFINE R == Range(rows)
           R2 == Range(rows2)
           kept == Keep(rows, Articles \ {b})
           n == Len(kept)
<1>3. /\ kept \in Seq(Articles \intersect (Articles \ {b}))
      /\ \A k \in 1..Len(rows) : rows[k] \in Articles \ {b} => \E m \in 1..n : kept[m] = rows[k]
      /\ IsSublist(kept, rows)
  BY KeepFilters
<1> HIDE DEF kept
<1>5. /\ n \in Nat /\ DOMAIN kept = 1..n /\ Len(rows) \in Nat /\ DOMAIN rows = 1..Len(rows)
      /\ DOMAIN rows2 = 1..(n + 1) /\ rows2[n + 1] = b
      /\ \A k \in 1..n : rows2[k] = kept[k] /\ kept[k] # b /\ k \in DOMAIN rows2
  <2>1. Len(rows) \in Nat /\ DOMAIN rows = 1..Len(rows)
    OBVIOUS
  <2>2. n \in Nat /\ DOMAIN kept = 1..n /\ \A k \in 1..n : kept[k] # b /\ kept[k] \in Articles
    BY <1>3
  <2>3. kept \in Seq(Articles)
    BY <1>3
  <2> DEFINE both == Append(kept, b)
  <2>4. /\ DOMAIN both = 1..(n + 1) /\ both[n + 1] = b
        /\ \A k \in 1..n : both[k] = kept[k] /\ k \in DOMAIN both
    BY <2>3
  <2>5. rows2 = both
    BY DEF IsStored, kept
  <2> HIDE DEF both
  <2> QED BY <2>1, <2>2, <2>4, <2>5
<1>6. PICK p \in [1..n -> 1..Len(rows)] :
         /\ \A k, m \in 1..n : m < k <=> p[m] < p[k]
         /\ \A k \in 1..n : kept[k] = rows[p[k]]
  BY <1>3 DEF IsSublist
<1>7. \A x \in R \ {b} : \E k \in 1..n : rows2[k] = x /\ rows[p[k]] = x
  <2> SUFFICES ASSUME NEW x \in R, x # b PROVE \E k \in 1..n : rows2[k] = x /\ rows[p[k]] = x
    OBVIOUS
  <2>1. PICK k \in DOMAIN rows : rows[k] = x
    BY DEF Range
  <2>2. rows[k] \in Articles \ {b}
    BY <2>1
  <2>3. PICK m \in 1..n : kept[m] = x
    BY <1>3, <1>5, <2>1, <2>2
  <2> QED BY <1>5, <1>6, <2>3
<1>8. R2 = R \union {b}
  <2>1. ASSUME NEW x \in R2 PROVE x \in R \union {b}
    <3>1. PICK k \in 1..(n + 1) : rows2[k] = x
      BY <1>5 DEF Range
    <3>2. CASE k \in 1..n
      <4>1. rows2[k] = rows[p[k]] /\ p[k] \in DOMAIN rows
        BY <1>5, <1>6, <3>2
      <4> QED BY <3>1, <4>1 DEF Range
    <3>3. CASE k = n + 1
      BY <1>5, <3>1, <3>3
    <3> QED BY <1>5, <3>2, <3>3
  <2>2. b \in R2
    <3>1. n + 1 \in DOMAIN rows2
      BY <1>5
    <3> QED BY <1>5, <3>1 DEF Range
  <2>3. ASSUME NEW x \in R, x # b PROVE x \in R2
    BY <1>5, <1>7, <2>3 DEF Range
  <2> QED BY <2>1, <2>2, <2>3
<1>9. ASSUME NEW x \in R \ {b}, NEW y \in R \ {b} PROVE Later(rows2, x, y) <=> Later(rows, x, y)
  <2>1. PICK k \in 1..n : rows2[k] = x /\ rows[p[k]] = x
    BY <1>7
  <2>2. PICK m \in 1..n : rows2[m] = y /\ rows[p[m]] = y
    BY <1>7
  <2>3. /\ k \in DOMAIN rows2 /\ m \in DOMAIN rows2 /\ p[k] \in DOMAIN rows /\ p[m] \in DOMAIN rows
    BY <1>5, <1>6
  <2>4. Later(rows2, x, y) <=> k > m
    BY <2>1, <2>2, <2>3, LaterOrders
  <2>5. Later(rows, x, y) <=> p[k] > p[m]
    BY <2>1, <2>2, <2>3, LaterOrders
  <2>6. k > m <=> p[k] > p[m]
    <3>1. m < k <=> p[m] < p[k]
      BY <1>6
    <3> QED BY <1>5, <1>6, <2>3, <3>1
  <2> QED BY <2>4, <2>5, <2>6
<1>10. ASSUME NEW x \in R \ {b} PROVE Later(rows2, b, x)
  <2>1. PICK k \in 1..n : rows2[k] = x /\ rows[p[k]] = x
    BY <1>7
  <2> DEFINE last == n + 1
  <2>2. last \in DOMAIN rows2 /\ rows2[last] = b /\ k \in DOMAIN rows2 /\ last > k
    BY <1>5
  <2> HIDE DEF last
  <2> QED BY <2>1, <2>2 DEF Later
<1> QED BY <1>8, <1>9, <1>10

(* An article that is stored, or stored again, takes no other article to an earlier place, unless
   it has become a worse match or none and was ahead of the other one. *)
LEMMA StoredPushesBack ==
  ASSUME NEW ver \in Vers, NEW rows \in Seq(Articles), IsInjective(rows),
         NEW b \in Articles, NEW v \in [rank : Nat, date : Nat],
         NEW ver2 \in Vers, NowSays(ver2, ver, b, v),
         NEW rows2 \in Seq(Articles), IsInjective(rows2), IsStored(rows2, rows, b),
         NEW i \in DOMAIN SearchOrder(ver, rows), NEW a, SearchOrder(ver, rows)[i] = a, a # b,
         ~(Higher(ver[b], v) /\ Later(SearchOrder(ver, rows), a, b))
  PROVE  \E j \in DOMAIN SearchOrder(ver2, rows2) : SearchOrder(ver2, rows2)[j] = a /\ j >= i
<1> DEFINE M == Matching(ver, rows)
           M2 == Matching(ver2, rows2)
           better == Better(ver, rows)
           better2 == Better(ver2, rows2)
           V == [rank : Nat, date : Nat]
<1>1. /\ IsFiniteSet(M) /\ M \subseteq Articles /\ M \subseteq Range(rows)
      /\ Orders(better, M)
  BY MatchingRows, SearchOrders
<1>2. IsFiniteSet(M2) /\ M2 \subseteq Articles /\ Orders(better2, M2)
  BY MatchingRows, SearchOrders
<1>3. /\ Range(rows2) = Range(rows) \union {b} /\ Range(rows) \subseteq Articles
      /\ \A x, y \in Range(rows) \ {b} : Later(rows2, x, y) <=> Later(rows, x, y)
      /\ \A x \in Range(rows) \ {b} : Later(rows2, b, x)
  BY StoredIsLast, MatchingRows
<1>4. /\ ver2[b] = v /\ v \in V /\ \A x \in Articles : ver[x] \in V
      /\ \A x \in Articles \ {b} : ver2[x] = ver[x]
  BY DEF Vers, NowSays
<1>5. M \ {b} \subseteq M2 /\ M2 \subseteq M \union {b}
  <2>1. \A x \in M : x \in Range(rows) /\ ver[x].rank > 0
    BY DEF Matching
  <2>2. \A x \in M2 : x \in Range(rows2) /\ ver2[x].rank > 0
    BY DEF Matching
  <2>3. ASSUME NEW x \in M \ {b} PROVE x \in M2
    BY <1>1, <1>3, <1>4, <2>1 DEF Matching
  <2>4. ASSUME NEW x \in M2, x # b PROVE x \in M
    BY <1>2, <1>3, <1>4, <2>2, <2>4 DEF Matching
  <2> QED BY <2>3, <2>4
<1>6. ASSUME NEW x \in M \ {b}, NEW y \in M \ {b} PROVE x \in better2[y] <=> x \in better[y]
  <2>1. /\ x \in Articles /\ y \in Articles /\ ver2[x] = ver[x] /\ ver2[y] = ver[y]
        /\ Later(rows2, x, y) <=> Later(rows, x, y)
    BY <1>1, <1>3, <1>4
  <2> QED BY <2>1 DEF Better
<1>h. /\ \A w, x, y \in V : Higher(w, x) /\ Higher(x, y) => Higher(w, y)
      /\ \A w, x \in V : w = x \/ Higher(w, x) \/ Higher(x, w)
  BY HigherOrders
<1>b. ASSUME NEW x \in M \ {b}
      PROVE  /\ ver[x] \in V /\ ver[b] \in V
             /\ b \in better[x] => Higher(ver[b], ver[x]) \/ ver[b] = ver[x]
             /\ Higher(ver[b], ver[x]) => b \in better[x]
             /\ b \in better2[x] <=> Higher(v, ver[x]) \/ v = ver[x]
  <2>1. x \in Articles /\ ver2[x] = ver[x] /\ ver2[b] = v /\ Later(rows2, b, x)
    BY <1>1, <1>3, <1>4
  <2>2. b \in better[x] <=> Higher(ver[b], ver[x]) \/ (ver[b] = ver[x] /\ Later(rows, b, x))
    BY <2>1 DEF Better
  <2>3. b \in better2[x] <=> Higher(v, ver[x]) \/ v = ver[x]
    BY <2>1 DEF Better
  <2> QED BY <1>4, <2>1, <2>2, <2>3
<1>o. SearchOrder(ver, rows) \in Seq(Articles) /\ IsInjective(SearchOrder(ver, rows))
  BY PoolLists
<1> DEFINE list == NumberedByKey(SourceOf, better, M)
           list2 == NumberedByKey(SourceOf, better2, M2)
           ahead == AheadByNumber(SourceOf, better, M)
           ahead2 == AheadByNumber(SourceOf, better2, M2)
           c == Cardinality(M)
           c2 == Cardinality(M2)
<1>11. SearchOrder(ver, rows) = list /\ SearchOrder(ver2, rows2) = list2
  BY DEF SearchOrder
<1> HIDE DEF M, M2, better, better2, V
<1>12. /\ c \in Nat /\ list \in [1..c -> M] /\ Orders(ahead, M)
       /\ \A r \in M : \E k \in 1..c : list[k] = r
       /\ \A k, m \in 1..c : m < k <=> list[m] \in ahead[list[k]]
       /\ \A k \in 1..c : Place(ahead, M)[list[k]] = k - 1
  BY <1>1, NumberedLists
<1>13. /\ c2 \in Nat /\ list2 \in [1..c2 -> M2]
       /\ \A r \in M2 : \E k \in 1..c2 : list2[k] = r
       /\ \A k \in 1..c2 : Place(ahead2, M2)[list2[k]] = k - 1
  BY <1>2, NumberedLists
<1> HIDE DEF list, list2, c, c2
<1>14. i \in 1..c /\ a = list[i] /\ a \in M /\ a # b /\ a \in M2
  BY <1>5, <1>11, <1>12
<1>15. Cardinality(ahead[a] \intersect M) <= Cardinality(ahead2[a] \intersect M2)
  <2>1. CASE b \notin M \/ ~Higher(ver[b], v)
    <3>1. M \subseteq M2
      <4>1. ASSUME b \in M PROVE b \in M2
        <5>1. ver[b].rank > 0 /\ b \in Range(rows2)
          BY <1>3, <4>1 DEF M, Matching
        <5>2. v.rank > 0
          <6>1. v = ver[b] \/ Higher(v, ver[b])
            BY <1>4, <1>h, <2>1, <4>1
          <6>2. v.rank \in Nat /\ ver[b].rank \in Nat
            BY <1>4 DEF V
          <6> QED BY <5>1, <6>1, <6>2 DEF Higher
        <5> QED BY <1>4, <5>1, <5>2 DEF M2, Matching
      <4> QED BY <1>5, <4>1
    <3>2. ASSUME NEW x \in M \ {b}, b \in M, b \in better[x] PROVE b \in better2[x]
      <4>1. Higher(ver[b], ver[x]) \/ ver[b] = ver[x]
        BY <1>b, <3>2
      <4>2. v = ver[b] \/ Higher(v, ver[b])
        BY <1>4, <1>h, <2>1, <3>2
      <4>3. Higher(v, ver[x]) \/ v = ver[x]
        BY <1>4, <1>b, <1>h, <4>1, <4>2
      <4> QED BY <1>b, <4>3
    <3> HIDE DEF ahead, ahead2
    <3>3. Cardinality(AheadByNumber(SourceOf, better, M)[a] \intersect M)
            <= Cardinality(AheadByNumber(SourceOf, better2, M2)[a] \intersect M2)
      BY <1>1, <1>2, <1>5, <1>6, <1>14, <3>1, <3>2, NothingMovesForward
    <3> QED BY <3>3 DEF ahead, ahead2
  <2>2. CASE b \in M /\ Higher(ver[b], v)
    <3>1. M2 \subseteq M
      BY <1>5, <2>2
    <3>2. ASSUME NEW x \in M \ {b}, b \in M2, b \in better2[x] PROVE b \in better[x]
      <4>1. Higher(v, ver[x]) \/ v = ver[x]
        BY <1>b, <3>2
      <4>2. Higher(ver[b], ver[x])
        BY <1>4, <1>b, <1>h, <2>2, <4>1
      <4> QED BY <1>b, <4>2
    <3>3. b \notin ahead[a]
      <4>1. PICK k \in 1..c : list[k] = b
        BY <1>12, <2>2
      <4>2. ~Later(list, a, b)
        BY <1>11, <2>2
      <4>3. ~(i > k)
        <5>1. i \in DOMAIN list /\ k \in DOMAIN list
          BY <1>12, <1>14
        <5> QED BY <1>14, <4>1, <4>2, <5>1 DEF Later
      <4>4. i # k
        BY <1>14, <4>1
      <4>5. ~(k < i)
        BY <1>12, <1>14, <4>3
      <4> HIDE DEF ahead
      <4> QED BY <1>12, <1>14, <4>1, <4>5
    <3> HIDE DEF ahead, ahead2
    <3>4. b \notin AheadByNumber(SourceOf, better, M)[a]
      BY <3>3 DEF ahead
    <3>5. Cardinality(AheadByNumber(SourceOf, better, M)[a] \intersect M)
            <= Cardinality(AheadByNumber(SourceOf, better2, M2)[a] \intersect M2)
      BY <1>1, <1>2, <1>5, <1>6, <1>14, <2>2, <3>1, <3>2, <3>4, NothingAheadMovesForward
    <3> QED BY <3>5 DEF ahead, ahead2
  <2> QED BY <2>1, <2>2
<1> HIDE DEF ahead, ahead2
<1>16. PICK j \in 1..c2 : list2[j] = a
  BY <1>13, <1>14
<1>17. /\ Cardinality(ahead[a] \intersect M) = i - 1
       /\ Cardinality(ahead2[a] \intersect M2) = j - 1
  BY <1>12, <1>13, <1>14, <1>16 DEF Place
<1>18. j >= i
  BY <1>12, <1>13, <1>14, <1>15, <1>17
<1>19. j \in DOMAIN list2
  BY <1>13
<1> QED BY <1>11, <1>16, <1>18, <1>19

-----------------------------------------------------------------------------
(* What was there at the start has been shown, is hidden, or is still ahead of the n-th row. *)
Covered(initial, shown, hidden, list, n) ==
    \A a \in initial : a \in shown \/ a \in hidden \/ \E i \in DOMAIN list : list[i] = a /\ i > n

(* A request for a further page starts where the last one ended. *)
FollowsOf(u) ==
    /\ req[u].pc \notin {"idle", "done"} /\ req[u].key.cursor # 0 => req[u].key.cursor = scroll[u].next
    /\ req[u].pc = "list" => req[u].key.home
    /\ req[u].pc = "personalize" => Len(req[u].found) <= Limit

(* Nothing is left out of a scroll: before a request, while its page is being made, and once its
   response is made. *)
CoveredOf(u) ==
    /\ scroll[u].fresh =>
          Covered(scroll[u].initial, scroll[u].shown, HiddenFrom(u), pool, scroll[u].next)
    /\ req[u].pc = "personalize" /\ ~req[u].key.home /\ (req[u].key.cursor = 0 \/ scroll[u].fresh) =>
          Covered(scroll[u].initial, Seen(u) \union Range(req[u].found), HiddenFrom(u), pool,
                  req[u].key.cursor + Limit)
    /\ (/\ req[u].pc \in {"refill", "store"} /\ ~req[u].key.home
        /\ req[u].key.cursor = 0 \/ scroll[u].fresh
        /\ req[u].origin = "made" /\ req[u].payload.next > 0) =>
          Covered(scroll[u].initial, Seen(u) \union Served(u), HiddenFrom(u), pool,
                  req[u].payload.next)

ScrollInv == GatewayTypeOK /\ \A u \in Users : FollowsOf(u) /\ CoveredOf(u)

(* More is hidden or shown, less was there at the start, and rows move back. *)
LEMMA StillCovered ==
  ASSUME NEW initial, NEW initial2 \in SUBSET initial, NEW shown, NEW hidden, NEW hidden2,
         hidden \subseteq hidden2, NEW list \in Seq(Articles), NEW list2 \in Seq(Articles), NEW n \in Nat,
         \A i \in DOMAIN list : list[i] \in initial2 =>
            \E j \in DOMAIN list2 : list2[j] = list[i] /\ j >= i,
         Covered(initial, shown, hidden, list, n)
  PROVE  Covered(initial2, shown, hidden2, list2, n)
<1> SUFFICES ASSUME NEW a \in initial2, a \notin shown, a \notin hidden2
             PROVE  \E i \in DOMAIN list2 : list2[i] = a /\ i > n
  BY DEF Covered
<1>1. PICK i \in DOMAIN list : list[i] = a /\ i > n
  BY DEF Covered
<1>2. PICK j \in DOMAIN list2 : list2[j] = a /\ j >= i
  BY <1>1
<1>3. i \in Nat /\ j \in Nat
  OBVIOUS
<1>4. j > n
  BY <1>1, <1>2, <1>3
<1> QED BY <1>2, <1>4

(* A step that is not of v's request leaves its scroll covered: articles may be stored, reactions
   recorded, and other requests served. *)
LEMMA ScrollKept ==
  ASSUME GatewayTypeOK, pool' \in Seq(Articles), NEW v \in Users, FollowsOf(v), CoveredOf(v),
         req'[v] = req[v], HiddenFrom(v) \subseteq HiddenFrom(v)',
         scroll'[v].shown = scroll[v].shown, scroll'[v].next = scroll[v].next,
         scroll'[v].fresh = scroll[v].fresh, scroll'[v].initial \subseteq scroll[v].initial,
         \A i \in DOMAIN pool : pool[i] \in scroll'[v].initial =>
            \E j \in DOMAIN pool' : pool'[j] = pool[i] /\ j >= i
  PROVE  FollowsOf(v)' /\ CoveredOf(v)'
<1>1. FollowsOf(v)'
  BY DEF FollowsOf
<1>2. Seen(v)' = Seen(v) /\ Served(v)' = Served(v)
  BY DEF Seen, Served
<1>3. ASSUME NEW shown, NEW n \in Nat, Covered(scroll[v].initial, shown, HiddenFrom(v), pool, n)
      PROVE  Covered(scroll'[v].initial, shown, HiddenFrom(v)', pool', n)
  <2> DEFINE initial == scroll[v].initial
             initial2 == scroll'[v].initial
             hidden == HiddenFrom(v)
             hidden2 == HiddenFrom(v)'
  <2>1. pool \in Seq(Articles) /\ initial2 \in SUBSET initial
    BY PoolTyped
  <2> HIDE DEF initial, initial2, hidden, hidden2
  <2>2. /\ Covered(initial, shown, hidden, pool, n) /\ hidden \subseteq hidden2
        /\ \A i \in DOMAIN pool : pool[i] \in initial2 =>
              \E j \in DOMAIN pool' : pool'[j] = pool[i] /\ j >= i
    BY <1>3 DEF initial, initial2, hidden, hidden2
  <2>3. Covered(initial2, shown, hidden2, pool', n)
    BY <2>1, <2>2, StillCovered
  <2> QED BY <2>3 DEF initial2, hidden2
<1>4. /\ scroll[v].next \in Nat /\ req[v].key.cursor + Limit \in Nat /\ req[v].payload.next \in Nat
  <2>1. scroll[v] \in Scrolls /\ req[v] \in Requests
    BY DEF GatewayTypeOK
  <2>2. scroll[v].next \in Nat
    BY <2>1 DEF Scrolls
  <2>3. req[v].key.cursor \in Nat /\ req[v].payload.next \in Nat
    BY <2>1 DEF Requests, Keys, Payloads
  <2>4. Limit \in Nat
    BY GatewayAssumption
  <2> QED BY <2>2, <2>3, <2>4
<1>5. scroll'[v].fresh =>
         Covered(scroll'[v].initial, scroll'[v].shown, HiddenFrom(v)', pool', scroll'[v].next)
  BY <1>3, <1>4 DEF CoveredOf
<1>6. req'[v].pc = "personalize" /\ ~req'[v].key.home /\ (req'[v].key.cursor = 0 \/ scroll'[v].fresh) =>
         Covered(scroll'[v].initial, Seen(v)' \union Range(req'[v].found), HiddenFrom(v)', pool',
                 req'[v].key.cursor + Limit)
  BY <1>2, <1>3, <1>4 DEF CoveredOf
<1>7. (/\ req'[v].pc \in {"refill", "store"} /\ ~req'[v].key.home
       /\ req'[v].key.cursor = 0 \/ scroll'[v].fresh
       /\ req'[v].origin = "made" /\ req'[v].payload.next > 0) =>
         Covered(scroll'[v].initial, Seen(v)' \union Served(v)', HiddenFrom(v)', pool',
                 req'[v].payload.next)
  BY <1>2, <1>3, <1>4 DEF CoveredOf
<1>8. CoveredOf(v)'
  BY <1>5, <1>6, <1>7 DEF CoveredOf
<1> QED BY <1>1, <1>8

(* A page that follows a covered part of the pool covers the next Limit rows. *)
LEMMA PageCovers ==
  ASSUME NEW initial, NEW shown, NEW hidden, NEW list \in Seq(Articles), NEW offset \in Nat,
         Covered(initial, shown, hidden, list, offset)
  PROVE  Covered(initial,
                 shown \union Range(SubSeq(list, offset + 1, Min({offset + Limit, Len(list)}))),
                 hidden, list, offset + Limit)
<1> DEFINE page == SubSeq(list, offset + 1, Min({offset + Limit, Len(list)}))
<1>1. \A i \in DOMAIN list : offset < i /\ i <= offset + Limit => \E k \in DOMAIN page : page[k] = list[i]
  BY PageOfPool
<1> HIDE DEF page
<1>2. ASSUME NEW a \in initial, a \notin shown, a \notin hidden, a \notin Range(page)
      PROVE  \E i \in DOMAIN list : list[i] = a /\ i > offset + Limit
  <2>1. PICK i \in DOMAIN list : list[i] = a /\ i > offset
    BY <1>2 DEF Covered
  <2>2. i \in Nat /\ Limit \in Nat
    <3>1. i \in Nat
      OBVIOUS
    <3> QED BY <3>1, GatewayAssumption
  <2>3. ~(i <= offset + Limit)
    <3> SUFFICES ASSUME i <= offset + Limit PROVE FALSE
      OBVIOUS
    <3>1. \E k \in DOMAIN page : page[k] = list[i]
      BY <1>1, <2>1, <2>2
    <3> QED BY <1>2, <2>1, <3>1 DEF Range
  <2>4. i > offset + Limit
    BY <2>2, <2>3
  <2> QED BY <2>1, <2>4
<1>3. Covered(initial, shown \union Range(page), hidden, list, offset + Limit)
  BY <1>2 DEF Covered
<1> QED BY <1>3 DEF page

(* The scroll of a user who asks. *)
LEMMA AskKeepsScroll ==
  ASSUME ScrollInv, NEW u \in Users, NEW key \in Keys, key.cursor \in {0, scroll[u].next}, Ask(u, key)
  PROVE  \A v \in Users : FollowsOf(v)' /\ CoveredOf(v)'
<1>0. /\ reactions' = reactions /\ pool' = pool /\ GatewayTypeOK
      /\ \A v \in Users : FollowsOf(v) /\ CoveredOf(v)
  BY DEF Ask, ScrollInv
<1>1. /\ OnlyOf(u) /\ scroll' = scroll
      /\ req'[u] = [NewRequest(key) EXCEPT !.pc = req'[u].pc, !.hidden = HiddenFrom(u)]
      /\ req'[u].pc = "list" <=> key.home
      /\ req'[u].pc \in {"list", "lookup", "search"}
  BY <1>0, AskDoes
<1>2. req'[u].key = key
  BY <1>1 DEF NewRequest
<1>3. \A v \in Users : HiddenFrom(v)' = HiddenFrom(v)
  BY <1>0, HiddenIsHiddenBy
<1>4. FollowsOf(u)'
  BY <1>1, <1>2 DEF FollowsOf
<1>5. CoveredOf(u)'
  BY <1>0, <1>1, <1>3 DEF CoveredOf
<1>6. ASSUME NEW v \in Users, v # u PROVE FollowsOf(v)' /\ CoveredOf(v)'
  <2>1. req'[v] = req[v]
    BY <1>1, <1>6 DEF OnlyOf
  <2>2. pool \in Seq(Articles)
    BY <1>0, PoolTyped
  <2>3. \A i \in DOMAIN pool : \E j \in DOMAIN pool : pool[j] = pool[i] /\ j >= i
    BY <2>2
  <2> QED BY <1>0, <1>1, <1>3, <2>1, <2>2, <2>3, ScrollKept
<1> QED BY <1>4, <1>5, <1>6

(* A step of the request itself. *)
LEMMA ServeKeepsScroll ==
  ASSUME ScrollInv, \A v \in Users : MoreOf(v), NEW u \in Users, Serve(u)
  PROVE  \A v \in Users : FollowsOf(v)' /\ CoveredOf(v)'
<1>0. GatewayTypeOK /\ FollowsOf(u) /\ CoveredOf(u) /\ MoreOf(u)
  BY DEF ScrollInv
<1>1. OnlyOf(u) /\ UNCHANGED <<now, parsed, version, pool, reactions>>
  BY <1>0, ServeDoes
<1>2. HiddenFrom(u)' = HiddenFrom(u) /\ HiddenFrom(u) = HiddenBy(reactions[u])
  BY <1>1, HiddenIsHiddenBy
<1>p. pool \in Seq(Articles) /\ pool' = pool
  BY <1>0, <1>1, PoolTyped
<1>3. ASSUME NEW v \in Users, v # u PROVE FollowsOf(v)' /\ CoveredOf(v)'
  <2>1. req'[v] = req[v] /\ scroll'[v] = scroll[v] /\ FollowsOf(v) /\ CoveredOf(v)
    BY <1>1, <1>3 DEF OnlyOf, ScrollInv
  <2>2. \A i \in DOMAIN pool : \E j \in DOMAIN pool : pool[j] = pool[i] /\ j >= i
    BY <1>p
  <2>3. HiddenFrom(v)' = HiddenFrom(v)
    BY <1>1, HiddenIsHiddenBy
  <2> QED BY <1>0, <1>p, <2>1, <2>2, <2>3, ScrollKept
<1> DEFINE Kept == FollowsOf(u)' /\ CoveredOf(u)'
<1>r. req[u] \in Requests /\ scroll[u] \in Scrolls /\ Limit \in Nat \ {0}
  BY <1>0, GatewayAssumption DEF GatewayTypeOK
<1>c. req[u].key.cursor \in Nat
  BY <1>r DEF Requests, Keys
<1>m. ASSUME NEW place \in {"evict", "search", "store"}, req'[u] = [req[u] EXCEPT !.pc = place],
             req[u].pc \in {"lookup", "evict"} \/ (req[u].pc = "refill" /\ place = "store"),
             scroll' = scroll
      PROVE  Kept
  <2>1. /\ req'[u].pc = place /\ req'[u].origin = req[u].origin
        /\ req'[u].payload = req[u].payload /\ req'[u].key = req[u].key
    BY <1>m, <1>r DEF Requests
  <2>2. Served(u)' = Served(u) /\ Seen(u)' = Seen(u)
    BY <1>m, <2>1 DEF Served, Seen
  <2>3. FollowsOf(u)'
    BY <1>0, <1>m, <2>1 DEF FollowsOf
  <2>4. req[u].pc \in {"lookup", "evict"} => req[u].origin # "made"
    BY <1>0 DEF MoreOf
  <2>5. CoveredOf(u)'
    BY <1>0, <1>2, <1>p, <1>m, <2>1, <2>2, <2>4 DEF CoveredOf
  <2> QED BY <2>3, <2>5
<1>4. ASSUME CacheGet(u) PROVE Kept
  <2>1. req[u].pc = "lookup"
    BY <1>4 DEF CacheGet
  <2>2. CASE req'[u].pc = "done" /\ ~scroll'[u].fresh
    BY <2>2 DEF FollowsOf, CoveredOf
  <2>3. CASE scroll' = scroll /\ \E place \in {"evict", "search"} : req'[u] = [req[u] EXCEPT !.pc = place]
    BY <1>m, <2>1, <2>3
  <2> QED BY <1>0, <1>4, <2>2, <2>3, CacheGetDoes
<1>5. ASSUME CacheEvict(u) PROVE Kept
  <2>1. req[u].pc = "evict" /\ Go(u, "search") /\ scroll' = scroll
    BY <1>5 DEF CacheEvict
  <2>2. req'[u] = [req[u] EXCEPT !.pc = "search"]
    BY <1>0, <2>1, GoDoes DEF Places
  <2> QED BY <1>m, <2>1, <2>2
<1>6. ASSUME Search(u) PROVE Kept
  <2> DEFINE offset == req[u].key.cursor
             page == SubSeq(pool, offset + 1, Min({offset + Limit, Len(pool)}))
             more == offset + Limit < Len(pool)
             start == [NewScroll EXCEPT !.initial = Range(pool)]
  <2>1. req[u].pc = "search"
    BY <1>6 DEF Search
  <2>2. /\ req'[u] = [req[u] EXCEPT !.pc = "personalize", !.found = page, !.more = more]
        /\ scroll'[u] = IF offset # 0 THEN scroll[u] ELSE start
    BY <1>0, <1>6, SearchDoes
  <2>3. Len(page) <= Limit
    BY <1>c, <1>p, PageOfPool
  <2>4. start.initial = Range(pool) /\ start.fresh = FALSE
    BY DEF NewScroll
  <2> HIDE DEF start
  <2>5. req'[u].pc = "personalize" /\ req'[u].found = page /\ req'[u].key = req[u].key
    <3> HIDE DEF page, more
    <3> QED BY <1>r, <2>2 DEF Requests
  <2>6. /\ offset = 0 => Covered(Range(pool), {}, HiddenFrom(u), pool, offset)
        /\ offset # 0 /\ scroll[u].fresh =>
              Covered(scroll[u].initial, scroll[u].shown, HiddenFrom(u), pool, offset)
    <3>1. offset = 0 => Covered(Range(pool), {}, HiddenFrom(u), pool, offset)
      <4>1. \A i \in DOMAIN pool : i > 0
        BY <1>p
      <4> QED BY <4>1 DEF Covered, Range
    <3>2. offset # 0 => offset = scroll[u].next /\ scroll[u].next > 0
      BY <1>0, <1>c, <2>1 DEF FollowsOf
    <3> QED BY <1>0, <3>1, <3>2 DEF CoveredOf
  <2>7. Seen(u)' = IF offset = 0 THEN {} ELSE scroll[u].shown
    BY <2>2, <2>5 DEF Seen
  <2>8. offset = 0 \/ scroll[u].fresh =>
           Covered(scroll'[u].initial, Seen(u)' \union Range(page), HiddenFrom(u), pool, offset + Limit)
    <3> HIDE DEF offset
    <3>1. offset \in Nat
      BY <1>c DEF offset
    <3>2. CASE offset = 0
      <4>1. Covered(Range(pool), {} \union Range(page), HiddenFrom(u), pool, offset + Limit)
        BY <1>p, <2>6, <3>1, <3>2, PageCovers
      <4> QED BY <2>2, <2>4, <2>7, <3>2, <4>1
    <3>3. CASE offset # 0 /\ scroll[u].fresh
      <4>1. Covered(scroll[u].initial, scroll[u].shown \union Range(page), HiddenFrom(u), pool, offset + Limit)
        BY <1>p, <2>6, <3>1, <3>3, PageCovers
      <4> QED BY <2>2, <2>7, <3>3, <4>1
    <3> QED BY <3>2, <3>3
  <2> HIDE DEF page
  <2>9. FollowsOf(u)'
    BY <1>0, <2>1, <2>2, <2>3, <2>5 DEF FollowsOf
  <2>10. scroll'[u].fresh =>
            Covered(scroll'[u].initial, scroll'[u].shown, HiddenFrom(u)', pool', scroll'[u].next)
    BY <1>0, <1>2, <1>p, <2>2, <2>4 DEF CoveredOf
  <2>11. CoveredOf(u)'
    <3>1. scroll'[u].fresh => scroll[u].fresh
      BY <2>2, <2>4
    <3> QED BY <1>2, <1>p, <2>5, <2>8, <2>10, <3>1 DEF CoveredOf
  <2> QED BY <2>9, <2>11
<1>7. ASSUME SearchFails(u) PROVE Kept
  <2>1. req'[u].pc = "done" /\ scroll' = scroll
    BY <1>0, <1>7, SearchFailsDoes
  <2> QED BY <1>0, <1>2, <1>p, <2>1 DEF FollowsOf, CoveredOf
<1>8. ASSUME ListHome(u) PROVE Kept
  <2>1. /\ req[u].pc = "list" /\ scroll' = scroll /\ Len(req'[u].found) <= Limit
        /\ req'[u] = [req[u] EXCEPT !.pc = "personalize", !.found = req'[u].found]
    BY <1>0, <1>8, ListHomeDoes DEF ListHome
  <2>2. req'[u].pc = "personalize" /\ req'[u].key = req[u].key
    BY <1>r, <2>1 DEF Requests
  <2>3. req[u].key.home
    BY <1>0, <2>1 DEF FollowsOf
  <2>4. FollowsOf(u)'
    BY <1>0, <2>1, <2>2 DEF FollowsOf
  <2>5. CoveredOf(u)'
    BY <1>0, <1>2, <1>p, <2>1, <2>2, <2>3 DEF CoveredOf
  <2> QED BY <2>4, <2>5
<1>9. ASSUME Personalize(u) PROVE Kept
  <2>1. /\ req[u].pc = "personalize" /\ scroll' = scroll
        /\ Respond(u, ApplyUserReactions(req[u].found, reactions[u]), "made")
    BY <1>9 DEF Personalize
  <2>2. /\ req'[u].key = req[u].key /\ req'[u].pc \in {"refill", "store"}
        /\ Range(req[u].found) \subseteq HiddenBy(reactions[u]) \union Served(u)'
        /\ Len(req[u].found) <= Limit /\ req'[u].payload.next > 0 =>
              req'[u].payload.next = req[u].key.cursor + Limit
    BY <1>0, <2>1, RespondShows
  <2>3. FollowsOf(u)'
    BY <1>0, <2>1, <2>2 DEF FollowsOf
  <2>4. ASSUME ~req[u].key.home, req[u].key.cursor = 0 \/ scroll[u].fresh, req'[u].payload.next > 0
        PROVE  Covered(scroll[u].initial, Seen(u)' \union Served(u)', HiddenFrom(u)', pool, req'[u].payload.next)
    <3>1. Covered(scroll[u].initial, Seen(u) \union Range(req[u].found), HiddenFrom(u), pool,
                  req[u].key.cursor + Limit)
      BY <1>0, <2>1, <2>4 DEF CoveredOf
    <3>2. req'[u].payload.next = req[u].key.cursor + Limit
      BY <1>0, <2>1, <2>2, <2>4 DEF FollowsOf
    <3>3. Seen(u)' = Seen(u)
      BY <2>1, <2>2 DEF Seen
    <3> QED BY <1>2, <2>2, <3>1, <3>2, <3>3 DEF Covered
  <2>5. CoveredOf(u)'
    BY <1>0, <1>2, <1>p, <2>1, <2>2, <2>4 DEF CoveredOf
  <2> QED BY <2>3, <2>5
<1>10. ASSUME NEW known \in SUBSET reactions[u], req[u].pc = "personalize", scroll' = scroll,
              Respond(u, ApplyUserReactions(req[u].found, known), "open")
       PROVE  Kept
  <2>1. req[u].pc = "personalize" /\ scroll' = scroll
    BY <1>10
  <2>2. req'[u].key = req[u].key /\ req'[u].pc \in {"refill", "store"} /\ req'[u].origin = "open"
    BY <1>0, <1>10, RespondShows
  <2>3. FollowsOf(u)'
    BY <1>0, <2>1, <2>2 DEF FollowsOf
  <2>4. CoveredOf(u)'
    BY <1>0, <1>2, <1>p, <2>1, <2>2 DEF CoveredOf
  <2> QED BY <2>3, <2>4
<1>11. ASSUME Finish(u), req[u].pc \in {"refill", "store"} PROVE Kept
  <2>1. /\ req'[u] = [req[u] EXCEPT !.pc = "done", !.key = FirstPage]
        /\ scroll'[u].shown = Seen(u) \union Served(u)
        /\ scroll'[u].next = req[u].payload.next
        /\ scroll'[u].fresh => /\ req[u].origin = "made" /\ ~req[u].key.home
                               /\ req[u].payload.next > 0
                               /\ req[u].key.cursor = 0 \/ scroll[u].fresh
                               /\ scroll'[u].initial = scroll[u].initial
    BY <1>0, <1>11, FinishDoes
  <2>2. req'[u].pc = "done"
    BY <1>r, <2>1 DEF Requests
  <2>3. scroll'[u].fresh =>
           Covered(scroll'[u].initial, scroll'[u].shown, HiddenFrom(u)', pool', scroll'[u].next)
    BY <1>0, <1>2, <1>p, <1>11, <2>1 DEF CoveredOf
  <2> QED BY <2>2, <2>3 DEF FollowsOf, CoveredOf
<1>12. ASSUME StartRefillFails(u) PROVE Kept
  <2>1. req[u].pc = "refill" /\ Go(u, "store") /\ scroll' = scroll
    BY <1>12 DEF StartRefillFails
  <2>2. req'[u] = [req[u] EXCEPT !.pc = "store"]
    BY <1>0, <2>1, GoDoes DEF Places
  <2> QED BY <1>m, <2>1, <2>2
<1>13. Kept
  <2>1. CASE StartRefill(u) \/ StoreResponse(u)
    BY <1>11, <2>1 DEF StartRefill, StoreResponse
  <2>2. CASE PersonalizeFails(u)
    <3>1. {} \in SUBSET reactions[u]
      OBVIOUS
    <3> HIDE DEF Kept
    <3> QED BY <1>10, <2>2, <3>1 DEF PersonalizeFails
  <2>3. CASE PersonalizePartly(u)
    <3> HIDE DEF Kept
    <3> QED BY <1>10, <2>3 DEF PersonalizePartly
  <2> HIDE DEF Kept
  <2> QED BY <1>4, <1>5, <1>6, <1>7, <1>8, <1>9, <1>12, <2>1, <2>2, <2>3 DEF Serve
<1> QED BY <1>3, <1>13

(* Every step keeps the scrolls covered. *)
LEMMA ScrollStep ==
  ASSUME ScrollInv, PageInv, [GatewayNext]_feedVars
  PROVE  ScrollInv'
<1>0. GatewayTypeOK /\ \A v \in Users : FollowsOf(v) /\ CoveredOf(v) /\ MoreOf(v)
  BY DEF ScrollInv, PageInv
<1>t. GatewayTypeOK'
  BY <1>0, GatewayTypeStep
<1>p. pool \in Seq(Articles) /\ \A i \in DOMAIN pool : \E j \in DOMAIN pool : pool[j] = pool[i] /\ j >= i
  <2>1. pool \in Seq(Articles)
    BY <1>0, PoolTyped
  <2> QED BY <2>1
<1> DEFINE Kept == \A v \in Users : FollowsOf(v)' /\ CoveredOf(v)'
<1>1. ASSUME req' = req, scroll' = scroll, pool' = pool,
             \A v \in Users : HiddenFrom(v) \subseteq HiddenFrom(v)'
      PROVE  Kept
  BY <1>0, <1>1, <1>p, ScrollKept
<1>2. ASSUME Tick \/ UNCHANGED feedVars PROVE Kept
  <2>1. req' = req /\ scroll' = scroll /\ pool' = pool /\ reactions' = reactions
    BY <1>2 DEF Tick, feedVars
  <2> QED BY <1>1, <2>1, HiddenIsHiddenBy
<1>3. ASSUME NEW u \in Users, NEW a \in Articles, NEW type \in Types, RecordReaction(u, a, type)
      PROVE  Kept
  <2>1. /\ req' = req /\ scroll' = scroll /\ pool' = pool
        /\ reactions' = [reactions EXCEPT ![u] = @ \union {<<a, type>>}]
    BY <1>3 DEF RecordReaction
  <2>2. \A v \in Users : reactions[v] \subseteq reactions'[v]
    BY <1>0, <2>1 DEF GatewayTypeOK
  <2>3. \A v \in Users : HiddenFrom(v) \subseteq HiddenFrom(v)'
    BY <2>2 DEF HiddenFrom
  <2> QED BY <1>1, <2>1, <2>3
<1>4. ASSUME NEW b \in Articles, NEW ver \in Versions[b], StoreArticle(b, ver) PROVE Kept
  <2>1. /\ parsed' \in Seq(Articles) /\ IsInjective(parsed')
        /\ ver \in [rank : Nat, date : Nat] /\ version' \in Vers
        /\ version' = [version EXCEPT ![b] = ver]
        /\ pool' = SearchOrder(version', parsed')
        /\ \A u \in Users : scroll'[u] = [scroll[u] EXCEPT !.initial = @ \ MayMoveAhead(b, ver)]
        /\ UNCHANGED <<now, reactions, cache, req>>
        /\ parsed' = Append(Keep(parsed, Articles \ {b}), b)
    BY <1>0, <1>4, StoreDoes
  <2>2. /\ parsed \in Seq(Articles) /\ IsInjective(parsed) /\ version \in Vers
        /\ pool = SearchOrder(version, parsed)
    BY <1>0 DEF GatewayTypeOK, Vers
  <2>3. pool' \in Seq(Articles)
    BY <2>1, PoolLists
  <2>4. IsStored(parsed', parsed, b)
    BY <2>1 DEF IsStored
  <2>5. ASSUME NEW i \in DOMAIN pool, pool[i] \notin MayMoveAhead(b, ver)
        PROVE  \E j \in DOMAIN pool' : pool'[j] = pool[i] /\ j >= i
    <3> DEFINE old == SearchOrder(version, parsed)
               new == SearchOrder(version', parsed')
               a == pool[i]
    <3>1. i \in DOMAIN old /\ old[i] = a
      BY <2>2, <2>5
    <3>2. a # b /\ ~(Higher(version[b], ver) /\ Later(old, a, b))
      <4>1. a \in Articles
        BY <1>p
      <4> QED BY <2>2, <2>5, <4>1 DEF MayMoveAhead
    <3>3. \E j \in DOMAIN new : new[j] = a /\ j >= i
      <4>1. PICK rows2, ver2 : rows2 = parsed' /\ ver2 = version'
        OBVIOUS
      <4>2. /\ ver2 \in Vers /\ NowSays(ver2, version, b, ver)
            /\ rows2 \in Seq(Articles) /\ IsInjective(rows2) /\ IsStored(rows2, parsed, b)
        BY <2>1, <2>4, <4>1 DEF NowSays
      <4>3. /\ parsed \in Seq(Articles) /\ IsInjective(parsed) /\ version \in Vers
            /\ ver \in [rank : Nat, date : Nat] /\ i \in DOMAIN SearchOrder(version, parsed)
            /\ SearchOrder(version, parsed)[i] = a /\ a # b
            /\ ~(Higher(version[b], ver) /\ Later(SearchOrder(version, parsed), a, b))
        BY <2>1, <2>2, <3>1, <3>2
      <4> HIDE DEF a, old, new
      <4>4. \E j \in DOMAIN SearchOrder(ver2, rows2) : SearchOrder(ver2, rows2)[j] = a /\ j >= i
        BY <4>2, <4>3, StoredPushesBack
      <4> QED BY <4>1, <4>4 DEF new
    <3> QED BY <2>1, <2>2, <3>3
  <2>6. ASSUME NEW v \in Users PROVE FollowsOf(v)' /\ CoveredOf(v)'
    <3>1. scroll[v] \in Scrolls /\ scroll'[v] = [scroll[v] EXCEPT !.initial = @ \ MayMoveAhead(b, ver)]
      BY <1>0, <2>1 DEF GatewayTypeOK
    <3>2. /\ scroll'[v].shown = scroll[v].shown /\ scroll'[v].next = scroll[v].next
          /\ scroll'[v].fresh = scroll[v].fresh
          /\ scroll'[v].initial = scroll[v].initial \ MayMoveAhead(b, ver)
      BY <3>1 DEF Scrolls
    <3>3. /\ req'[v] = req[v] /\ HiddenFrom(v)' = HiddenFrom(v)
      BY <2>1, HiddenIsHiddenBy
    <3>4. \A i \in DOMAIN pool : pool[i] \in scroll'[v].initial =>
             \E j \in DOMAIN pool' : pool'[j] = pool[i] /\ j >= i
      BY <2>5, <3>2
    <3>5. scroll'[v].initial \subseteq scroll[v].initial
      BY <3>2
    <3>6. FollowsOf(v) /\ CoveredOf(v)
      BY <1>0
    <3> QED BY <1>0, <2>3, <3>2, <3>3, <3>4, <3>5, <3>6, ScrollKept
  <2> QED BY <2>6
<1>5. ASSUME NEW u \in Users, NEW refill \in BOOLEAN, NEW cursor \in {0, scroll[u].next},
             Ask(u, [FirstPage EXCEPT !.cursor = cursor, !.refill = refill])
      PROVE  Kept
  <2> DEFINE key == [FirstPage EXCEPT !.cursor = cursor, !.refill = refill]
  <2>1. key \in Keys
    BY <1>0, AskedKeys
  <2>2. key.cursor = cursor
    BY DEF FirstPage
  <2>3. Ask(u, key)
    BY <1>5
  <2> HIDE DEF key
  <2> QED BY <2>1, <2>2, <2>3, AskKeepsScroll
<1>6. ASSUME NEW u \in Users, Ask(u, Home) PROVE Kept
  <2>1. Home \in Keys /\ Home.cursor = 0
    BY DEF FirstPage, Home, Keys
  <2> QED BY <1>6, <2>1, AskKeepsScroll
<1>7. ASSUME NEW u \in Users, Serve(u) PROVE Kept
  BY <1>0, <1>7, ServeKeepsScroll
<1>8. Kept
  <2> HIDE DEF Kept
  <2> QED BY <1>2, <1>3, <1>4, <1>5, <1>6, <1>7 DEF GatewayNext
<1> QED BY <1>t, <1>8 DEF ScrollInv

(* However many articles are stored, and stored again with whatever they say, and however many
   pages are asked for while they are: what was found when a user began to scroll is shown, hidden
   or still ahead, unless it was itself stored again, or was listed behind one that was stored
   again as a worse match. *)
THEOREM ScrollingSkipsNothing == GatewaySpec => []ScrollSkipsNothing
<1>1. GatewayInit => ScrollInv
  <2> SUFFICES ASSUME GatewayInit PROVE ScrollInv
    OBVIOUS
  <2>1. GatewayTypeOK
    BY GatewayTypeInit
  <2>2. ASSUME NEW u \in Users PROVE FollowsOf(u) /\ CoveredOf(u)
    <3>1. req[u] = NewRequest(FirstPage) /\ scroll[u] = NewScroll
      BY DEF GatewayInit
    <3>2. NewRequest(FirstPage).pc = "idle" /\ NewScroll.fresh = FALSE
      BY DEF NewRequest, NewScroll
    <3> QED BY <3>1, <3>2 DEF FollowsOf, CoveredOf
  <2> QED BY <2>1, <2>2 DEF ScrollInv
<1>2. ScrollInv /\ PageInv /\ [GatewayNext]_feedVars => ScrollInv'
  BY ScrollStep
<1>3. ScrollInv => ScrollSkipsNothing
  <2> SUFFICES ASSUME ScrollInv, NEW u \in Users, scroll[u].fresh,
                      NEW a \in scroll[u].initial
               PROVE  \/ a \in scroll[u].shown \union HiddenFrom(u)
                      \/ \E i \in DOMAIN pool : pool[i] = a /\ i > scroll[u].next
    BY DEF ScrollSkipsNothing
  <2>1. Covered(scroll[u].initial, scroll[u].shown, HiddenFrom(u), pool, scroll[u].next)
    BY DEF ScrollInv, CoveredOf
  <2> QED BY <2>1 DEF Covered
<1> QED BY <1>1, <1>2, <1>3, GatewayPageInv, PTL DEF GatewaySpec

=============================================================================
