----------------------------- MODULE RoundRobin -----------------------------
(***************************************************************************)
(* Merging lists source by source, as parser-service does with what its    *)
(* sources found and feed-service and article-service with what they list. *)
(* An order is given by what is ahead of each row, and a filter by the set *)
(* of what is wanted.                                                      *)
(***************************************************************************)
EXTENDS Integers, Sequences, SequencesExt

(* The rows in an order that is total on them; ahead[r] is the set of what comes before r. *)
InOrder(ahead, rows) ==
    [k \in 1..Cardinality(rows) |->
        CHOOSE r \in rows : Cardinality(ahead[r] \intersect rows) = k - 1]

(* The numbers, the lowest first. *)
Ascending(numbers) == InOrder([n \in numbers |-> {m \in numbers : m < n}], numbers)

(* The elements of a list that are wanted, in the order of the list. *)
Keep(list, wanted) ==
    LET places == Ascending({i \in DOMAIN list : list[i] \in wanted})
    IN  [k \in DOMAIN places |-> list[places[k]]]

(* The turns there are to take: <<b, i>> is the i-th of bucket b. *)
Turns(buckets) == UNION {{b} \X DOMAIN buckets[b] : b \in DOMAIN buckets}

(* The first of every bucket, then the second of every bucket that has one, and so on, up to
   the limit. *)
InterleaveBuckets(buckets, limit) ==
    LET turns  == Turns(buckets)
        ahead  == [t \in turns |->
                      {s \in turns : s[2] < t[2] \/ (s[2] = t[2] /\ s[1] < t[1])}]
        order  == InOrder(ahead, turns)
    IN  [k \in 1..Min({limit, Cardinality(turns)}) |-> buckets[order[k][1]][order[k][2]]]

(* The buckets of a list: its elements by key, first the keys of order, then the others in the
   order in which they first occur. *)
BucketsBy(key, order, list) ==
    LET keys == order \o [i \in DOMAIN list |-> key[list[i]]]
        once == Ascending({i \in DOMAIN keys : \A j \in 1..(i - 1) : keys[j] # keys[i]})
    IN  [k \in DOMAIN once |-> Keep(list, {x \in Range(list) : key[x] = keys[once[k]]})]

(* A list by turns, the first of every key first. *)
InterleaveBy(key, order, list) == InterleaveBuckets(BucketsBy(key, order, list), Len(list))

(* The same as a query: rows are numbered within their key (ROW_NUMBER() OVER (PARTITION BY ...
   ORDER BY ...)), and ordered by that number and then by how good they are. *)
NumberedByKey(key, better, rows) ==
    LET number == [r \in rows |->
                      Cardinality({s \in rows : key[s] = key[r] /\ s \in better[r]})]
        ahead  == [r \in rows |->
                      {s \in rows : \/ number[s] < number[r]
                                    \/ number[s] = number[r] /\ s \in better[r]}]
    IN  InOrder(ahead, rows)

(* What a merge by turns is: nothing is cut while there is room, nothing comes twice, and when
   something comes that is the i-th of its bucket, every bucket has had its turns before i. *)
TakesTurns(page, buckets, limit) ==
    LET turns   == Turns(buckets)
        Item(t) == buckets[t[1]][t[2]]
    IN  /\ Len(page) = Min({limit, Cardinality(turns)})
        /\ IsInjective(page)
        /\ \A n \in DOMAIN page : \E t \in turns :
              /\ page[n] = Item(t)
              /\ \A s \in turns : s[2] < t[2] => \E m \in 1..(n - 1) : page[m] = Item(s)

=============================================================================
