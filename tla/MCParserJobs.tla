---------------------------- MODULE MCParserJobs ----------------------------
(***************************************************************************)
(* An instance of ParserJobs: two sources that share pages, a client that  *)
(* asks all of them and one scheduled query, which gets a second job when  *)
(* the first is stranded.                                                  *)
(***************************************************************************)
EXTENDS ParserJobs

MCSourceOrder == <<"habr", "vc">>
MCFinds == [habr |-> {<< >>, <<"a", "b", "d">>}, vc |-> {<<"c", "b", "d">>}]
MCRelevance == [a |-> 1, b |-> 2, c |-> 1, d |-> 0]
MCQueries == {[sources |-> << >>, limit |-> 2]}
MCScheduled == <<[sources |-> <<"vc">>, limit |-> 1]>>

=============================================================================
