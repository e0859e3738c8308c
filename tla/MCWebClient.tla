----------------------------- MODULE MCWebClient -----------------------------
(***************************************************************************)
(* An instance of WebClient: two articles, a finished job in the history   *)
(* and a job to start.                                                     *)
(***************************************************************************)
EXTENDS WebClient

MCArticles == {"a", "b"}
MCJobs == {"old", "new"}

=============================================================================
