------------------------------ MODULE MCServer ------------------------------
(* Two threads of the server and one other process, over a database that   *)
(* is new, three scripts old or up to date.                                *)
EXTENDS Api, TLC

CONSTANTS t1, t2, cli, hook

MCConfigUrls == <<hook>>

(* The upgrade, raced by another process; and the events, over a database  *)
(* that needs none.                                                        *)
MCScenarios == [version : {0, 3}, others : {{cli}}, events : {0}]
                 \cup [version : {5}, others : {{}}, events : {1}]

(* A server with nothing wrong but a database that may be locked for once. *)
MCOneServer == [version : {5}, others : {{}}, events : {1}]
=============================================================================
