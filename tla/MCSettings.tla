----------------------------- MODULE MCSettings -----------------------------
(***************************************************************************)
(* Requests that change a crontab or the time zone, requests whose second  *)
(* setting may be refused, and one that gives a setting two values.        *)
(***************************************************************************)
EXTENDS Settings

CONSTANTS check, update, zone, urls, a, b

SomeChanges ==
    {<<<<check, v>>, <<urls, b>>>> : v \in {a, b}} \cup
    {<<<<urls, b>>>>, <<<<zone, b>>, <<update, b>>>>, <<<<check, b>>>>,
     <<<<update, b>>, <<update, a>>>>}
=============================================================================
