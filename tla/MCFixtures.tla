----------------------------- MODULE MCFixtures -----------------------------
(***************************************************************************)
(* Fixtures with two operations, one of which has a path parameter: its    *)
(* response has an exact key and a wildcard key.                           *)
(***************************************************************************)
EXTENDS Fixtures, TLC

MCKeys == {"exact", "wild", "list"}
MCFiles == {1, 2}
MCUnsafe == {2}
MCFileOf == [k \in MCKeys |-> IF k = "list" THEN 2 ELSE 1]
MCWildcardOf == [k \in MCKeys |-> IF k = "list" THEN "list" ELSE "wild"]

MCRequestKeys == {"exact", "list"}

MCConfigs ==
  [mode : {"lazy"}, source : {TRUE}, maxCalls : {1, Unlimited}, scoped : {FALSE}]
  \cup [mode : {"live"}, source : {TRUE}, maxCalls : {2}, scoped : {TRUE}]
  \cup [mode : {"off"}, source : {FALSE}, maxCalls : {Unlimited}, scoped : {FALSE}]

MCResponses ==
  << [op |-> 1, status |-> 200, key |-> "wild", kind |-> "json"],
     [op |-> 1, status |-> 400, key |-> "wild", kind |-> "range"],
     [op |-> 2, status |-> 200, key |-> "list", kind |-> "json"],
     [op |-> 2, status |-> 204, key |-> "list", kind |-> "bodiless"],
     [op |-> 2, status |-> 500, key |-> "list", kind |-> "unsendable"] >>

MCScopes == {Absent, [op |-> 1, status |-> Absent], [op |-> 2, status |-> 200],
             [op |-> 2, status |-> 404], [op |-> Absent, status |-> 200]}

MCPlans ==
  {[source |-> TRUE, maxCalls |-> 1, chunkSize |-> 1, scoped |-> FALSE],
   [source |-> TRUE, maxCalls |-> Absent, chunkSize |-> 0, scoped |-> FALSE],
   [source |-> TRUE, maxCalls |-> Absent, chunkSize |-> 2, scoped |-> TRUE],
   [source |-> FALSE, maxCalls |-> Absent, chunkSize |-> 1, scoped |-> FALSE]}

MCMixes ==
  {{"requests", "flush", "crash", "fail"},
   {"requests", "bake"},
   {"bake", "scopes"},
   {"bake", "cli", "crash", "fail"},
   {"bake", "flush", "unsafe"},
   {"bake", "flush", "clear", "edit", "fail"},
   {"bake", "flush", "reload", "edit"},
   {"reload", "document"},
   {"listen", "mount"}}

Symmetric == Permutations(Requests) \cup Permutations(Flushers)
             \cup Permutations(Reloads) \cup Permutations(Servers)
=============================================================================
