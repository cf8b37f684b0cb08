---------------------------- MODULE SearchServer ----------------------------
(***************************************************************************)
(* A cidx server that answers tool calls.  What it ranks is one snapshot,  *)
(* read in one transaction, so a ranking (SearchRanking) does not depend   *)
(* on what happens around it; which snapshot is read, and what a status or *)
(* a span says of files that change, does (HybridSearch, ToolServices).    *)
(* A behaviour exercises one of the three; the others stay as they start.  *)
(***************************************************************************)
EXTENDS HybridSearch, SearchRanking, ToolServices

VARIABLE part

toolOnly == toolVars
hybridOnly == <<vectors, build, resolved, searchVars>>
serverVars == <<catalogVars, hybridOnly, rankingVars, toolOnly, part>>

HybridRests ==
  /\ vectors = {} /\ build = NoBuild
  /\ resolved = [config |-> CHOOSE c \in Desired : TRUE, paid |-> FALSE, key |-> FALSE]
  /\ step = "idle" /\ seen = NothingSeen /\ query = NoQuery /\ answer = NoAnswer

RankingRests ==
  /\ phase = "idle" /\ lanes = NoLanes /\ ranked = <<>> /\ response = NoResponse
  /\ request = (CHOOSE r \in Requests : TRUE) /\ snapshot = (CHOOSE s \in Snapshots : TRUE)

ToolsRest ==
  /\ worktree = [p \in Paths |-> Absent]
  /\ server = (CHOOSE c \in Desired : TRUE)
  /\ call = "idle" /\ view = NoView /\ locator = NoLocator /\ reply = NoReply /\ witnessed = {}

ServerInit ==
  \/ part = "search" /\ HybridInit /\ RankingRests /\ ToolsRest
  \/ part = "ranking" /\ CatalogInit /\ meta.profiles = (CHOOSE c \in Desired : TRUE)
       /\ HybridRests /\ RankingInit /\ ToolsRest
  \/ part = "tools" /\ HybridRests /\ RankingRests /\ ToolInit

ServerNext ==
  \/ part = "search" /\ HybridNext /\ UNCHANGED <<rankingVars, toolOnly, part>>
  \/ part = "ranking" /\ RankingNext /\ UNCHANGED <<catalogVars, hybridOnly, toolOnly, part>>
  \/ part = "tools" /\ ToolNext /\ UNCHANGED <<hybridOnly, rankingVars, part>>

ServerSpec == ServerInit /\ [][ServerNext]_serverVars
=============================================================================
