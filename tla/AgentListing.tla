---------------------------- MODULE AgentListing ----------------------------
(***************************************************************************)
(* The agent's own tools/list requests (src/runtime/server.ts) beside the   *)
(* publisher: what it was answered last, and whether a notification was     *)
(* sent since.  A request is served from the moment connect() has set       *)
(* `serving`, while it still awaits its subscriptions and the baseline.     *)
(*                                                                         *)
(* A request is answered in one step: the registry as it is, and the record *)
(* read after its await with nothing in between, which is one of the ways   *)
(* it may go, and keeps the order in which derivations settle.              *)
(***************************************************************************)
EXTENDS ToolListPublisher

VARIABLES
  listed,  \* the answer to the agent's last request on this connection
  told     \* a notification was sent since

listingVars == <<vars, listed, told>>

ListingInit == Init /\ listed = None /\ told = FALSE

(* The handler of tools/list, on a connection whose window may still be      *)
(* shut, but is not closed again.                                          *)
Lists ==
  /\ open \/ baseline[epoch] = Unopened
  /\ listed' = Derived(registry, record)
  /\ told' = FALSE
  /\ UNCHANGED vars

(* What the publisher does as the agent hears it: a send is under way, or    *)
(* the connection is another, on which nothing has been listed.             *)
Hears ==
  IF epoch' # epoch
  THEN listed' = None /\ told' = FALSE
  ELSE told' = (told \/ pc' = "sending") /\ UNCHANGED listed

ListingNext == Lists \/ (Next /\ Hears)

ListingSpec == ListingInit /\ [][ListingNext]_listingVars

-----------------------------------------------------------------------------
(* An agent that has listed, was sent nothing since and has nothing coming to *)
(* it holds what the page offers, unless the failure to tell it was reported: *)
(* it does not "stay stale for the rest of the connection, with nothing       *)
(* anywhere reporting it" (server.ts, connect).                             *)
AgentStaysUpToDate ==
  open /\ AtRest /\ listed # None /\ ~told =>
    listed = Derived(registry, record) \/ alarm
=============================================================================
