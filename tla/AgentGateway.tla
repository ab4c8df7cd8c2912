---------------------------- MODULE AgentGateway ----------------------------
(***************************************************************************)
(* The agent's end of the socket (tools/mock-agent/src/gateway.ts,         *)
(* tickets.ts, client.ts, runtime.ts): tickets are minted and redeemed at   *)
(* the upgrade, every accepted connection becomes a tab whose page is to    *)
(* answer a handshake, callers ask for a tab's tools or run one of them,    *)
(* and the process is shut down under all of it.                           *)
(*                                                                         *)
(* Connections are numbered in the order in which they are accepted, which  *)
(* is the order in which a Map or a Set walks them.                        *)
(***************************************************************************)
EXTENDS Integers, FiniteSets, FiniteSetsExt

CONSTANTS
  MaxConns,    \* bound on the connections accepted
  MaxTickets,  \* bound on the tickets minted
  TabIds,      \* the identifiers pages choose for themselves
  NoTab,       \* no identifier: a page without one, a caller naming none
  Callers      \* requests to GET /tools and POST /call

ASSUME AgentAssumption ==
  MaxConns \in Nat /\ MaxTickets \in Nat /\ NoTab \notin TabIds

VARIABLES
  ticket,       \* per ticket: unminted, live, aged (live, and past its expiry) or spent
  socket,       \* per connection: none, open, closing (our end has closed it) or closed
  admitted,     \* per connection: the ticket it redeemed
  tabId,        \* per connection: the identifier in its URL
  connections,  \* gateway.connections
  tabs,         \* the keys of the runtime's map
  state,        \* per tab: connecting, ready or unavailable
  caller,       \* per caller: where its request is
  gate,         \* open; ending (its tabs being closed); draining (its sockets); stopping; closed
  cursor        \* the tab the closing loop has come to

gatewayVars == <<ticket, socket, admitted, tabId, connections, tabs, state, caller, gate, cursor>>

Conns == 1..MaxConns
Tickets == 1..MaxTickets
Id == TabIds \cup {NoTab}

(* A request: idle; reading its body; waiting for the page at the other end *)
(* of connection "to"; answered with a status; or gone, its caller hung up. *)
Request ==
  [phase : {"idle", "reading", "waiting", "answered", "gone"}, wants : Id, to : 0..MaxConns,
   status : {0, 200, 400, 404, 409, 502}]

GatewayTypeOK ==
  /\ ticket \in [Tickets -> {"unminted", "live", "aged", "spent"}]
  /\ socket \in [Conns -> {"none", "open", "closing", "closed"}]
  /\ admitted \in [Conns -> 0..MaxTickets]
  /\ tabId \in [Conns -> Id]
  /\ connections \subseteq Conns /\ tabs \subseteq Conns
  /\ state \in [Conns -> {"connecting", "ready", "unavailable"}]
  /\ caller \in [Callers -> Request]
  /\ gate \in {"open", "ending", "draining", "stopping", "closed"}
  /\ cursor \in 0..MaxConns

GatewayInit ==
  /\ ticket = [t \in Tickets |-> "unminted"]
  /\ socket = [c \in Conns |-> "none"]
  /\ admitted = [c \in Conns |-> 0]
  /\ tabId = [c \in Conns |-> NoTab]
  /\ connections = {}
  /\ tabs = {}
  /\ state = [c \in Conns |-> "connecting"]
  /\ caller = [r \in Callers |-> [phase |-> "idle", wants |-> NoTab, to |-> 0, status |-> 0]]
  /\ gate = "open"
  /\ cursor = 0

-----------------------------------------------------------------------------
(***************************************************************************)
(* Tickets.                                                                *)
(***************************************************************************)
(* http.close() is called once the sockets are gone; until then the server  *)
(* accepts requests.                                                        *)
Listening == gate \in {"open", "ending", "draining"}

(* GET /ticket, or mintUrl(). *)
Mint(t) ==
  /\ Listening /\ ticket[t] = "unminted"
  /\ ticket' = [ticket EXCEPT ![t] = "live"]
  /\ UNCHANGED <<socket, admitted, tabId, connections, tabs, state, caller, gate, cursor>>

(* Its time to live passes. *)
Age(t) ==
  /\ ticket[t] = "live"
  /\ ticket' = [ticket EXCEPT ![t] = "aged"]
  /\ UNCHANGED <<socket, admitted, tabId, connections, tabs, state, caller, gate, cursor>>

(* redeem() spends any ticket it knows, before it looks at its expiry.      *)
Redeemed(t) == IF ticket[t] = "unminted" THEN ticket ELSE [ticket EXCEPT ![t] = "spent"]

(* An upgrade whose ticket is absent, unknown, spent or expired, or that     *)
(* meets a WebSocketServer already closing: no socket opens.                *)
UpgradeRefused(t) ==
  /\ gate # "closed"
  /\ ticket[t] # "live" \/ gate \in {"draining", "stopping"}
  /\ ticket' = Redeemed(t)
  /\ UNCHANGED <<socket, admitted, tabId, connections, tabs, state, caller, gate, cursor>>

(* Connections are accepted in the order of their numbers. *)
Upgrade(t, c, i) ==
  /\ gate \in {"open", "ending"} /\ ticket[t] = "live"
  /\ socket[c] = "none" /\ \A d \in 1..(c - 1) : socket[d] # "none"
  /\ ticket' = Redeemed(t)
  /\ socket' = [socket EXCEPT ![c] = "open"]
  /\ admitted' = [admitted EXCEPT ![c] = t]
  /\ tabId' = [tabId EXCEPT ![c] = i]
  /\ connections' = connections \cup {c}
  /\ tabs' = tabs \cup {c}
  /\ UNCHANGED <<state, caller, gate, cursor>>

-----------------------------------------------------------------------------
(***************************************************************************)
(* The handshake, and the end of a socket.                                 *)
(***************************************************************************)
(* connectClient() resolves: the page answered initialize. *)
HandshakeDone(c) ==
  /\ socket[c] = "open" /\ state[c] = "connecting"
  /\ state' = [state EXCEPT ![c] = "ready"]
  /\ UNCHANGED <<ticket, socket, admitted, tabId, connections, tabs, caller, gate, cursor>>

(* It rejects, for nothing answered in time: the client closes its transport, *)
(* and the tab is unavailable until the socket's own close event.            *)
HandshakeFails(c) ==
  /\ socket[c] = "open" /\ state[c] = "connecting"
  /\ state' = [state EXCEPT ![c] = "unavailable"]
  /\ socket' = [socket EXCEPT ![c] = "closing"]
  /\ UNCHANGED <<ticket, admitted, tabId, connections, tabs, caller, gate, cursor>>

(* The client's transport reports onclose: every request pending on it is    *)
(* rejected, and its route answers 502.                                     *)
Rejected(c) ==
  [r \in Callers |-> IF caller[r].phase = "waiting" /\ caller[r].to = c
                     THEN [caller[r] EXCEPT !.phase = "answered", !.status = 502]
                     ELSE caller[r]]

(* The close event, whichever end began it. *)
SocketCloses(c) ==
  /\ socket[c] \in {"open", "closing"}
  /\ socket' = [socket EXCEPT ![c] = "closed"]
  /\ state' = [state EXCEPT ![c] = IF @ = "connecting" THEN "unavailable" ELSE @]
  /\ connections' = connections \ {c}
  /\ tabs' = tabs \ {c}
  /\ caller' = Rejected(c)
  /\ UNCHANGED <<ticket, admitted, tabId, gate, cursor>>

-----------------------------------------------------------------------------
(***************************************************************************)
(* The control surface.                                                    *)
(***************************************************************************)
Refusal(status) == [tab |-> 0, status |-> status]

(* selectTab(): exactly one tab, or a refusal, whether or not one is named.  *)
SelectTab(i) ==
  LET matches == {c \in tabs : i = NoTab \/ tabId[c] = i}
  IN  IF matches = {} THEN Refusal(IF i = NoTab THEN 409 ELSE 404)
      ELSE IF Cardinality(matches) > 1 THEN Refusal(400)
      ELSE [tab |-> CHOOSE c \in matches : TRUE, status |-> 0]

(* selectTab(), then requireReady(), then the request to the page. *)
Served(i) ==
  LET s == SelectTab(i)
      answered == [phase |-> "answered", wants |-> i, to |-> s.tab, status |-> s.status]
  IN  IF s.status # 0 THEN answered
      ELSE IF state[s.tab] # "ready" THEN [answered EXCEPT !.status = 409]
      ELSE [answered EXCEPT !.phase = "waiting"]

(* GET /tools is served as it arrives. *)
AskTools(r, i) ==
  /\ Listening /\ caller[r].phase = "idle"
  /\ caller' = [caller EXCEPT ![r] = Served(i)]
  /\ UNCHANGED <<ticket, socket, admitted, tabId, connections, tabs, state, gate, cursor>>

(* POST /call first reads its body. *)
AskCall(r, i) ==
  /\ Listening /\ caller[r].phase = "idle"
  /\ caller' = [caller EXCEPT ![r] = [@ EXCEPT !.phase = "reading", !.wants = i]]
  /\ UNCHANGED <<ticket, socket, admitted, tabId, connections, tabs, state, gate, cursor>>

BodyRead(r) ==
  /\ caller[r].phase = "reading"
  /\ caller' = [caller EXCEPT ![r] = Served(@.wants)]
  /\ UNCHANGED <<ticket, socket, admitted, tabId, connections, tabs, state, gate, cursor>>

(* The page answers, the answer is an error, or the client's own deadline    *)
(* passes.                                                                  *)
PageAnswers(r, status) ==
  /\ caller[r].phase = "waiting" /\ status \in {200, 502}
  /\ status = 200 => socket[caller[r].to] = "open"
  /\ caller' = [caller EXCEPT ![r].phase = "answered", ![r].status = status]
  /\ UNCHANGED <<ticket, socket, admitted, tabId, connections, tabs, state, gate, cursor>>

(* The response closes unfinished: a call is cancelled, and nothing is       *)
(* written to what is left of the response.                                 *)
HangUp(r) ==
  /\ caller[r].phase \in {"reading", "waiting"}
  /\ caller' = [caller EXCEPT ![r].phase = "gone"]
  /\ UNCHANGED <<ticket, socket, admitted, tabId, connections, tabs, state, gate, cursor>>

-----------------------------------------------------------------------------
(***************************************************************************)
(* Shutting down.                                                          *)
(***************************************************************************)
BeginClose ==
  /\ gate = "open"
  /\ gate' = "ending"
  /\ UNCHANGED <<ticket, socket, admitted, tabId, connections, tabs, state, caller, cursor>>

(* The tabs the loop has still to visit: a Map's walk meets what was added   *)
(* meanwhile, and not what was deleted.                                     *)
Ahead == {c \in tabs : c > cursor}

(* One turn of the loop: a tab with a client has it closed, and its pending  *)
(* requests rejected; one still connecting has none.                        *)
CloseTab ==
  /\ gate = "ending" /\ Ahead # {}
  /\ LET c == Min(Ahead) IN
       /\ cursor' = c
       /\ socket' = [socket EXCEPT ![c] = IF state[c] = "ready" THEN "closing" ELSE @]
       /\ caller' = IF state[c] = "ready" THEN Rejected(c) ELSE caller
  /\ UNCHANGED <<ticket, admitted, tabId, connections, tabs, state, gate>>

(* Faulty Terminated: a socket is left to its page. *)
TerminatedNone == socket

(* terminate() for every connection the gateway holds. *)
Terminated == [c \in Conns |-> IF c \in connections THEN "closing" ELSE socket[c]]

CloseGateway ==
  /\ gate = "ending" /\ Ahead = {}
  /\ gate' = "draining"
  /\ tabs' = {}
  /\ socket' = Terminated
  /\ connections' = {}
  /\ UNCHANGED <<ticket, admitted, tabId, state, caller, cursor>>

(* The WebSocketServer has closed once its sockets have; http.close() then   *)
(* waits for the responses still open.                                      *)
SocketsGone ==
  /\ gate = "draining" /\ \A c \in Conns : socket[c] \in {"none", "closed"}
  /\ gate' = "stopping"
  /\ UNCHANGED <<ticket, socket, admitted, tabId, connections, tabs, state, caller, cursor>>

Closed ==
  /\ gate = "stopping" /\ \A r \in Callers : caller[r].phase \notin {"reading", "waiting"}
  /\ gate' = "closed"
  /\ UNCHANGED <<ticket, socket, admitted, tabId, connections, tabs, state, caller, cursor>>

-----------------------------------------------------------------------------
GatewayNext ==
  \/ \E t \in Tickets : Mint(t) \/ Age(t) \/ UpgradeRefused(t)
  \/ \E t \in Tickets, c \in Conns, i \in Id : Upgrade(t, c, i)
  \/ \E c \in Conns : HandshakeDone(c) \/ HandshakeFails(c) \/ SocketCloses(c)
  \/ \E r \in Callers, i \in Id : AskTools(r, i) \/ AskCall(r, i)
  \/ \E r \in Callers : BodyRead(r) \/ HangUp(r)
  \/ \E r \in Callers, status \in {200, 502} : PageAnswers(r, status)
  \/ BeginClose \/ CloseTab \/ CloseGateway \/ SocketsGone \/ Closed

GatewaySpec == GatewayInit /\ [][GatewayNext]_gatewayVars

(* A socket this end has closed reports its close; a request's body ends or   *)
(* its connection does; a request to a page ends by the client's deadline if *)
(* by nothing else. Pages and callers owe nothing.                          *)
GatewayFairness ==
  /\ \A c \in Conns : WF_gatewayVars(socket[c] = "closing" /\ SocketCloses(c))
  /\ \A r \in Callers : WF_gatewayVars(BodyRead(r)) /\ WF_gatewayVars(PageAnswers(r, 502))
  /\ WF_gatewayVars(CloseTab \/ CloseGateway) /\ WF_gatewayVars(SocketsGone) /\ WF_gatewayVars(Closed)

GatewayFairSpec == GatewaySpec /\ GatewayFairness

-----------------------------------------------------------------------------
(* A ticket opens one connection: two pages that dialled the same URL, or a  *)
(* page that dials it again, never both get in (tickets.ts, redeem).         *)
AdmittedOnce ==
  \A c, d \in Conns : c # d /\ admitted[c] # 0 => admitted[c] # admitted[d]

(* Nobody is stranded: a request waits for a page only while a close event of   *)
(* that page's socket is still to come, which would reject it; once the tabs    *)
(* are closed no socket is left open to hold the server up; and a process that  *)
(* has shut down owes no response (runtime.ts, close; gateway.ts, close).      *)
NobodyIsStranded ==
  /\ \A r \in Callers :
       caller[r].phase = "waiting" => socket[caller[r].to] \in {"open", "closing"}
  /\ gate \in {"draining", "stopping", "closed"} => \A c \in Conns : socket[c] # "open"
  /\ gate = "closed" => \A r \in Callers : caller[r].phase \notin {"reading", "waiting"}

(* Nobody is kept waiting: a request is answered or given up, and a shutdown  *)
(* completes, whatever the pages do meanwhile and whoever connects while the *)
(* tabs are being closed (runtime.ts, close; gateway.ts, close).             *)
NobodyKeptWaiting ==
  /\ \A r \in Callers :
       caller[r].phase \in {"reading", "waiting"} ~> caller[r].phase \in {"answered", "gone"}
  /\ gate = "ending" ~> gate = "closed"
=============================================================================
