---------------------------- MODULE AgentProofs -----------------------------
(***************************************************************************)
(* Theorems of the agent side of the demonstrators: what the gateway keeps and *)
(* admits, and that a conversation, the model's view of it and the page's,  *)
(* leaves no call unanswered and nothing in progress once its turn is over. *)
(***************************************************************************)
EXTENDS AgentGateway, AgentChat, WellFoundedInduction, TLAPS

-----------------------------------------------------------------------------
(***************************************************************************)
(* AgentGateway, for every number of connections, tickets and callers: a   *)
(* ticket admits one connection, once.                                     *)
(***************************************************************************)
(* What was redeemed is spent, and nothing else was redeemed for the same     *)
(* connection.                                                              *)
Spent ==
  /\ ticket \in [Tickets -> {"unminted", "live", "aged", "spent"}]
  /\ admitted \in [Conns -> 0..MaxTickets]
  /\ \A c \in Conns : admitted[c] # 0 => ticket[admitted[c]] = "spent"

LEMMA TicketNumbers == Tickets = {t \in 0..MaxTickets : t # 0}
BY AgentAssumption DEF Tickets

(* A step that spends tickets and admits nobody. *)
LEMMA SpentStays ==
  ASSUME Spent, AdmittedOnce, UNCHANGED admitted,
         ticket' \in [Tickets -> {"unminted", "live", "aged", "spent"}],
         \A t \in Tickets : ticket[t] = "spent" => ticket'[t] = "spent"
  PROVE  Spent' /\ AdmittedOnce'
BY TicketNumbers DEF Spent, AdmittedOnce

LEMMA UpgradeAdmits ==
  ASSUME Spent, AdmittedOnce, NEW t \in Tickets, NEW c \in Conns, NEW i \in Id, Upgrade(t, c, i)
  PROVE  Spent' /\ AdmittedOnce'
<1>1. /\ ticket[t] = "live" /\ ticket' = [ticket EXCEPT ![t] = "spent"]
      /\ admitted' = [admitted EXCEPT ![c] = t]
  BY DEF Upgrade, Redeemed
<1>2. t \in 0..MaxTickets /\ t # 0
  BY TicketNumbers
<1>3. \A d \in Conns : admitted[d] # 0 => admitted[d] # t /\ admitted[d] \in Tickets
  BY <1>1, TicketNumbers DEF Spent
<1>4. \A d \in Conns : admitted'[d] = IF d = c THEN t ELSE admitted[d]
  BY <1>1 DEF Spent
<1>5. \A u \in Tickets : ticket'[u] = IF u = t THEN "spent" ELSE ticket[u]
  BY <1>1 DEF Spent
<1>6. /\ ticket' \in [Tickets -> {"unminted", "live", "aged", "spent"}]
      /\ admitted' \in [Conns -> 0..MaxTickets]
  BY <1>1, <1>2 DEF Spent
<1>7. \A d \in Conns : admitted'[d] # 0 => ticket'[admitted'[d]] = "spent"
  BY <1>3, <1>4, <1>5 DEF Spent
<1>8. AdmittedOnce'
  BY <1>3, <1>4 DEF AdmittedOnce
<1>9. QED
  BY <1>6, <1>7, <1>8 DEF Spent

LEMMA AdmissionStep ==
  ASSUME Spent, AdmittedOnce, [GatewayNext]_gatewayVars PROVE Spent' /\ AdmittedOnce'
<1>1. CASE UNCHANGED <<ticket, admitted>>
  BY <1>1, SpentStays DEF Spent
<1>2. ASSUME NEW t \in Tickets, Mint(t) \/ Age(t) PROVE Spent' /\ AdmittedOnce'
  <2>1. UNCHANGED admitted /\ ticket[t] # "spent"
        /\ \E s \in {"live", "aged"} : ticket' = [ticket EXCEPT ![t] = s]
    BY <1>2 DEF Mint, Age
  <2>2. QED
    BY <2>1, SpentStays DEF Spent
<1>3. ASSUME NEW t \in Tickets, UpgradeRefused(t) PROVE Spent' /\ AdmittedOnce'
  <2>1. UNCHANGED admitted /\ (ticket' = ticket \/ ticket' = [ticket EXCEPT ![t] = "spent"])
    BY <1>3 DEF UpgradeRefused, Redeemed
  <2>2. QED
    BY <2>1, SpentStays DEF Spent
<1>4. ASSUME NEW c \in Conns, HandshakeDone(c) \/ HandshakeFails(c) \/ SocketCloses(c)
      PROVE  UNCHANGED <<ticket, admitted>>
  BY <1>4 DEF HandshakeDone, HandshakeFails, SocketCloses
<1>5. ASSUME NEW r \in Callers, NEW i \in Id, NEW status \in {200, 502},
             AskTools(r, i) \/ AskCall(r, i) \/ BodyRead(r) \/ HangUp(r) \/ PageAnswers(r, status)
      PROVE  UNCHANGED <<ticket, admitted>>
  BY <1>5 DEF AskTools, AskCall, BodyRead, HangUp, PageAnswers
<1>6. ASSUME BeginClose \/ CloseTab \/ CloseGateway \/ SocketsGone \/ Closed
      PROVE  UNCHANGED <<ticket, admitted>>
  BY <1>6 DEF BeginClose, CloseTab, CloseGateway, SocketsGone, Closed
<1>7. CASE UNCHANGED gatewayVars
  BY <1>1, <1>7 DEF gatewayVars
<1>8. \E i \in Id : TRUE
  BY DEF Id
<1>9. 200 \in {200, 502}
  OBVIOUS
<1>10. QED
  BY <1>1, <1>2, <1>3, <1>4, <1>5, <1>6, <1>7, <1>8, <1>9, UpgradeAdmits DEF GatewayNext

(* However many pages dial the same URL, in whatever order and however late,  *)
(* one ticket admits one connection.                                        *)
THEOREM TicketsAdmitOnce == GatewaySpec => []AdmittedOnce
<1>1. GatewayInit => Spent /\ AdmittedOnce
  BY AgentAssumption DEF GatewayInit, Spent, AdmittedOnce
<1>2. Spent /\ AdmittedOnce /\ [GatewayNext]_gatewayVars => (Spent /\ AdmittedOnce)'
  BY AdmissionStep
<1>3. QED
  BY <1>1, <1>2, PTL DEF GatewaySpec

-----------------------------------------------------------------------------
(***************************************************************************)
(* AgentGateway: its state is well-formed, whoever dials, asks and closes.  *)
(***************************************************************************)
(* The least of some numbers is one of them. *)
LEMMA LeastOf ==
  ASSUME NEW S, S \subseteq Nat, S # {}
  PROVE  Min(S) \in S
<1> DEFINE Less == OpToRel(<, Nat)
<1>1. \A x, y \in Nat : <<y, x>> \in Less <=> y < x
  BY DEF OpToRel
<1>2. IsWellFoundedOn(Less, Nat)
  BY NatLessThanWellFounded
<1> HIDE DEF Less
<1>3. PICK x \in S : \A y \in S : ~(<<y, x>> \in Less)
  BY <1>2, WFMin
<1>4. \A y \in S : x <= y
  <2>1. \A y \in S : ~(y < x) /\ y \in Nat /\ x \in Nat
    BY <1>1, <1>3
  <2>2. QED
    BY <2>1
<1>5. QED
  BY <1>4 DEF Min

(* A request that moves on, is given a status, or names a tab. *)
Phased(q, phase) == [q EXCEPT !.phase = phase]
Marked(q, status) == [q EXCEPT !.status = status]
Naming(q, i) == [q EXCEPT !.wants = i]

LEMMA PhasedTyped ==
  ASSUME NEW q \in Request, NEW phase \in {"idle", "reading", "waiting", "answered", "gone"}
  PROVE  Phased(q, phase) \in Request
BY DEF Request, Phased

LEMMA MarkedTyped ==
  ASSUME NEW q \in Request, NEW status \in {0, 200, 400, 404, 409, 502}
  PROVE  Marked(q, status) \in Request
BY DEF Request, Marked

LEMMA NamingTyped ==
  ASSUME NEW q \in Request, NEW i \in Id
  PROVE  Naming(q, i) \in Request
BY DEF Request, Naming

(* What selectTab() finds is a tab, or a status to refuse with. *)
LEMMA SelectionTyped ==
  ASSUME GatewayTypeOK, NEW i \in Id
  PROVE  Served(i) \in Request
<1> DEFINE s == SelectTab(i)
           matches == {c \in tabs : i = NoTab \/ tabId[c] = i}
<1>1. s \in [tab : 0..MaxConns, status : {0, 400, 404, 409}]
  <2>1. 0 \in 0..MaxConns
    BY AgentAssumption
  <2>2. \A status \in {400, 404, 409} : Refusal(status) \in [tab : 0..MaxConns, status : {0, 400, 404, 409}]
    BY <2>1 DEF Refusal
  <2>3. CASE matches = {} \/ Cardinality(matches) > 1
    BY <2>2, <2>3 DEF SelectTab
  <2>4. CASE matches # {} /\ ~(Cardinality(matches) > 1)
    <3>1. s = [tab |-> CHOOSE c \in matches : TRUE, status |-> 0]
      BY <2>4 DEF SelectTab
    <3>2. (CHOOSE c \in matches : TRUE) \in matches
      BY <2>4
    <3>3. matches \subseteq 0..MaxConns
      <4>1. matches \subseteq tabs /\ tabs \subseteq 1..MaxConns
        BY DEF GatewayTypeOK, Conns
      <4>2. 1..MaxConns \subseteq 0..MaxConns
        BY AgentAssumption
      <4>3. QED
        BY <4>1, <4>2
    <3> HIDE DEF matches, s
    <3>4. QED
      BY <3>1, <3>2, <3>3
  <2>5. QED
    BY <2>3, <2>4
<1> DEFINE answered == [phase |-> "answered", wants |-> i, to |-> s.tab, status |-> s.status]
<1>2. Served(i) = IF s.status # 0 THEN answered
                  ELSE IF state[s.tab] # "ready" THEN [answered EXCEPT !.status = 409]
                  ELSE [answered EXCEPT !.phase = "waiting"]
  BY DEF Served
<1> HIDE DEF s
<1>3. answered \in Request
  BY <1>1 DEF Request
<1>4. [answered EXCEPT !.status = 409] \in Request /\ [answered EXCEPT !.phase = "waiting"] \in Request
  <2> HIDE DEF answered
  <2>1. QED
    BY <1>3 DEF Request
<1> HIDE DEF answered
<1>5. QED
  BY <1>2, <1>3, <1>4

LEMMA RejectedTyped ==
  ASSUME GatewayTypeOK, NEW c
  PROVE  Rejected(c) \in [Callers -> Request]
<1>1. ASSUME NEW r \in Callers PROVE Marked(Phased(caller[r], "answered"), 502) \in Request
  <2>1. caller[r] \in Request
    BY DEF GatewayTypeOK
  <2>2. Phased(caller[r], "answered") \in Request
    BY <2>1, PhasedTyped
  <2>3. QED
    BY <2>2, MarkedTyped
<1>2. Rejected(c) = [r \in Callers |-> IF caller[r].phase = "waiting" /\ caller[r].to = c
                                     THEN Marked(Phased(caller[r], "answered"), 502)
                                     ELSE caller[r]]
  BY DEF Rejected, Marked, Phased
<1>3. QED
  BY <1>1, <1>2 DEF GatewayTypeOK

LEMMA GatewayTypeStep == ASSUME GatewayTypeOK, [GatewayNext]_gatewayVars PROVE GatewayTypeOK'
<1>0. \A r \in Callers : caller[r] \in Request
  BY DEF GatewayTypeOK
<1>1. ASSUME NEW t \in Tickets, Mint(t) \/ Age(t) \/ UpgradeRefused(t) PROVE GatewayTypeOK'
  BY <1>1 DEF Mint, Age, UpgradeRefused, Redeemed, GatewayTypeOK
<1>2. ASSUME NEW t \in Tickets, NEW c \in Conns, NEW i \in Id, Upgrade(t, c, i) PROVE GatewayTypeOK'
  <2>1. t \in 0..MaxTickets
    BY AgentAssumption DEF Tickets
  <2>2. ticket' \in [Tickets -> {"unminted", "live", "aged", "spent"}]
    BY <1>2 DEF Upgrade, Redeemed, GatewayTypeOK
  <2>3. /\ socket' \in [Conns -> {"none", "open", "closing", "closed"}]
        /\ admitted' \in [Conns -> 0..MaxTickets] /\ tabId' \in [Conns -> Id]
    BY <1>2, <2>1 DEF Upgrade, GatewayTypeOK
  <2>4. QED
    BY <1>2, <2>2, <2>3 DEF Upgrade, GatewayTypeOK
<1>3. ASSUME NEW c \in Conns, HandshakeDone(c) \/ HandshakeFails(c) PROVE GatewayTypeOK'
  BY <1>3 DEF HandshakeDone, HandshakeFails, GatewayTypeOK
<1>4. ASSUME NEW c \in Conns, SocketCloses(c) PROVE GatewayTypeOK'
  <2>1. /\ socket' \in [Conns -> {"none", "open", "closing", "closed"}]
        /\ state' \in [Conns -> {"connecting", "ready", "unavailable"}]
    BY <1>4 DEF SocketCloses, GatewayTypeOK
  <2>2. caller' \in [Callers -> Request]
    BY <1>4, RejectedTyped DEF SocketCloses
  <2>3. QED
    BY <1>4, <2>1, <2>2 DEF SocketCloses, GatewayTypeOK
<1>5. ASSUME NEW r \in Callers, NEW q \in Request, caller' = [caller EXCEPT ![r] = q],
             UNCHANGED <<ticket, socket, admitted, tabId, connections, tabs, state, gate, cursor>>
      PROVE  GatewayTypeOK'
  BY <1>5 DEF GatewayTypeOK
<1>6. ASSUME NEW r \in Callers, NEW i \in Id, AskTools(r, i) PROVE GatewayTypeOK'
  BY <1>5, <1>6, SelectionTyped DEF AskTools
<1>7. ASSUME NEW r \in Callers, NEW i \in Id, AskCall(r, i) PROVE GatewayTypeOK'
  <2>1. caller' = [caller EXCEPT ![r] = [@ EXCEPT !.phase = "reading", !.wants = i]]
    BY <1>7 DEF AskCall
  <2>2. caller' = [caller EXCEPT ![r] = Naming(Phased(caller[r], "reading"), i)]
    BY <2>1 DEF Naming, Phased
  <2>3. Phased(caller[r], "reading") \in Request
    BY <1>0, PhasedTyped
  <2>4. Naming(Phased(caller[r], "reading"), i) \in Request
    BY <2>3, NamingTyped
  <2>5. UNCHANGED <<ticket, socket, admitted, tabId, connections, tabs, state, gate, cursor>>
    BY <1>7 DEF AskCall
  <2>6. QED
    BY <1>5, <2>2, <2>4, <2>5
<1>8. ASSUME NEW r \in Callers, BodyRead(r) PROVE GatewayTypeOK'
  <2>1. caller[r].wants \in Id
    BY DEF GatewayTypeOK, Request
  <2>2. QED
    BY <1>5, <1>8, <2>1, SelectionTyped DEF BodyRead
<1>9. ASSUME NEW r \in Callers, NEW status \in {200, 502}, PageAnswers(r, status) PROVE GatewayTypeOK'
  <2> DEFINE answering == [caller EXCEPT ![r] = Phased(caller[r], "answered")]
  <2>1. caller' = [caller EXCEPT ![r].phase = "answered", ![r].status = status]
    BY <1>9 DEF PageAnswers
  <2>2. caller' = [answering EXCEPT ![r] = Marked(answering[r], status)]
    BY <2>1 DEF Marked, Phased
  <2>3. answering \in [Callers -> Request]
    BY <1>0, PhasedTyped DEF GatewayTypeOK
  <2> HIDE DEF answering
  <2>4. Marked(answering[r], status) \in Request
    BY <2>3, MarkedTyped
  <2>5. caller' \in [Callers -> Request]
    BY <2>2, <2>3, <2>4
  <2>6. UNCHANGED <<ticket, socket, admitted, tabId, connections, tabs, state, gate, cursor>>
    BY <1>9 DEF PageAnswers
  <2>7. QED
    BY <2>5, <2>6 DEF GatewayTypeOK
<1>10. ASSUME NEW r \in Callers, HangUp(r) PROVE GatewayTypeOK'
  <2>1. Phased(caller[r], "gone") \in Request
    BY <1>0, PhasedTyped
  <2>2. caller' = [caller EXCEPT ![r] = Phased(caller[r], "gone")]
    BY <1>10 DEF HangUp, Phased
  <2>3. UNCHANGED <<ticket, socket, admitted, tabId, connections, tabs, state, gate, cursor>>
    BY <1>10 DEF HangUp
  <2>4. QED
    BY <1>5, <2>1, <2>2, <2>3
<1>11. ASSUME BeginClose \/ SocketsGone \/ Closed PROVE GatewayTypeOK'
  BY <1>11 DEF BeginClose, SocketsGone, Closed, GatewayTypeOK
<1>12. ASSUME CloseTab PROVE GatewayTypeOK'
  <2> DEFINE c == Min(Ahead)
  <2>1. Ahead \subseteq 0..MaxConns /\ Ahead # {}
    <3>1. Ahead # {}
      BY <1>12 DEF CloseTab
    <3>2. tabs \subseteq 1..MaxConns
      BY DEF GatewayTypeOK, Conns
    <3>3. Ahead \subseteq tabs
      BY DEF Ahead
    <3>4. 1..MaxConns \subseteq 0..MaxConns
      BY AgentAssumption
    <3>5. QED
      BY <3>1, <3>2, <3>3, <3>4
  <2>2. Min(Ahead) \in Ahead
    <3>1. Ahead \subseteq Nat
      BY <2>1
    <3>2. QED
      BY <2>1, <3>1, LeastOf
  <2>3. c \in 0..MaxConns
    BY <2>1, <2>2
  <2>4. /\ cursor' = c
        /\ socket' = [socket EXCEPT ![c] = IF state[c] = "ready" THEN "closing" ELSE @]
        /\ caller' = caller \/ caller' = Rejected(c)
        /\ UNCHANGED <<ticket, admitted, tabId, connections, tabs, state, gate>>
    BY <1>12 DEF CloseTab
  <2> HIDE DEF c
  <2>5. /\ socket' \in [Conns -> {"none", "open", "closing", "closed"}]
        /\ caller' \in [Callers -> Request]
    BY <2>4, RejectedTyped DEF GatewayTypeOK
  <2>6. QED
    BY <2>3, <2>4, <2>5 DEF GatewayTypeOK
<1>13. ASSUME CloseGateway PROVE GatewayTypeOK'
  BY <1>13 DEF CloseGateway, Terminated, GatewayTypeOK
<1>14. CASE UNCHANGED gatewayVars
  BY <1>14 DEF gatewayVars, GatewayTypeOK
<1>15. QED
  BY <1>1, <1>2, <1>3, <1>4, <1>6, <1>7, <1>8, <1>9, <1>10, <1>11, <1>12, <1>13, <1>14 DEF GatewayNext

(* Tickets, sockets, tabs and requests stay what their types say, whoever dials *)
(* and asks while the process is shut down (gateway.ts, runtime.ts).           *)
THEOREM AgentGatewayTyped == GatewaySpec => []GatewayTypeOK
<1>1. GatewayInit => GatewayTypeOK
  BY AgentAssumption DEF GatewayInit, GatewayTypeOK, Request, Id
<1>2. GatewayTypeOK /\ [GatewayNext]_gatewayVars => GatewayTypeOK'
  BY GatewayTypeStep
<1>3. QED
  BY <1>1, <1>2, PTL DEF GatewaySpec

-----------------------------------------------------------------------------
(***************************************************************************)
(* AgentGateway: nobody is stranded.                                       *)
(***************************************************************************)
Alive(c) == socket[c] \in {"open", "closing"}

(* The gateway holds whatever is open; what it holds has a close event to     *)
(* come; and whoever waits, waits for a page that has one to come.           *)
StrandInv ==
  /\ \A c \in Conns : socket[c] = "open" => c \in connections
  /\ \A c \in connections \cup tabs : Alive(c)
  /\ \A r \in Callers : caller[r].phase = "waiting" => caller[r].to \in Conns /\ Alive(caller[r].to)
  /\ gate \in {"draining", "stopping", "closed"} =>
       tabs = {} /\ \A c \in Conns : socket[c] # "open"
  /\ gate = "closed" => \A r \in Callers : caller[r].phase \notin {"reading", "waiting"}

(* A request is forwarded to a tab the gateway holds. *)
LEMMA ForwardedToTab ==
  ASSUME NEW i, Served(i).phase = "waiting"
  PROVE  Served(i).to \in tabs
<1> DEFINE s == SelectTab(i)
           matches == {c \in tabs : i = NoTab \/ tabId[c] = i}
           answered == [phase |-> "answered", wants |-> i, to |-> s.tab, status |-> s.status]
<1>1. Served(i) = IF s.status # 0 THEN answered
                  ELSE IF state[s.tab] # "ready" THEN [answered EXCEPT !.status = 409]
                  ELSE [answered EXCEPT !.phase = "waiting"]
  BY DEF Served
<1>2. s = IF matches = {} THEN Refusal(IF i = NoTab THEN 409 ELSE 404)
          ELSE IF Cardinality(matches) > 1 THEN Refusal(400)
          ELSE [tab |-> CHOOSE c \in matches : TRUE, status |-> 0]
  BY DEF SelectTab
<1> HIDE DEF s, matches
<1>3. s.status = 0 /\ Served(i).to = s.tab
  BY <1>1
<1>4. matches # {} /\ s.tab = CHOOSE c \in matches : TRUE
  BY <1>2, <1>3 DEF Refusal
<1>5. s.tab \in matches
  BY <1>4
<1>6. QED
  BY <1>3, <1>5 DEF matches

(* Sockets that only go down: nothing of what waits is disturbed while the     *)
(* sockets, the tabs and the gate stay.                                     *)
LEMMA CallersMove ==
  ASSUME GatewayTypeOK, StrandInv, gate # "closed",
         UNCHANGED <<socket, connections, tabs, gate>>,
         \A r \in Callers : caller'[r].phase = "waiting" =>
            \/ caller[r].phase = "waiting" /\ caller'[r].to = caller[r].to
            \/ caller'[r].to \in tabs
  PROVE  StrandInv'
<1>1. tabs \subseteq Conns
  BY DEF GatewayTypeOK
<1>2. \A c : Alive(c)' = Alive(c)
  BY DEF Alive
<1>3. \A r \in Callers : caller'[r].phase = "waiting" => caller'[r].to \in Conns /\ Alive(caller'[r].to)
  BY <1>1 DEF StrandInv
<1>4. QED
  BY <1>2, <1>3 DEF StrandInv, Alive

LEMMA StrandStep ==
  ASSUME GatewayTypeOK, StrandInv, [GatewayNext]_gatewayVars
  PROVE  StrandInv'
<1>0. /\ socket \in [Conns -> {"none", "open", "closing", "closed"}]
      /\ caller \in [Callers -> Request] /\ tabs \subseteq Conns /\ connections \subseteq Conns
  BY DEF GatewayTypeOK
<1>1. ASSUME UNCHANGED <<socket, connections, tabs, caller, gate>> PROVE StrandInv'
  BY <1>1 DEF StrandInv, Alive
<1>2. ASSUME NEW t \in Tickets, Mint(t) \/ Age(t) \/ UpgradeRefused(t) PROVE StrandInv'
  BY <1>1, <1>2 DEF Mint, Age, UpgradeRefused
<1>3. ASSUME NEW t \in Tickets, NEW c \in Conns, NEW i \in Id, Upgrade(t, c, i) PROVE StrandInv'
  <2>1. /\ gate \in {"open", "ending"} /\ socket[c] = "none"
        /\ socket' = [socket EXCEPT ![c] = "open"]
        /\ connections' = connections \cup {c} /\ tabs' = tabs \cup {c}
        /\ UNCHANGED <<caller, gate>>
    BY <1>3 DEF Upgrade
  <2>2. socket'[c] = "open" /\ \A d \in Conns : d # c => socket'[d] = socket[d]
    BY <1>0, <2>1
  <2>3. QED
    BY <1>0, <2>1, <2>2 DEF StrandInv, Alive
<1>4. ASSUME NEW c \in Conns, HandshakeDone(c) PROVE StrandInv'
  BY <1>1, <1>4 DEF HandshakeDone
<1>5. ASSUME NEW c \in Conns, HandshakeFails(c) PROVE StrandInv'
  <2>1. /\ socket[c] = "open" /\ socket' = [socket EXCEPT ![c] = "closing"]
        /\ UNCHANGED <<connections, tabs, caller, gate>>
    BY <1>5 DEF HandshakeFails
  <2>2. socket'[c] = "closing" /\ \A d \in Conns : d # c => socket'[d] = socket[d]
    BY <1>0, <2>1
  <2>3. QED
    BY <1>0, <2>1, <2>2 DEF StrandInv, Alive
<1>6. ASSUME NEW c \in Conns, SocketCloses(c) PROVE StrandInv'
  <2>1. /\ socket' = [socket EXCEPT ![c] = "closed"]
        /\ connections' = connections \ {c} /\ tabs' = tabs \ {c}
        /\ caller' = Rejected(c) /\ UNCHANGED gate
    BY <1>6 DEF SocketCloses
  <2>2. socket'[c] = "closed" /\ \A d \in Conns : d # c => socket'[d] = socket[d]
    BY <1>0, <2>1
  <2>3. ASSUME NEW r \in Callers
        PROVE  /\ caller'[r].phase = "waiting" => caller'[r] = caller[r] /\ caller[r].to # c
               /\ caller'[r].phase \in {caller[r].phase, "answered"}
    <3>1. caller'[r] = IF caller[r].phase = "waiting" /\ caller[r].to = c
                       THEN [caller[r] EXCEPT !.phase = "answered", !.status = 502]
                       ELSE caller[r]
      BY <2>1 DEF Rejected
    <3>2. caller[r] \in Request
      BY <1>0
    <3>3. [caller[r] EXCEPT !.phase = "answered", !.status = 502].phase = "answered"
      BY <3>2 DEF Request
    <3>4. QED
      BY <3>1, <3>3
  <2>4. QED
    BY <1>0, <2>1, <2>2, <2>3 DEF StrandInv, Alive
<1>7. ASSUME NEW r \in Callers, NEW i \in Id, AskTools(r, i) PROVE StrandInv'
  <2>1. caller' = [caller EXCEPT ![r] = Served(i)] /\ gate # "closed"
        /\ UNCHANGED <<socket, connections, tabs, gate>>
    BY <1>7 DEF AskTools, Listening
  <2>2. \A q \in Callers : caller'[q] = IF q = r THEN Served(i) ELSE caller[q]
    BY <1>0, <2>1
  <2>3. Served(i).phase = "waiting" => Served(i).to \in tabs
    BY ForwardedToTab
  <2>4. QED
    BY <2>1, <2>2, <2>3, CallersMove
<1>8. ASSUME NEW r \in Callers, NEW i \in Id, AskCall(r, i) PROVE StrandInv'
  <2>1. caller' = [caller EXCEPT ![r] = [@ EXCEPT !.phase = "reading", !.wants = i]]
        /\ gate # "closed" /\ UNCHANGED <<socket, connections, tabs, gate>>
    BY <1>8 DEF AskCall, Listening
  <2>2. \A q \in Callers : caller'[q] = IF q = r THEN [caller[r] EXCEPT !.phase = "reading", !.wants = i]
                                        ELSE caller[q]
    BY <1>0, <2>1
  <2>3. [caller[r] EXCEPT !.phase = "reading", !.wants = i].phase = "reading"
    BY <1>0 DEF Request
  <2>4. QED
    BY <2>1, <2>2, <2>3, CallersMove
<1>9. ASSUME NEW r \in Callers, BodyRead(r) PROVE StrandInv'
  <2>1. caller[r].phase = "reading" /\ caller' = [caller EXCEPT ![r] = Served(caller[r].wants)]
        /\ UNCHANGED <<socket, connections, tabs, gate>>
    BY <1>9 DEF BodyRead
  <2>2. gate # "closed"
    BY <2>1 DEF StrandInv
  <2>3. \A q \in Callers : caller'[q] = IF q = r THEN Served(caller[r].wants) ELSE caller[q]
    BY <1>0, <2>1
  <2>4. Served(caller[r].wants).phase = "waiting" => Served(caller[r].wants).to \in tabs
    BY ForwardedToTab
  <2>5. QED
    BY <2>1, <2>2, <2>3, <2>4, CallersMove
<1>10. ASSUME NEW r \in Callers, HangUp(r) PROVE StrandInv'
  <2>1. caller[r].phase \in {"reading", "waiting"} /\ UNCHANGED <<socket, connections, tabs, gate>>
        /\ caller' = [caller EXCEPT ![r] = Phased(caller[r], "gone")]
    BY <1>10 DEF HangUp, Phased
  <2>2. gate # "closed"
    BY <2>1 DEF StrandInv
  <2>3. \A q \in Callers : caller'[q] = IF q = r THEN Phased(caller[r], "gone") ELSE caller[q]
    BY <1>0, <2>1
  <2>4. Phased(caller[r], "gone").phase = "gone"
    BY <1>0 DEF Phased, Request
  <2>5. QED
    BY <2>1, <2>2, <2>3, <2>4, CallersMove
<1>11. ASSUME NEW r \in Callers, NEW status \in {200, 502}, PageAnswers(r, status) PROVE StrandInv'
  <2> DEFINE answering == [caller EXCEPT ![r] = Phased(caller[r], "answered")]
  <2>1. /\ caller[r].phase = "waiting" /\ UNCHANGED <<socket, connections, tabs, gate>>
        /\ caller' = [caller EXCEPT ![r].phase = "answered", ![r].status = status]
    BY <1>11 DEF PageAnswers
  <2>2. gate # "closed"
    BY <2>1 DEF StrandInv
  <2>3. caller' = [answering EXCEPT ![r] = Marked(answering[r], status)]
    BY <2>1 DEF Marked, Phased
  <2>4. /\ answering \in [Callers -> Request]
        /\ answering[r] = Phased(caller[r], "answered")
        /\ \A q \in Callers : q # r => answering[q] = caller[q]
    BY <1>0, PhasedTyped
  <2> HIDE DEF answering
  <2>5. Phased(caller[r], "answered").phase = "answered"
    BY <1>0 DEF Phased, Request
  <2>6. Marked(answering[r], status).phase = answering[r].phase
    BY <2>4 DEF Marked, Request
  <2>7. \A q \in Callers : caller'[q] = IF q = r THEN Marked(answering[r], status) ELSE answering[q]
    BY <2>3, <2>4
  <2>8. \A q \in Callers : caller'[q].phase = "waiting" => caller'[q] = caller[q]
    BY <2>4, <2>5, <2>6, <2>7
  <2>9. QED
    BY <2>1, <2>2, <2>8, CallersMove
<1>12. ASSUME BeginClose PROVE StrandInv'
  BY <1>12 DEF BeginClose, StrandInv, Alive
<1>13. ASSUME CloseTab PROVE StrandInv'
  <2> DEFINE c == Min(Ahead)
  <2>1. Ahead \subseteq tabs /\ Ahead # {} /\ Ahead \subseteq Nat
    <3>1. Ahead \subseteq tabs /\ Ahead # {}
      BY <1>13 DEF CloseTab, Ahead
    <3>2. tabs \subseteq Nat
      BY <1>0, AgentAssumption DEF Conns
    <3>3. QED
      BY <3>1, <3>2
  <2>2. c \in tabs
    BY <2>1, LeastOf
  <2>3. /\ gate = "ending" /\ UNCHANGED <<connections, tabs, gate>>
        /\ socket' = [socket EXCEPT ![c] = IF state[c] = "ready" THEN "closing" ELSE @]
        /\ caller' = caller \/ caller' = Rejected(c)
    BY <1>13 DEF CloseTab
  <2> HIDE DEF c
  <2>4. /\ socket'[c] \in {"closing", socket[c]} /\ Alive(c)
        /\ \A d \in Conns : d # c => socket'[d] = socket[d]
    BY <1>0, <2>2, <2>3 DEF StrandInv
  <2>5. \A d \in Conns : Alive(d) => Alive(d)'
    BY <2>4 DEF Alive
  <2>6. \A d \in Conns : socket'[d] = "open" => socket[d] = "open"
    BY <2>4
  <2>7. ASSUME NEW r \in Callers, caller'[r].phase = "waiting" PROVE caller'[r] = caller[r]
    <3>1. CASE caller' = caller
      BY <3>1
    <3>2. CASE caller' = Rejected(c)
      <4>1. caller'[r] = IF caller[r].phase = "waiting" /\ caller[r].to = c
                         THEN [caller[r] EXCEPT !.phase = "answered", !.status = 502]
                         ELSE caller[r]
        BY <3>2 DEF Rejected
      <4>2. [caller[r] EXCEPT !.phase = "answered", !.status = 502].phase = "answered"
        BY <1>0 DEF Request
      <4>3. QED
        BY <2>7, <4>1, <4>2
    <3>3. QED
      BY <2>3, <3>1, <3>2
  <2>8. ASSUME NEW r \in Callers, caller'[r].phase = "waiting"
        PROVE  caller'[r].to \in Conns /\ socket'[caller'[r].to] \in {"open", "closing"}
    <3>1. caller'[r] = caller[r] /\ caller[r].to \in Conns /\ Alive(caller[r].to)
      BY <2>7, <2>8 DEF StrandInv
    <3>2. QED
      BY <2>5, <3>1 DEF Alive
  <2>9. /\ \A d \in Conns : socket'[d] = "open" => d \in connections'
        /\ \A d \in connections' \cup tabs' : socket'[d] \in {"open", "closing"}
    <3>1. \A d \in connections \cup tabs : d \in Conns /\ Alive(d)
      BY <1>0 DEF StrandInv
    <3>2. QED
      BY <2>3, <2>5, <2>6, <3>1 DEF StrandInv, Alive
  <2>10. QED
    BY <2>3, <2>8, <2>9 DEF StrandInv, Alive
<1>14. ASSUME CloseGateway PROVE StrandInv'
  <2>1. gate' = "draining" /\ tabs' = {} /\ connections' = {} /\ UNCHANGED caller
        /\ \A c \in Conns : socket'[c] = IF c \in connections THEN "closing" ELSE socket[c]
    BY <1>14 DEF CloseGateway, Terminated
  <2>2. \A c \in Conns : socket'[c] # "open" /\ (Alive(c) => socket'[c] \in {"open", "closing"})
    BY <2>1 DEF StrandInv, Alive
  <2>3. QED
    BY <2>1, <2>2 DEF StrandInv, Alive
<1>15. ASSUME SocketsGone PROVE StrandInv'
  <2>1. gate = "draining" /\ gate' = "stopping" /\ UNCHANGED <<socket, connections, tabs, caller>>
    BY <1>15 DEF SocketsGone
  <2>2. QED
    BY <2>1 DEF StrandInv, Alive
<1>16. ASSUME Closed PROVE StrandInv'
  <2>1. /\ gate = "stopping" /\ gate' = "closed" /\ UNCHANGED <<socket, connections, tabs, caller>>
        /\ \A r \in Callers : caller[r].phase \notin {"reading", "waiting"}
    BY <1>16 DEF Closed
  <2>2. QED
    BY <2>1 DEF StrandInv, Alive
<1>17. CASE UNCHANGED gatewayVars
  BY <1>1, <1>17 DEF gatewayVars
<1>18. QED
  BY <1>2, <1>3, <1>4, <1>5, <1>6, <1>7, <1>8, <1>9, <1>10, <1>11, <1>12, <1>13, <1>14, <1>15,
     <1>16, <1>17 DEF GatewayNext

(* No request is left waiting for a page that cannot answer any more, and no   *)
(* socket is left to hold a shutdown up, whoever connects while the tabs are   *)
(* being closed (runtime.ts, close): the safety half of NobodyKeptWaiting.    *)
THEOREM NobodyStranded == GatewaySpec => []NobodyIsStranded
<1>1. GatewayInit => StrandInv
  BY DEF GatewayInit, StrandInv, Alive
<1>2. GatewayTypeOK /\ StrandInv /\ [GatewayNext]_gatewayVars => StrandInv'
  BY StrandStep
<1>3. StrandInv => NobodyIsStranded
  BY DEF StrandInv, NobodyIsStranded, Alive
<1>4. QED
  BY <1>1, <1>2, <1>3, AgentGatewayTyped, PTL DEF GatewaySpec

-----------------------------------------------------------------------------
(***************************************************************************)
(* AgentChat, for every number of pages, turns, rounds and calls, whatever   *)
(* tools the page has and loses: the model's calls are all answered.        *)
(***************************************************************************)
Said ==
  [role : {"user"}, of : Turns] \cup [role : {"assistant"}, of : Seq(Range(ApiName))]
    \cup [role : {"results"}, of : Seq([call : Nat, known : BOOLEAN])]

Phases ==
  {"free", "posted", "refused", "listing", "answering", "listed", "asking", "calling", "waiting", "over"}

TurnRecord ==
  [phase : Phases, round : 0..MaxRounds, got : SUBSET Names, shown : SUBSET Names,
   messages : Seq(Said), calls : Seq(Range(ApiName)), results : Seq([call : Nat, known : BOOLEAN])]

(* While a reply's calls are worked on, the reply is the last thing said, and *)
(* the results so far are those of its first calls, in their order.         *)
MidRound(t) ==
  /\ \E before \in Seq(Said) :
       ResultsFollow(before) /\ t.messages = Append(before, Message("assistant", t.calls))
  /\ Len(t.results) <= Len(t.calls) /\ (t.phase = "waiting" => Len(t.results) < Len(t.calls))
  /\ \A k \in DOMAIN t.results : t.results[k].call = k

TurnWell(t) ==
  /\ t \in TurnRecord /\ Len(t.calls) <= CallsPerReply
  /\ t.phase = "listed" => t.got \in Range(Serves)
  /\ t.phase \in {"listing", "answering", "listed", "asking"} =>
       ResultsFollow(t.messages) /\ t.results = <<>>
  /\ t.phase \in {"calling", "waiting"} => MidRound(t)

TalkInv ==
  /\ conversation \in Seq(Said) /\ ResultsFollow(conversation)
  /\ turn \in [Turns -> TurnRecord]
  /\ \A s \in Turns : TurnWell(turn[s])

(* What the connection and the page's side hold.                            *)
Frames == {<<"changed">>} \cup {"tools"} \X Turns \X Range(Serves)

LinkInv ==
  /\ at \in DOMAIN Serves /\ advertised \in Range(Serves) /\ linked \in BOOLEAN
  /\ wire \in Seq(Frames)
  /\ held \in Seq(Range(Serves)) /\ Len(held) <= 1 /\ stale \in BOOLEAN
  /\ busy \in [Pages -> 0..MaxTurns]
  /\ clearing \in [Pages -> {"idle", "sent", "forgotten", "settled"}]
  /\ wiped \subseteq Pages

LEMMA ToolSets == Range(Serves) \subseteq SUBSET Names /\ \A n \in DOMAIN Serves : Serves[n] \in Range(Serves)
BY ChatAssumption DEF Range

(* Anything but a reply with calls may be said next.                        *)
LEMMA SayOne ==
  ASSUME NEW m \in Seq(Said), ResultsFollow(m), NEW x \in Said,
         x.role = "assistant" => x.of = <<>>
  PROVE  Append(m, x) \in Seq(Said) /\ ResultsFollow(Append(m, x))
<1> DEFINE n == Append(m, x)
<1>1. n \in Seq(Said) /\ Len(n) = Len(m) + 1 /\ n[Len(m) + 1] = x
      /\ \A i \in 1..Len(m) : n[i] = m[i]
  OBVIOUS
<1>2. ASSUME NEW i \in DOMAIN n, n[i].role = "assistant", n[i].of # <<>>
      PROVE  /\ i < Len(n) /\ n[i + 1].role = "results"
             /\ [k \in DOMAIN n[i + 1].of |-> n[i + 1].of[k].call] = [k \in DOMAIN n[i].of |-> k]
  <2>1. i \in 1..Len(m) /\ i \in DOMAIN m
    BY <1>1, <1>2
  <2>2. m[i].role = "assistant" /\ m[i].of # <<>>
    BY <1>1, <1>2, <2>1
  <2>3. i < Len(m) /\ i + 1 \in 1..Len(m) /\ m[i + 1].role = "results"
        /\ [k \in DOMAIN m[i + 1].of |-> m[i + 1].of[k].call] = [k \in DOMAIN m[i].of |-> k]
    BY <2>1, <2>2 DEF ResultsFollow
  <2>4. n[i] = m[i] /\ n[i + 1] = m[i + 1]
    BY <1>1, <2>1, <2>3
  <2>5. i < Len(n)
    BY <1>1, <2>1, <2>3
  <2>6. QED
    BY <2>3, <2>4, <2>5
<1>3. ResultsFollow(n)
  BY <1>2 DEF ResultsFollow
<1>4. QED
  BY <1>1, <1>3

(* A reply with calls and the results of all of them may be said together.   *)
LEMMA SayRound ==
  ASSUME NEW m \in Seq(Said), ResultsFollow(m),
         NEW calls \in Seq(Range(ApiName)), NEW results \in Seq([call : Nat, known : BOOLEAN]),
         Len(results) = Len(calls), \A k \in DOMAIN results : results[k].call = k
  PROVE  LET n == Append(Append(m, Message("assistant", calls)), Message("results", results))
         IN  n \in Seq(Said) /\ ResultsFollow(n)
<1> DEFINE a == Message("assistant", calls)
           r == Message("results", results)
           n == Append(Append(m, a), r)
<1>1. a \in Said /\ r \in Said /\ a.of = calls /\ r.of = results /\ r.role = "results"
  BY DEF Said, Message
<1>2. /\ n \in Seq(Said) /\ Len(n) = Len(m) + 2 /\ n[Len(m) + 1] = a /\ n[Len(m) + 2] = r
      /\ \A i \in 1..Len(m) : n[i] = m[i]
  <2> HIDE DEF a, r
  <2> QED
    BY <1>1
<1>3. [k \in DOMAIN results |-> results[k].call] = [k \in DOMAIN calls |-> k]
  OBVIOUS
<1>4. ASSUME NEW i \in DOMAIN n, n[i].role = "assistant", n[i].of # <<>>
      PROVE  /\ i < Len(n) /\ n[i + 1].role = "results"
             /\ [k \in DOMAIN n[i + 1].of |-> n[i + 1].of[k].call] = [k \in DOMAIN n[i].of |-> k]
  <2> HIDE DEF a, r, n
  <2>1. i \in 1..(Len(m) + 2) /\ i # Len(m) + 2
    BY <1>1, <1>2, <1>4
  <2>2. CASE i = Len(m) + 1
    <3>1. n[i] = a /\ n[i + 1] = r /\ i < Len(n)
      BY <1>2, <2>2
    <3>2. QED
      BY <1>1, <1>3, <3>1
  <2>3. CASE i \in 1..Len(m)
    <3>1. m[i].role = "assistant" /\ m[i].of # <<>> /\ i \in DOMAIN m
      BY <1>2, <1>4, <2>3
    <3>2. i < Len(m) /\ i + 1 \in 1..Len(m) /\ m[i + 1].role = "results"
          /\ [k \in DOMAIN m[i + 1].of |-> m[i + 1].of[k].call] = [k \in DOMAIN m[i].of |-> k]
      BY <2>3, <3>1 DEF ResultsFollow
    <3>3. n[i] = m[i] /\ n[i + 1] = m[i + 1] /\ i < Len(n)
      BY <1>2, <2>3, <3>2
    <3>4. QED
      BY <3>2, <3>3
  <2>4. QED
    BY <2>1, <2>2, <2>3
<1>5. ResultsFollow(n)
  BY <1>4 DEF ResultsFollow
<1>6. QED
  BY <1>2, <1>5

-----------------------------------------------------------------------------
(* One turn moves on; the session's messages stay or are replaced.          *)
LEMMA OneTurnMoves ==
  ASSUME TalkInv, NEW s \in Turns, NEW t, TurnWell(t), turn' = [turn EXCEPT ![s] = t],
         conversation' \in Seq(Said), ResultsFollow(conversation')
  PROVE  TalkInv'
<1>1. t \in TurnRecord /\ turn' \in [Turns -> TurnRecord]
  BY DEF TalkInv, TurnWell
<1>2. \A r \in Turns : turn'[r] = IF r = s THEN t ELSE turn[r]
  BY DEF TalkInv
<1>3. \A r \in Turns : TurnWell(turn'[r])
  BY <1>2 DEF TalkInv
<1>4. QED
  BY <1>1, <1>3 DEF TalkInv

LEMMA BareTurnIsWell ==
  ASSUME NEW phase \in {"free", "posted", "refused", "over", "listing", "asking"},
         NEW set \in SUBSET Names, NEW messages \in Seq(Said), ResultsFollow(messages),
         NEW round \in 0..MaxRounds
  PROVE  TurnWell(TurnAt(phase, round, messages, set))
<1> DEFINE t == TurnAt(phase, round, messages, set)
<1>1. t = [phase |-> phase, round |-> round, got |-> {}, shown |-> set,
           messages |-> messages, calls |-> <<>>, results |-> <<>>]
  BY DEF TurnAt
<1>2. phase \in Phases
      /\ <<>> \in Seq(Range(ApiName)) /\ <<>> \in Seq([call : Nat, known : BOOLEAN])
  BY DEF Phases
<1> HIDE DEF t
<1>3. t \in TurnRecord
  BY <1>1, <1>2 DEF TurnRecord
<1>4. /\ t.phase = phase /\ t.messages = messages /\ t.calls = <<>> /\ t.results = <<>>
      /\ Len(t.calls) <= CallsPerReply
  BY <1>1, ChatAssumption
<1>5. QED
  BY <1>3, <1>4 DEF TurnWell, t

LEMMA NoTurnIsWell ==
  ASSUME NEW phase \in {"free", "posted", "refused", "over"} PROVE TurnWell(NoTurn(phase))
<1>1. <<>> \in Seq(Said) /\ ResultsFollow(<<>>) /\ 0 \in 0..MaxRounds /\ {} \in SUBSET Names
  BY ChatAssumption DEF ResultsFollow
<1>2. QED
  BY <1>1, BareTurnIsWell DEF NoTurn

LEMMA FinishedKeeps ==
  ASSUME TalkInv, NEW s \in Turns, NEW messages \in Seq(Said), ResultsFollow(messages), NEW es,
         Finished(s, messages, es)
  PROVE  TalkInv'
<1>1. /\ conversation' = messages
      /\ turn' = [turn EXCEPT ![s] = NoTurn("over")]
  BY DEF Finished
<1>2. TurnWell(NoTurn("over"))
  BY NoTurnIsWell
<1>3. QED
  BY <1>1, <1>2, OneTurnMoves

LEMMA TranslatedKeeps ==
  ASSUME TalkInv, NEW s \in Turns, NEW set \in SUBSET Names, NEW messages \in Seq(Said),
         ResultsFollow(messages), NEW round \in 0..MaxRounds,
         Translated(s, set, messages, round)
  PROVE  TalkInv'
<1>1. CASE Finished(s, messages, <<[event |-> "error"]>>)
  BY <1>1, FinishedKeeps
<1>2. CASE /\ conversation' = conversation
           /\ turn' = [turn EXCEPT ![s] = TurnAt("asking", round, messages, set)]
  <2>1. TurnWell(TurnAt("asking", round, messages, set))
    BY BareTurnIsWell
  <2>2. conversation' \in Seq(Said) /\ ResultsFollow(conversation')
    BY <1>2 DEF TalkInv
  <2>3. QED
    BY <1>2, <2>1, <2>2, OneTurnMoves
<1>3. QED
  BY <1>1, <1>2 DEF Translated

LEMMA RoundKeeps ==
  ASSUME TalkInv, LinkInv, NEW s \in Turns, NEW messages \in Seq(Said), ResultsFollow(messages),
         NEW round \in Nat, Round(s, messages, round)
  PROVE  TalkInv'
<1>1. CASE Finished(s, messages, <<[event |-> "error"]>>)
  BY <1>1, FinishedKeeps
<1>2. ASSUME ~TooMany(round) PROVE round \in 0..MaxRounds
  BY <1>2, ChatAssumption DEF TooMany
<1>3. CASE /\ ~TooMany(round) /\ conversation' = conversation
           /\ turn' = [turn EXCEPT ![s] = TurnAt("listing", round, messages, {})]
  <2>1. TurnWell(TurnAt("listing", round, messages, {}))
    BY <1>2, <1>3, BareTurnIsWell
  <2>2. conversation' \in Seq(Said) /\ ResultsFollow(conversation')
    BY <1>3 DEF TalkInv
  <2>3. QED
    BY <1>3, <2>1, <2>2, OneTurnMoves
<1>4. CASE ~TooMany(round) /\ held # <<>> /\ Translated(s, held[1], messages, round)
  <2>1. held[1] \in SUBSET Names
    BY <1>4, ToolSets DEF LinkInv
  <2>2. QED
    BY <1>2, <1>4, <2>1, TranslatedKeeps
<1>5. QED
  BY <1>1, <1>3, <1>4 DEF Round

-----------------------------------------------------------------------------
(* The turns' own steps.                                                    *)
LEMMA PhaseMoves ==
  ASSUME TalkInv, NEW s \in Turns, NEW phase \in Phases, UNCHANGED conversation,
         turn' = [turn EXCEPT ![s].phase = phase],
         \/ phase \in {"free", "posted", "refused", "over"}
         \/ phase \in {"listing", "answering"} /\ turn[s].phase \in {"listing", "answering"}
         \/ phase = "waiting" /\ turn[s].phase = "calling" /\ InHand(s) <= Len(turn[s].calls)
  PROVE  TalkInv'
<1> DEFINE t == [turn[s] EXCEPT !.phase = phase]
<1>1. turn[s] \in TurnRecord /\ TurnWell(turn[s]) /\ turn' = [turn EXCEPT ![s] = t]
  BY DEF TalkInv
<1>2. /\ t \in TurnRecord /\ t.phase = phase /\ t.calls = turn[s].calls
      /\ t.results = turn[s].results /\ t.messages = turn[s].messages
  BY <1>1 DEF TurnRecord
<1> HIDE DEF t
<1>3. Len(t.calls) <= CallsPerReply
  BY <1>1, <1>2 DEF TurnWell
<1>4. TurnWell(t)
  <2>1. CASE phase \in {"free", "posted", "refused", "over"}
    BY <1>2, <1>3, <2>1 DEF TurnWell
  <2>2. CASE phase \in {"listing", "answering"} /\ turn[s].phase \in {"listing", "answering"}
    BY <1>1, <1>2, <1>3, <2>2 DEF TurnWell
  <2>3. CASE phase = "waiting" /\ turn[s].phase = "calling" /\ InHand(s) <= Len(turn[s].calls)
    <3>1. MidRound(turn[s]) /\ Len(turn[s].results) \in Nat /\ Len(turn[s].calls) \in Nat
      BY <1>1, <2>3 DEF TurnWell, TurnRecord
    <3>2. Len(t.results) < Len(t.calls)
      BY <1>2, <2>3, <3>1 DEF InHand
    <3>3. MidRound(t)
      BY <1>2, <3>1, <3>2 DEF MidRound
    <3>4. QED
      BY <1>2, <1>3, <2>3, <3>3 DEF TurnWell
  <2>4. QED
    BY <2>1, <2>2, <2>3
<1>5. conversation' \in Seq(Said) /\ ResultsFollow(conversation')
  BY DEF TalkInv
<1>6. QED
  BY <1>1, <1>4, <1>5, OneTurnMoves

LEMMA FrameKeeps ==
  ASSUME TalkInv, LinkInv, FrameArrives PROVE TalkInv' /\ LinkInv'
<1> DEFINE frame == Head(wire)
<1>1. wire \in Seq(Frames) /\ wire # <<>> /\ wire' = Tail(wire)
  BY DEF FrameArrives, LinkInv
<1>2. frame \in Frames /\ wire' \in Seq(Frames)
  BY <1>1
<1>3. UNCHANGED <<at, advertised, linked, held, conversation, busy, clearing, wiped>>
      /\ (UNCHANGED stale \/ stale' = TRUE)
  BY DEF FrameArrives, chatSide
<1>4. LinkInv'
  BY <1>2, <1>3 DEF LinkInv
<1>5. CASE UNCHANGED turn
  BY <1>3, <1>4, <1>5 DEF TalkInv
<1>6. CASE /\ frame # <<"changed">> /\ turn[frame[2]].phase = "answering"
           /\ turn' = [turn EXCEPT ![frame[2]].phase = "listed", ![frame[2]].got = frame[3]]
  <2>1. PICK s \in Turns, set \in Range(Serves) : frame[2] = s /\ frame[3] = set
    <3>1. frame \in {"tools"} \X Turns \X Range(Serves)
      BY <1>2, <1>6 DEF Frames
    <3> HIDE DEF frame
    <3>2. QED
      BY <3>1
  <2> HIDE DEF frame
  <2> DEFINE t == [turn[s] EXCEPT !.phase = "listed", !.got = set]
  <2>2. turn[s] \in TurnRecord /\ TurnWell(turn[s]) /\ turn[s].phase = "answering"
    BY <1>6, <2>1 DEF TalkInv
  <2>3. turn' = [turn EXCEPT ![s] = t]
    BY <1>6, <2>1 DEF TalkInv
  <2>4. set \in SUBSET Names /\ "listed" \in Phases
    BY <2>1, ToolSets DEF Phases
  <2>5. /\ t \in TurnRecord /\ t.phase = "listed" /\ t.got = set /\ t.results = turn[s].results
        /\ t.calls = turn[s].calls /\ t.messages = turn[s].messages
    BY <2>2, <2>4 DEF TurnRecord
  <2> HIDE DEF t
  <2>6. TurnWell(t)
    BY <2>1, <2>2, <2>5 DEF TurnWell
  <2>7. conversation' \in Seq(Said) /\ ResultsFollow(conversation')
    BY <1>3 DEF TalkInv
  <2>8. QED
    BY <1>4, <2>3, <2>6, <2>7, OneTurnMoves
<1>7. QED
  BY <1>4, <1>5, <1>6 DEF FrameArrives

LEMMA UnlinkKeeps ==
  ASSUME TalkInv, LinkInv, Unlink PROVE TalkInv' /\ LinkInv'
<1>1. /\ UNCHANGED <<at, advertised, held, stale, conversation, busy, clearing, wiped>>
      /\ linked' = FALSE /\ wire' = <<>>
      /\ turn' = [s \in Turns |-> IF turn[s].phase = "answering"
                                  THEN [turn[s] EXCEPT !.phase = "listing"] ELSE turn[s]]
  BY DEF Unlink, agent, chatSide
<1>2. LinkInv'
  <2>1. wire' \in Seq(Frames)
    BY <1>1
  <2>2. QED
    BY <1>1, <2>1 DEF LinkInv
<1>3. ASSUME NEW s \in Turns PROVE turn'[s] \in TurnRecord /\ TurnWell(turn'[s])
  <2>1. turn[s] \in TurnRecord /\ TurnWell(turn[s])
    BY DEF TalkInv
  <2>2. CASE turn[s].phase = "answering"
    <3> DEFINE t == [turn[s] EXCEPT !.phase = "listing"]
    <3>1. /\ t \in TurnRecord /\ t.phase = "listing" /\ t.calls = turn[s].calls
          /\ t.messages = turn[s].messages /\ t.results = turn[s].results
      BY <2>1 DEF TurnRecord, Phases
    <3>2. turn'[s] = t
      BY <1>1, <2>2
    <3> HIDE DEF t
    <3>3. QED
      BY <2>1, <2>2, <3>1, <3>2 DEF TurnWell
  <2>3. CASE turn[s].phase # "answering"
    BY <1>1, <2>1, <2>3
  <2>4. QED
    BY <2>2, <2>3
<1>4. TalkInv'
  <2>1. turn' \in [Turns -> TurnRecord]
    BY <1>1, <1>3
  <2>2. QED
    BY <1>1, <1>3, <2>1 DEF TalkInv
<1>5. QED
  BY <1>2, <1>4

LEMMA RepliesKeeps ==
  ASSUME TalkInv, NEW s \in Turns, ModelReplies(s) PROVE TalkInv'
<1>1. PICK calls \in UNION {[1..n -> {ApiName[m] : m \in Names}] : n \in 1..CallsPerReply} :
        /\ turn' = [turn EXCEPT ![s].phase = "calling", ![s].calls = calls, ![s].results = <<>>,
                                ![s].messages = Append(@, Message("assistant", calls))]
        /\ UNCHANGED conversation
  BY DEF ModelReplies
<1>2. calls \in Seq(Range(ApiName)) /\ Len(calls) \in 1..CallsPerReply
  <2>1. PICK n \in 1..CallsPerReply : calls \in [1..n -> {ApiName[m] : m \in Names}]
    OBVIOUS
  <2>2. {ApiName[m] : m \in Names} = Range(ApiName)
    BY ChatAssumption DEF Range
  <2>3. QED
    BY <2>1, <2>2, ChatAssumption
<1>3. /\ turn[s] \in TurnRecord /\ TurnWell(turn[s]) /\ turn[s].phase = "asking"
      /\ turn[s].messages \in Seq(Said) /\ ResultsFollow(turn[s].messages)
  BY DEF TalkInv, TurnWell, TurnRecord, ModelReplies
<1> DEFINE said == Append(turn[s].messages, Message("assistant", calls))
           t == [turn[s] EXCEPT !.phase = "calling", !.calls = calls, !.results = <<>>, !.messages = said]
<1>4. turn' = [turn EXCEPT ![s] = t]
  BY <1>1 DEF TalkInv
<1>5. said \in Seq(Said)
  <2>1. Message("assistant", calls) \in Said
    BY <1>2 DEF Said, Message
  <2>2. QED
    BY <1>3, <2>1
<1>6. /\ t \in TurnRecord /\ t.phase = "calling" /\ t.calls = calls /\ t.messages = said
      /\ t.results = <<>>
  <2> HIDE DEF said
  <2>1. "calling" \in Phases /\ <<>> \in Seq([call : Nat, known : BOOLEAN])
    BY DEF Phases
  <2>2. QED
    BY <1>2, <1>3, <1>5, <2>1 DEF TurnRecord
<1> HIDE DEF t
<1>7. MidRound(t)
  <2>1. \E before \in Seq(Said) :
          ResultsFollow(before) /\ t.messages = Append(before, Message("assistant", t.calls))
    BY <1>3, <1>6
  <2>2. /\ Len(t.results) <= Len(t.calls) /\ (t.phase = "waiting" => Len(t.results) < Len(t.calls))
        /\ \A k \in DOMAIN t.results : t.results[k].call = k
    BY <1>2, <1>6
  <2>3. QED
    BY <2>1, <2>2 DEF MidRound
<1>8. TurnWell(t)
  <2>1. Len(t.calls) <= CallsPerReply
    BY <1>2, <1>6, ChatAssumption
  <2>2. QED
    BY <1>6, <1>7, <2>1 DEF TurnWell
<1>9. conversation' \in Seq(Said) /\ ResultsFollow(conversation')
  BY <1>1 DEF TalkInv
<1>10. QED
  BY <1>4, <1>8, <1>9, OneTurnMoves

LEMMA AnsweredKeeps ==
  ASSUME TalkInv, NEW s \in Turns, NEW known \in BOOLEAN, Answered(s, known), UNCHANGED conversation,
         \/ turn[s].phase = "calling" /\ InHand(s) <= Len(turn[s].calls)
         \/ turn[s].phase = "waiting"
  PROVE  TalkInv'
<1> DEFINE result == [call |-> InHand(s), known |-> known]
           t == [turn[s] EXCEPT !.results = Append(@, result), !.phase = "calling"]
<1>1. turn[s] \in TurnRecord /\ TurnWell(turn[s]) /\ turn' = [turn EXCEPT ![s] = t]
  BY DEF TalkInv, Answered
<1>2. /\ turn[s].results \in Seq([call : Nat, known : BOOLEAN]) /\ turn[s].calls \in Seq(Range(ApiName))
      /\ MidRound(turn[s])
  BY <1>1 DEF TurnWell, TurnRecord
<1>3. Len(turn[s].results) < Len(turn[s].calls)
  BY <1>2 DEF MidRound, InHand
<1>4. InHand(s) = Len(turn[s].results) + 1 /\ InHand(s) \in Nat /\ result \in [call : Nat, known : BOOLEAN]
  BY <1>2 DEF InHand
<1>5. /\ t \in TurnRecord /\ t.phase = "calling" /\ t.results = Append(turn[s].results, result)
      /\ t.calls = turn[s].calls /\ t.messages = turn[s].messages
  <2> HIDE DEF result
  <2>1. Append(turn[s].results, result) \in Seq([call : Nat, known : BOOLEAN])
    BY <1>2, <1>4
  <2>2. QED
    BY <1>1, <2>1 DEF TurnRecord, Phases
<1> HIDE DEF t
<1>6. /\ Len(t.results) = Len(turn[s].results) + 1
      /\ \A k \in DOMAIN t.results : t.results[k].call = k
  <2>1. \A k \in DOMAIN turn[s].results : turn[s].results[k].call = k
    BY <1>2 DEF MidRound
  <2>2. result.call = Len(turn[s].results) + 1
    BY <1>4
  <2> HIDE DEF result
  <2>3. QED
    BY <1>2, <1>4, <1>5, <2>1, <2>2
<1>7. MidRound(t)
  <2>1. \E before \in Seq(Said) :
          ResultsFollow(before) /\ t.messages = Append(before, Message("assistant", t.calls))
    BY <1>2, <1>5 DEF MidRound
  <2>2. Len(t.results) <= Len(t.calls) /\ (t.phase = "waiting" => Len(t.results) < Len(t.calls))
    BY <1>2, <1>3, <1>5, <1>6
  <2>3. QED
    BY <1>6, <2>1, <2>2 DEF MidRound
<1>8. TurnWell(t)
  BY <1>1, <1>5, <1>7 DEF TurnWell
<1>9. conversation' \in Seq(Said) /\ ResultsFollow(conversation')
  BY DEF TalkInv
<1>10. QED
  BY <1>1, <1>8, <1>9, OneTurnMoves

-----------------------------------------------------------------------------
LEMMA TalkStays ==
  ASSUME TalkInv, UNCHANGED <<conversation, turn>> PROVE TalkInv'
BY DEF TalkInv

LEMMA TurnStep ==
  ASSUME TalkInv, LinkInv, NEW s \in Turns, Agent(s) \/ Unserved(s) PROVE TalkInv'
<1>1. TurnWell(turn[s]) /\ turn[s] \in TurnRecord /\ s \in Turns
  BY DEF TalkInv
<1>2. ASSUME Receive(s) PROVE TalkInv'
  <2>1. Message("user", s) \in Said /\ Message("user", s).role # "assistant"
    BY DEF Said, Message
  <2>2. Append(conversation, Message("user", s)) \in Seq(Said)
        /\ ResultsFollow(Append(conversation, Message("user", s)))
    BY <2>1, SayOne DEF TalkInv
  <2>3. Round(s, Append(conversation, Message("user", s)), 1)
    BY <1>2 DEF Receive
  <2>4. QED
    BY <2>2, <2>3, RoundKeeps
<1>3. ASSUME Unserved(s) PROVE TalkInv'
  BY <1>3, PhaseMoves DEF Unserved, agent, Phases
<1>4. ASSUME Listed(s) PROVE TalkInv'
  <2>1. turn[s].got \in SUBSET Names /\ turn[s].messages \in Seq(Said)
        /\ ResultsFollow(turn[s].messages) /\ turn[s].round \in 0..MaxRounds
    BY <1>1, <1>4 DEF Listed, TurnWell, TurnRecord
  <2>2. Translated(s, turn[s].got, turn[s].messages, turn[s].round)
    BY <1>4 DEF Listed
  <2>3. QED
    BY <2>1, <2>2, TranslatedKeeps
<1>5. ASSUME ListingFails(s) \/ ModelFails(s) PROVE TalkInv'
  <2>1. turn[s].messages \in Seq(Said) /\ ResultsFollow(turn[s].messages)
    BY <1>1, <1>5 DEF ListingFails, ModelFails, TurnWell, TurnRecord
  <2>2. Finished(s, turn[s].messages, <<[event |-> "error"]>>)
    BY <1>5 DEF ListingFails, ModelFails
  <2>3. QED
    BY <2>1, <2>2, FinishedKeeps
<1>6. ASSUME ModelAnswers(s) PROVE TalkInv'
  <2>1. turn[s].messages \in Seq(Said) /\ ResultsFollow(turn[s].messages)
    BY <1>1, <1>6 DEF ModelAnswers, TurnWell, TurnRecord
  <2>2. Message("assistant", <<>>) \in Said /\ Message("assistant", <<>>).of = <<>>
    BY DEF Said, Message
  <2>3. Append(turn[s].messages, Message("assistant", <<>>)) \in Seq(Said)
        /\ ResultsFollow(Append(turn[s].messages, Message("assistant", <<>>)))
    BY <2>1, <2>2, SayOne
  <2>4. Finished(s, Append(turn[s].messages, Message("assistant", <<>>)), <<[event |-> "message"]>>)
    BY <1>6 DEF ModelAnswers
  <2>5. QED
    BY <2>3, <2>4, FinishedKeeps
<1>7. ASSUME CallUnknown(s) \/ CallSettles(s) PROVE TalkInv'
  BY <1>7, AnsweredKeeps DEF CallUnknown, CallSettles, agent
<1>8. ASSUME CallTool(s) PROVE TalkInv'
  BY <1>8, PhaseMoves DEF CallTool, agent, Phases
<1>9. ASSUME NextRound(s) PROVE TalkInv'
  <2>1. /\ turn[s].round + 1 \in Nat /\ turn[s].calls \in Seq(Range(ApiName))
        /\ turn[s].results \in Seq([call : Nat, known : BOOLEAN])
        /\ MidRound(turn[s]) /\ Len(turn[s].calls) < InHand(s)
    BY <1>1, <1>9, ChatAssumption DEF NextRound, TurnWell, TurnRecord
  <2>2. Len(turn[s].results) = Len(turn[s].calls)
    BY <2>1 DEF MidRound, InHand
  <2>3. PICK before \in Seq(Said) :
          ResultsFollow(before) /\ turn[s].messages = Append(before, Message("assistant", turn[s].calls))
    BY <2>1 DEF MidRound
  <2>4. \A k \in DOMAIN turn[s].results : turn[s].results[k].call = k
    BY <2>1 DEF MidRound
  <2> DEFINE said == Append(turn[s].messages, Message("results", turn[s].results))
  <2>5. said \in Seq(Said) /\ ResultsFollow(said)
    BY <2>1, <2>2, <2>3, <2>4, SayRound
  <2>6. Round(s, said, turn[s].round + 1)
    BY <1>9 DEF NextRound, Results
  <2> HIDE DEF said
  <2>7. QED
    BY <2>1, <2>5, <2>6, RoundKeeps
<1>10. ASSUME ModelReplies(s) PROVE TalkInv'
  BY <1>10, RepliesKeeps
<1>11. QED
  BY <1>2, <1>3, <1>4, <1>5, <1>6, <1>7, <1>8, <1>9, <1>10 DEF Agent, Refuse

(* Nothing but the page's steps, a frame's arrival and a listing touches what  *)
(* the connection carries.                                                  *)
LEMMA AgentLeavesLink ==
  ASSUME LinkInv, TalkInv, NEW s \in Turns, Agent(s) PROVE LinkInv'
<1>1. CASE UNCHANGED <<link, held, stale, chatSide>>
  BY <1>1 DEF LinkInv, link, chatSide
<1>2. CASE Listed(s)
  <2>1. turn[s].got \in Range(Serves)
    BY <1>2 DEF Listed, TalkInv, TurnWell
  <2>2. held' = <<turn[s].got>> /\ stale' = FALSE /\ UNCHANGED <<link, chatSide>>
    BY <1>2 DEF Listed
  <2>3. held' \in Seq(Range(Serves)) /\ Len(held') <= 1
    BY <2>1, <2>2
  <2>4. QED
    BY <2>2, <2>3 DEF LinkInv, link, chatSide
<1>3. ASSUME ~Listed(s) PROVE UNCHANGED <<link, held, stale, chatSide>>
  BY <1>3 DEF Agent, Receive, Refuse, Unserved, ListingFails, ModelReplies, ModelAnswers, ModelFails,
              CallUnknown, CallTool, CallSettles, NextRound, agent
<1>4. QED
  BY <1>1, <1>2, <1>3

LEMMA ChatStep ==
  ASSUME TalkInv, LinkInv, [ChatNext]_chatVars PROVE TalkInv' /\ LinkInv'
<1>1. CASE UNCHANGED chatVars
  BY <1>1, TalkStays DEF chatVars, link, agent, chatSide, LinkInv
<1>2. CASE ToolsChange
  <2>1. at \in 1..Len(Serves) /\ at < Len(Serves)
    BY <1>2, ChatAssumption DEF ToolsChange, LinkInv
  <2>2. at' \in DOMAIN Serves
    BY <1>2, <2>1, ChatAssumption DEF ToolsChange
  <2>3. QED
    BY <1>2, <2>2, TalkStays DEF ToolsChange, LinkInv, agent, chatSide
<1>3. CASE Notify
  <2>1. <<"changed">> \in Frames /\ wire \in Seq(Frames) /\ wire' = Append(wire, <<"changed">>)
    BY <1>3 DEF Notify, Frames, LinkInv
  <2>2. wire' \in Seq(Frames)
    BY <2>1
  <2>3. advertised' \in Range(Serves)
    BY <1>3, ToolSets DEF Notify, tools, LinkInv
  <2>4. QED
    BY <1>3, <2>2, <2>3, TalkStays DEF Notify, LinkInv, agent, chatSide
<1>4. ASSUME NEW s \in Turns, PageLists(s) PROVE TalkInv' /\ LinkInv'
  <2>1. <<"tools", s, tools>> \in Frames /\ wire \in Seq(Frames)
    BY ToolSets DEF Frames, LinkInv, tools
  <2>2. wire' = Append(wire, <<"tools", s, tools>>)
    BY <1>4 DEF PageLists
  <2> DEFINE frame == <<"tools", s, tools>>
  <2> HIDE DEF frame
  <2>3. wire' \in Seq(Frames)
    BY <2>1, <2>2 DEF frame
  <2>4. TalkInv'
    BY <1>4, PhaseMoves DEF PageLists, agent, Phases
  <2>5. QED
    BY <1>4, <2>3, <2>4 DEF PageLists, LinkInv, agent, chatSide
<1>5. ASSUME NEW s \in Turns, Agent(s) \/ Unsent(s) PROVE TalkInv' /\ LinkInv'
  <2>1. CASE Agent(s)
    BY <2>1, TurnStep, AgentLeavesLink
  <2>2. CASE Unsent(s)
    BY <2>2, TurnStep DEF Unsent, Unserved, LinkInv, link, agent, chatSide
  <2>3. QED
    BY <1>5, <2>1, <2>2
<1>6. ASSUME NEW p \in Pages, NEW s \in Turns, Post(p, s) PROVE TalkInv' /\ LinkInv'
  <2>1. TalkInv'
    BY <1>6, PhaseMoves DEF Post, agent, Phases
  <2>2. busy' \in [Pages -> 0..MaxTurns]
    BY <1>6, ChatAssumption DEF Post, LinkInv, Turns
  <2>3. QED
    BY <1>6, <2>1, <2>2 DEF Post, LinkInv, link, agent
<1>7. ASSUME NEW p \in Pages, ReadEvent(p) \/ StreamEnds(p) \/ ReadRefusal(p) \/ StreamBreaks(p)
      PROVE  TalkInv' /\ LinkInv'
  <2>1. UNCHANGED <<link, agent, turn, clearing, wiped>>
        /\ (UNCHANGED busy \/ busy' = [busy EXCEPT ![p] = 0])
    BY <1>7 DEF ReadEvent, StreamEnds, ReadRefusal, StreamBreaks, Caught
  <2>2. 0 \in 0..MaxTurns /\ busy \in [Pages -> 0..MaxTurns]
    BY ChatAssumption DEF LinkInv
  <2>3. busy' \in [Pages -> 0..MaxTurns]
    BY <2>1, <2>2
  <2>4. QED
    BY <2>1, <2>3, TalkStays DEF LinkInv, link, agent
<1>8. ASSUME NEW p \in Pages, Clear(p) \/ Reset(p) \/ ResetFails(p) \/ Cleared(p)
      PROVE  TalkInv' /\ LinkInv'
  <2>1. /\ UNCHANGED <<link, held, stale, turn, busy>>
        /\ conversation' \in {conversation, <<>>}
        /\ \E c \in {"idle", "sent", "forgotten", "settled"} : clearing' = [clearing EXCEPT ![p] = c]
        /\ wiped' \in {wiped, wiped \ {p}, wiped \cup {p}}
    BY <1>8 DEF Clear, Reset, ResetFails, Cleared, Settled, agent
  <2>2. clearing' \in [Pages -> {"idle", "sent", "forgotten", "settled"}] /\ wiped' \subseteq Pages
    BY <2>1 DEF LinkInv
  <2>3. <<>> \in Seq(Said) /\ ResultsFollow(<<>>)
    BY DEF ResultsFollow
  <2>4. TalkInv'
    BY <2>1, <2>3 DEF TalkInv
  <2>5. QED
    BY <2>1, <2>2, <2>4 DEF LinkInv, link
<1>9. QED
  BY <1>1, <1>2, <1>3, <1>4, <1>5, <1>6, <1>7, <1>8, FrameKeeps, UnlinkKeeps DEF ChatNext

LEMMA ChatBegins == ChatInit => TalkInv /\ LinkInv
<1> SUFFICES ASSUME ChatInit PROVE TalkInv /\ LinkInv
  OBVIOUS
<1>1. TurnWell(NoTurn("free")) /\ NoTurn("free") \in TurnRecord
  BY NoTurnIsWell DEF TurnWell
<1>2. TalkInv
  <2>1. turn = [s \in Turns |-> NoTurn("free")] /\ conversation = <<>>
    BY DEF ChatInit
  <2>2. conversation \in Seq(Said) /\ ResultsFollow(conversation)
    BY <2>1 DEF ResultsFollow
  <2>3. QED
    BY <1>1, <2>1, <2>2 DEF TalkInv
<1>3. LinkInv
  <2>1. <<>> \in Seq(Frames) /\ <<>> \in Seq(Range(Serves)) /\ Len(<<>>) <= 1
    OBVIOUS
  <2>2. at \in DOMAIN Serves /\ advertised \in Range(Serves)
    BY ChatAssumption, ToolSets DEF ChatInit
  <2>3. QED
    BY <2>1, <2>2, ChatAssumption DEF ChatInit, LinkInv
<1>4. QED
  BY <1>2, <1>3

LEMMA ChatAlways == ChatSpec => [](TalkInv /\ LinkInv)
<1>1. TalkInv /\ LinkInv /\ [ChatNext]_chatVars => (TalkInv /\ LinkInv)'
  BY ChatStep
<1>2. QED
  BY <1>1, ChatBegins, PTL DEF ChatSpec

(* The agent's and the chat pages' state stays within its types: no turn goes  *)
(* past its rounds, no listing comes from nowhere.                           *)
THEOREM ChatTyped == ChatSpec => []ChatTypeOK
<1>1. TalkInv /\ LinkInv => ChatTypeOK
  <2> SUFFICES ASSUME TalkInv, LinkInv PROVE ChatTypeOK
    OBVIOUS
  <2>1. \A s \in Turns : /\ turn[s].phase \in Phases /\ turn[s].round \in 0..MaxRounds
                         /\ Len(turn[s].calls) <= CallsPerReply
    BY DEF TalkInv, TurnWell, TurnRecord
  <2>2. \A i \in DOMAIN held : held[i] \in Range(Serves)
    BY DEF LinkInv
  <2>3. QED
    BY <2>1, <2>2 DEF ChatTypeOK, LinkInv, Phases
<1>2. QED
  BY <1>1, ChatAlways, PTL

(* Every call the model makes is answered in what it is sent next and in what  *)
(* the session keeps: whatever the page refuses, loses or never had, and     *)
(* however a turn ends (chat.ts, send).                                      *)
THEOREM CallsAreAnswered == ChatSpec => []EveryCallAnswered
<1>1. TalkInv /\ LinkInv => EveryCallAnswered
  BY DEF TalkInv, TurnWell, EveryCallAnswered
<1>2. QED
  BY <1>1, ChatAlways, PTL

-----------------------------------------------------------------------------
(***************************************************************************)
(* What a turn emits, and what a page that reads it shows.                  *)
(***************************************************************************)
Ids == Turns \X Nat \X Nat
Called(id) == [event |-> "tool_call", id |-> id]
Returned(id) == [event |-> "tool_result", id |-> id]
ChatEvent ==
  [event : {"status", "message", "error", "done"}] \cup [event : {"tool_call", "tool_result"}, id : Ids]

Shown ==
  [entries : Seq([kind : {"person", "agent", "failure", "anomaly"}]
                   \cup [kind : {"call"}, id : Ids, result : {"pending", "arrived"}]),
   status : BOOLEAN]

Before == {"free", "posted", "refused"}
Working == {"listing", "answering", "listed", "asking", "calling"}

(* The call turn s makes next, or has made and waits for; the calls made so    *)
(* far, of all turns.                                                       *)
CallOf(t, s) == <<s, t.round, Len(t.results) + 1>>

Past(turns, id) ==
  LET t == turns[id[1]] IN
  /\ t.phase \notin Before
  /\ t.phase # "over" =>
       \/ id[2] < t.round
       \/ id[2] = t.round /\ id[3] <= Len(t.results)
       \/ t.phase = "waiting" /\ id = CallOf(t, id[1])

(* What is emitted and not yet read: a result follows its call at once, and   *)
(* "done" is the last word.                                                 *)
StreamWell(turns, s, unread) ==
  LET t == turns[s]
      last == Len(unread)
  IN  /\ unread \in Seq(ChatEvent)
      /\ t.phase \in Before => unread = <<>>
      /\ t.phase = "over" /\ unread # <<>> => unread[last].event = "done"
      /\ t.phase = "waiting" /\ unread # <<>> => unread[last] = Called(CallOf(t, s))
      /\ \A i \in DOMAIN unread :
           /\ unread[i].event = "done" => t.phase = "over" /\ i = last
           /\ unread[i].event = "tool_call" =>
                /\ Past(turns, unread[i].id)
                /\ \A j \in DOMAIN unread : unread[j] = unread[i] => j = i
                /\ i = last => t.phase = "waiting"
                /\ i # last => unread[i + 1] = Returned(unread[i].id)
           /\ unread[i].event = "tool_result" /\ i # 1 => unread[i - 1] = Called(unread[i].id)

CallIn(said, i) == said.entries[i].kind = "call"
PendingIn(said, i) == CallIn(said, i) /\ said.entries[i].result = "pending"

(* The last entry is the call id, still without a result. *)
Awaits(said, id) ==
  /\ said.entries # <<>> /\ PendingIn(said, Len(said.entries))
  /\ said.entries[Len(said.entries)].id = id

(* A call left without its result when its turn was cut short: the failure is   *)
(* right below it.                                                          *)
Explained(said, i) == i < Len(said.entries) /\ said.entries[i + 1].kind = "failure"
Running(said, i) == PendingIn(said, i) /\ ~Explained(said, i)

EndsInFailure(said) == said.entries # <<>> /\ said.entries[Len(said.entries)].kind = "failure"

(* A transcript that is read from the stream of turn s, of which "unread" is   *)
(* still to come; "whole" when nobody emptied it under that turn.            *)
ShownWell(turns, s, unread, said, how) ==
  /\ \A i \in DOMAIN said.entries : CallIn(said, i) => Past(turns, said.entries[i].id)
  /\ \A i \in DOMAIN said.entries : Running(said, i) =>
       /\ i = Len(said.entries)
       /\ \A j \in DOMAIN said.entries : CallIn(said, j) /\ said.entries[j].id = said.entries[i].id => j = i
  /\ s = 0 /\ said.status => EndsInFailure(said)
  /\ (s = 0 \/ turns[s].phase \in {"posted", "refused"}) =>
       \A i \in DOMAIN said.entries : ~Running(said, i)
  /\ s # 0 =>
       /\ turns[s].phase = "over" /\ unread = <<>> => ~said.status
       /\ \A i \in DOMAIN said.entries : Running(said, i) =>
            \/ unread = <<>> /\ turns[s].phase = "waiting" /\ said.entries[i].id = CallOf(turns[s], s)
            \/ unread # <<>> /\ unread[1].event = "tool_result" /\ unread[1].id = said.entries[i].id
       /\ \A i \in DOMAIN unread, j \in DOMAIN said.entries :
            unread[i].event = "tool_call" /\ CallIn(said, j) => said.entries[j].id # unread[i].id
  /\ how = "whole" =>
       /\ \A i \in DOMAIN said.entries : said.entries[i].kind # "anomaly"
       /\ s # 0 =>
            /\ turns[s].phase = "waiting" /\ unread = <<>> => Awaits(said, CallOf(turns[s], s))
            /\ unread # <<>> /\ unread[1].event = "tool_result" => Awaits(said, unread[1].id)

(* Whether a page emptied its transcript under the turn it reads. *)
Standing(p) == IF p \in wiped THEN "emptied" ELSE "whole"

Unread(s) == IF s = 0 THEN <<>> ELSE events[s]

StreamInv == DOMAIN events = Turns /\ \A s \in Turns : StreamWell(turn, s, events[s])

ReaderInv ==
  /\ transcript \in [Pages -> Shown]
  /\ \A p \in Pages : busy[p] # 0 => turn[busy[p]].phase # "free"
  /\ \A p, q \in Pages : busy[p] = busy[q] /\ busy[p] # 0 => p = q
  /\ \A p \in Pages : ShownWell(turn, busy[p], Unread(busy[p]), transcript[p], Standing(p))

(* The turn keeps what calls it has made, or makes more, or is over.         *)
Grows(t, u) ==
  \/ t.phase \in Before
  \/ u.phase = "over"
  \/ /\ t.phase # "over" /\ u.phase \notin Before
     /\ \/ t.round < u.round
        \/ /\ t.round = u.round /\ Len(t.results) <= Len(u.results)
           /\ t.phase = "waiting" => \/ u.phase = "waiting" /\ t.results = u.results
                                     \/ Len(t.results) < Len(u.results)

LEMMA PastStays ==
  ASSUME NEW f \in [Turns -> TurnRecord], NEW g \in [Turns -> TurnRecord], NEW id \in Ids,
         Past(f, id), Grows(f[id[1]], g[id[1]])
  PROVE  Past(g, id)
<1> DEFINE t == f[id[1]]
           u == g[id[1]]
<1>1. /\ t.round \in Nat /\ Len(t.results) \in Nat /\ u.round \in Nat /\ Len(u.results) \in Nat
  BY ChatAssumption DEF TurnRecord, Ids
<1>2. id[2] \in Nat /\ id[3] \in Nat
  BY DEF Ids
<1>3. t.phase \notin Before
  BY DEF Past
<1>4. CASE u.phase = "over"
  BY <1>4 DEF Past, Before
<1>5. CASE /\ u.phase # "over" /\ t.phase # "over" /\ u.phase \notin Before
           /\ t.round < u.round
  <2>1. id[2] <= t.round
    BY <1>1, <1>2, <1>5 DEF Past, CallOf
  <2>2. id[2] < u.round
    BY <1>1, <1>2, <1>5, <2>1
  <2>3. QED
    BY <1>5, <2>2 DEF Past
<1>6. CASE /\ u.phase # "over" /\ t.phase # "over" /\ u.phase \notin Before
           /\ t.round = u.round /\ Len(t.results) <= Len(u.results)
           /\ t.phase = "waiting" => \/ u.phase = "waiting" /\ t.results = u.results
                                     \/ Len(t.results) < Len(u.results)
  <2>1. CASE id[2] < t.round
    BY <1>6, <2>1 DEF Past
  <2>2. CASE id[2] = t.round /\ id[3] <= Len(t.results)
    BY <1>1, <1>2, <1>6, <2>2 DEF Past
  <2>3. CASE t.phase = "waiting" /\ id = CallOf(t, id[1])
    <3>1. id[2] = t.round /\ id[3] = Len(t.results) + 1
      BY <2>3 DEF CallOf
    <3>2. CASE Len(t.results) < Len(u.results)
      BY <1>1, <1>2, <1>6, <3>1, <3>2 DEF Past
    <3>3. CASE u.phase = "waiting" /\ t.results = u.results
      <4>1. id = CallOf(u, id[1])
        BY <1>6, <2>3, <3>3 DEF CallOf
      <4>2. QED
        BY <1>6, <3>3, <4>1 DEF Past
    <3>4. QED
      BY <1>6, <2>3, <3>2, <3>3
  <2>4. QED
    BY <1>6, <2>1, <2>2, <2>3 DEF Past
<1>7. QED
  BY <1>3, <1>4, <1>5, <1>6 DEF Grows

(* What a working turn says beside its calls, and how it ends.               *)
Uneventful(es, phase) ==
  /\ es \in Seq(ChatEvent)
  /\ \A i \in DOMAIN es : /\ es[i].event \in {"status", "message", "error", "done"}
                          /\ es[i].event = "done" => phase = "over" /\ i = Len(es)
  /\ phase = "over" => es # <<>> /\ es[Len(es)].event = "done"

LEMMA Joined ==
  ASSUME NEW S, NEW a \in Seq(S), NEW b \in Seq(S)
  PROVE  /\ a \o b \in Seq(S) /\ Len(a \o b) = Len(a) + Len(b)
         /\ \A i \in DOMAIN a : (a \o b)[i] = a[i]
         /\ \A i \in DOMAIN b : (a \o b)[Len(a) + i] = b[i]
         /\ \A i \in DOMAIN (a \o b) : i \in DOMAIN a \/ i - Len(a) \in DOMAIN b
OBVIOUS

LEMMA PlainStream ==
  ASSUME NEW f \in [Turns -> TurnRecord], NEW g \in [Turns -> TurnRecord], NEW s \in Turns,
         NEW unread, NEW es, StreamWell(f, s, unread),
         f[s].phase \in Working \cup {"posted"}, g[s].phase \in Working \cup {"over"},
         Uneventful(es, g[s].phase), \A id \in Ids : Past(f, id) => Past(g, id)
  PROVE  StreamWell(g, s, unread \o es)
<1> DEFINE e == unread \o es
<1>1. unread \in Seq(ChatEvent) /\ es \in Seq(ChatEvent)
  BY DEF StreamWell, Uneventful
<1>2. /\ e \in Seq(ChatEvent) /\ Len(e) = Len(unread) + Len(es)
      /\ \A i \in DOMAIN unread : e[i] = unread[i]
      /\ \A i \in DOMAIN es : e[Len(unread) + i] = es[i]
      /\ \A i \in DOMAIN e : i \in DOMAIN unread \/ i - Len(unread) \in DOMAIN es
  BY <1>1, Joined
<1>3. /\ Len(unread) \in Nat /\ Len(es) \in Nat /\ DOMAIN unread = 1..Len(unread)
      /\ DOMAIN es = 1..Len(es) /\ DOMAIN e = 1..Len(e)
  BY <1>1, <1>2
<1> HIDE DEF e
<1>4. /\ g[s].phase \notin Before /\ g[s].phase # "waiting" /\ f[s].phase # "waiting"
      /\ f[s].phase # "over"
  BY DEF Working, Before
<1>5. \A i \in DOMAIN unread : unread[i].event = "tool_call" => i # Len(unread) /\ unread[i].id \in Ids
  BY <1>1, <1>4 DEF StreamWell, ChatEvent
<1>6. \A i \in DOMAIN unread : unread[i].event # "done"
  BY <1>4 DEF StreamWell
<1>7. ASSUME g[s].phase = "over" PROVE e # <<>> /\ e[Len(e)].event = "done"
  <2>1. es # <<>> /\ es[Len(es)].event = "done"
    BY <1>7 DEF Uneventful
  <2>2. Len(es) \in DOMAIN es
    BY <1>1, <2>1
  <2>3. e[Len(unread) + Len(es)] = es[Len(es)]
    BY <1>2, <2>2
  <2>4. Len(e) # 0
    BY <1>2, <1>3, <2>2
  <2>5. e # <<>>
    BY <1>2, <2>4
  <2>6. QED
    BY <1>2, <2>1, <2>3, <2>5
<1>8. ASSUME NEW i \in DOMAIN e
      PROVE  /\ e[i].event = "done" => g[s].phase = "over" /\ i = Len(e)
             /\ e[i].event = "tool_call" =>
                  /\ Past(g, e[i].id)
                  /\ \A j \in DOMAIN e : e[j] = e[i] => j = i
                  /\ i # Len(e) /\ e[i + 1] = Returned(e[i].id)
             /\ e[i].event = "tool_result" /\ i # 1 => e[i - 1] = Called(e[i].id)
  <2>1. CASE i \in DOMAIN unread
    <3>1. e[i] = unread[i] /\ e[i].event # "done"
      BY <1>2, <1>6, <2>1
    <3>2. ASSUME e[i].event = "tool_call"
          PROVE  /\ Past(g, e[i].id)
                 /\ \A j \in DOMAIN e : e[j] = e[i] => j = i
                 /\ i # Len(e) /\ e[i + 1] = Returned(e[i].id)
      <4>1. Past(g, e[i].id)
        BY <1>5, <2>1, <3>1, <3>2 DEF StreamWell
      <4>2. ASSUME NEW j \in DOMAIN e, e[j] = e[i] PROVE j = i
        <5>1. j \in DOMAIN unread
          <6>1. ASSUME j - Len(unread) \in DOMAIN es PROVE e[j].event # "tool_call"
            <7>1. e[j] = es[j - Len(unread)]
              BY <1>2, <1>3, <6>1
            <7>2. QED
              BY <6>1, <7>1 DEF Uneventful
          <6>2. QED
            BY <1>2, <3>2, <4>2, <6>1
        <5>2. unread[j] = unread[i]
          BY <1>2, <3>1, <4>2, <5>1
        <5>3. QED
          BY <2>1, <3>1, <3>2, <5>1, <5>2 DEF StreamWell
      <4>3. i # Len(unread) /\ unread[i + 1] = Returned(unread[i].id)
        BY <1>5, <2>1, <3>1, <3>2 DEF StreamWell
      <4>4. i + 1 \in DOMAIN unread /\ i # Len(e)
        BY <1>2, <1>3, <2>1, <4>3
      <4>5. e[i + 1] = Returned(e[i].id)
        BY <1>2, <3>1, <4>3, <4>4
      <4>6. QED
        BY <4>1, <4>2, <4>4, <4>5
    <3>3. ASSUME e[i].event = "tool_result", i # 1 PROVE e[i - 1] = Called(e[i].id)
      <4>1. i - 1 \in DOMAIN unread /\ unread[i - 1] = Called(unread[i].id)
        BY <1>3, <2>1, <3>1, <3>3 DEF StreamWell
      <4>2. QED
        BY <1>2, <3>1, <4>1
    <3>4. QED
      BY <3>1, <3>2, <3>3
  <2>2. CASE i - Len(unread) \in DOMAIN es
    <3>1. e[i] = es[i - Len(unread)]
      BY <1>2, <1>3, <2>2
    <3>2. e[i].event \in {"status", "message", "error", "done"}
          /\ (e[i].event = "done" => g[s].phase = "over" /\ i - Len(unread) = Len(es))
      BY <2>2, <3>1 DEF Uneventful
    <3>3. QED
      BY <1>2, <1>3, <3>2
  <2>3. QED
    BY <1>2, <2>1, <2>2
<1>9. QED
  BY <1>2, <1>4, <1>7, <1>8 DEF StreamWell, e

LEMMA PlainShown ==
  ASSUME NEW f \in [Turns -> TurnRecord], NEW g \in [Turns -> TurnRecord], NEW s \in Turns,
         NEW unread, NEW es, NEW said \in Shown, NEW how,
         StreamWell(f, s, unread), ShownWell(f, s, unread, said, how),
         f[s].phase \in Working \cup {"posted"}, g[s].phase \in Working \cup {"over"},
         Uneventful(es, g[s].phase), \A id \in Ids : Past(f, id) => Past(g, id)
  PROVE  ShownWell(g, s, unread \o es, said, how)
<1> DEFINE e == unread \o es
<1>1. unread \in Seq(ChatEvent) /\ es \in Seq(ChatEvent)
  BY DEF StreamWell, Uneventful
<1>2. /\ e \in Seq(ChatEvent) /\ Len(e) = Len(unread) + Len(es)
      /\ \A i \in DOMAIN unread : e[i] = unread[i]
      /\ \A i \in DOMAIN es : e[Len(unread) + i] = es[i]
      /\ \A i \in DOMAIN e : i \in DOMAIN unread \/ i - Len(unread) \in DOMAIN es
  BY <1>1, Joined
<1>3. /\ Len(unread) \in Nat /\ Len(es) \in Nat /\ DOMAIN unread = 1..Len(unread)
      /\ DOMAIN es = 1..Len(es) /\ DOMAIN e = 1..Len(e)
  BY <1>1, <1>2
<1> HIDE DEF e
<1>4. /\ g[s].phase \notin Before /\ g[s].phase # "waiting" /\ f[s].phase # "waiting" /\ s # 0
  BY DEF Working, Before, Turns
<1>5. \A i \in DOMAIN said.entries : CallIn(said, i) => said.entries[i].id \in Ids
  BY DEF Shown, CallIn
<1>6. \A i \in DOMAIN said.entries : CallIn(said, i) => Past(g, said.entries[i].id)
  BY <1>5 DEF ShownWell
<1>7. ASSUME NEW i \in DOMAIN e
      PROVE  \/ (i \in DOMAIN unread /\ e[i] = unread[i])
             \/ e[i].event \in {"status", "message", "error", "done"}
  <2>1. ASSUME i - Len(unread) \in DOMAIN es
        PROVE  e[i].event \in {"status", "message", "error", "done"}
    <3>1. e[i] = es[i - Len(unread)]
      BY <1>2, <1>3, <2>1
    <3>2. QED
      BY <2>1, <3>1 DEF Uneventful
  <2>2. QED
    BY <1>2, <2>1
<1>8. unread # <<>> => e # <<>> /\ 1 \in DOMAIN unread /\ e[1] = unread[1]
  BY <1>1, <1>2, <1>3
<1>9. g[s].phase = "over" => e # <<>>
  BY <1>1, <1>2, <1>3 DEF Uneventful
<1>10. ASSUME NEW i \in DOMAIN said.entries, Running(said, i)
       PROVE  /\ e # <<>> /\ e[1].event = "tool_result" /\ e[1].id = said.entries[i].id
              /\ i = Len(said.entries)
              /\ \A j \in DOMAIN said.entries :
                   CallIn(said, j) /\ said.entries[j].id = said.entries[i].id => j = i
  <2>1. unread # <<>> /\ unread[1].event = "tool_result" /\ unread[1].id = said.entries[i].id
    BY <1>4, <1>10 DEF ShownWell
  <2>2. QED
    BY <1>8, <1>10, <2>1 DEF ShownWell
<1>11. ASSUME how = "whole", e # <<>>, e[1].event = "tool_result" PROVE Awaits(said, e[1].id)
  <2>1. 1 \in DOMAIN e
    BY <1>2, <1>11
  <2>2. 1 \in DOMAIN unread /\ e[1] = unread[1]
    BY <1>7, <1>11, <2>1
  <2>3. unread # <<>>
    BY <2>2
  <2>4. QED
    BY <1>4, <1>11, <2>2, <2>3 DEF ShownWell
<1>12. ASSUME NEW i \in DOMAIN e, NEW j \in DOMAIN said.entries, e[i].event = "tool_call", CallIn(said, j)
       PROVE  said.entries[j].id # e[i].id
  BY <1>4, <1>7, <1>12 DEF ShownWell
<1>13. how = "whole" => \A i \in DOMAIN said.entries : said.entries[i].kind # "anomaly"
  BY DEF ShownWell
<1>14. QED
  BY <1>4, <1>6, <1>9, <1>10, <1>11, <1>12, <1>13 DEF ShownWell, Before, e

(* The call turn s makes goes into its stream.                              *)
LEMMA CalledStream ==
  ASSUME NEW f \in [Turns -> TurnRecord], NEW g \in [Turns -> TurnRecord], NEW s \in Turns,
         NEW unread, StreamWell(f, s, unread),
         f[s].phase = "calling", g[s].phase = "waiting",
         g[s].round = f[s].round, g[s].results = f[s].results,
         \A id \in Ids : Past(f, id) => Past(g, id)
  PROVE  StreamWell(g, s, unread \o <<Called(CallOf(f[s], s))>>)
<1> DEFINE id == CallOf(f[s], s)
           es == <<Called(id)>>
           e == unread \o es
<1>1. unread \in Seq(ChatEvent) /\ f[s].round \in Nat /\ Len(f[s].results) \in Nat
  BY ChatAssumption DEF StreamWell, TurnRecord
<1>2. id \in Ids /\ id[1] = s /\ id[2] = f[s].round /\ id[3] = Len(f[s].results) + 1
  BY <1>1 DEF CallOf, Ids
<1>3. Past(g, id) /\ ~Past(f, id) /\ id = CallOf(g[s], s)
  BY <1>1, <1>2 DEF Past, CallOf, Before
<1> HIDE DEF id
<1>4. Called(id) \in ChatEvent /\ Called(id).event = "tool_call" /\ Called(id).id = id
  BY <1>2 DEF ChatEvent, Called
<1>5. es \in Seq(ChatEvent) /\ Len(es) = 1 /\ es[1] = Called(id) /\ DOMAIN es = {1}
  <2> HIDE DEF es
  <2>1. es = <<Called(id)>>
    BY DEF es
  <2>2. QED
    BY <1>4, <2>1
<1> HIDE DEF es
<1>6. /\ e \in Seq(ChatEvent) /\ Len(e) = Len(unread) + Len(es)
      /\ \A i \in DOMAIN unread : e[i] = unread[i]
      /\ \A i \in DOMAIN es : e[Len(unread) + i] = es[i]
      /\ \A i \in DOMAIN e : i \in DOMAIN unread \/ i - Len(unread) \in DOMAIN es
  BY <1>1, <1>5, Joined
<1> HIDE DEF e
<1>7. /\ Len(unread) \in Nat /\ DOMAIN unread = 1..Len(unread) /\ Len(e) = Len(unread) + 1
      /\ DOMAIN e = 1..Len(e) /\ e[Len(e)] = Called(id) /\ e # <<>>
      /\ \A i \in DOMAIN e : i \in DOMAIN unread \/ i = Len(e)
  BY <1>1, <1>5, <1>6
<1>8. \A i \in DOMAIN unread :
        /\ unread[i].event # "done"
        /\ unread[i].event = "tool_call" => i # Len(unread) /\ unread[i].id # id /\ unread[i].id \in Ids
  BY <1>1, <1>3 DEF StreamWell, ChatEvent
<1>9. ASSUME NEW i \in DOMAIN e
      PROVE  /\ e[i].event # "done"
             /\ e[i].event = "tool_call" =>
                  /\ Past(g, e[i].id)
                  /\ \A j \in DOMAIN e : e[j] = e[i] => j = i
                  /\ i # Len(e) => e[i + 1] = Returned(e[i].id)
             /\ e[i].event = "tool_result" /\ i # 1 => e[i - 1] = Called(e[i].id)
  <2>1. CASE i \in DOMAIN unread
    <3>1. e[i] = unread[i] /\ e[i].event # "done"
      BY <1>6, <1>8, <2>1
    <3>2. ASSUME e[i].event = "tool_call"
          PROVE  /\ Past(g, e[i].id)
                 /\ \A j \in DOMAIN e : e[j] = e[i] => j = i
                 /\ i # Len(e) => e[i + 1] = Returned(e[i].id)
      <4>1. Past(g, e[i].id)
        BY <1>8, <2>1, <3>1, <3>2 DEF StreamWell
      <4>2. ASSUME NEW j \in DOMAIN e, e[j] = e[i] PROVE j = i
        <5>1. j # Len(e)
          BY <1>4, <1>7, <1>8, <2>1, <3>1, <3>2, <4>2
        <5>2. j \in DOMAIN unread /\ unread[j] = unread[i]
          BY <1>6, <1>7, <3>1, <4>2, <5>1
        <5>3. QED
          BY <2>1, <3>1, <3>2, <5>2 DEF StreamWell
      <4>3. i # Len(unread) /\ unread[i + 1] = Returned(unread[i].id)
        BY <1>8, <2>1, <3>1, <3>2 DEF StreamWell
      <4>4. i + 1 \in DOMAIN unread
        BY <1>7, <2>1, <4>3
      <4>5. e[i + 1] = Returned(e[i].id)
        BY <1>6, <3>1, <4>3, <4>4
      <4>6. QED
        BY <4>1, <4>2, <4>5
    <3>3. ASSUME e[i].event = "tool_result", i # 1 PROVE e[i - 1] = Called(e[i].id)
      <4>1. i - 1 \in DOMAIN unread /\ unread[i - 1] = Called(unread[i].id)
        BY <1>7, <2>1, <3>1, <3>3 DEF StreamWell
      <4>2. QED
        BY <1>6, <3>1, <4>1
    <3>4. QED
      BY <3>1, <3>2, <3>3
  <2>2. CASE i = Len(e)
    <3>1. e[i] = Called(id) /\ e[i].event = "tool_call" /\ e[i].id = id
      BY <1>4, <1>7, <2>2
    <3>2. ASSUME NEW j \in DOMAIN e, e[j] = e[i] PROVE j = i
      <4>1. j \notin DOMAIN unread
        BY <1>6, <1>8, <3>1, <3>2
      <4>2. QED
        BY <1>7, <2>2, <4>1
    <3>3. QED
      BY <1>3, <2>2, <3>1, <3>2
  <2>3. QED
    BY <1>7, <2>1, <2>2
<1>10. g[s].phase \notin Before /\ g[s].phase # "over"
  BY DEF Before
<1>11. StreamWell(g, s, e)
  BY <1>3, <1>6, <1>7, <1>9, <1>10 DEF StreamWell
<1>12. QED
  BY <1>11 DEF e, es, id

LEMMA CalledShown ==
  ASSUME NEW f \in [Turns -> TurnRecord], NEW g \in [Turns -> TurnRecord], NEW s \in Turns,
         NEW unread, NEW said \in Shown, NEW how,
         StreamWell(f, s, unread), ShownWell(f, s, unread, said, how),
         f[s].phase = "calling", g[s].phase = "waiting",
         \A id \in Ids : Past(f, id) => Past(g, id)
  PROVE  ShownWell(g, s, unread \o <<Called(CallOf(f[s], s))>>, said, how)
<1> DEFINE id == CallOf(f[s], s)
           es == <<Called(id)>>
           e == unread \o es
<1>1. unread \in Seq(ChatEvent) /\ f[s].round \in Nat /\ Len(f[s].results) \in Nat
  BY ChatAssumption DEF StreamWell, TurnRecord
<1>2. id \in Ids /\ id[1] = s /\ id[2] = f[s].round /\ id[3] = Len(f[s].results) + 1
  BY <1>1 DEF CallOf, Ids
<1>3. ~Past(f, id)
  BY <1>1, <1>2 DEF Past
<1> HIDE DEF id
<1>4. Called(id) \in ChatEvent /\ Called(id).event = "tool_call" /\ Called(id).id = id
  BY <1>2 DEF ChatEvent, Called
<1>5. es \in Seq(ChatEvent) /\ Len(es) = 1 /\ es[1] = Called(id) /\ DOMAIN es = {1}
  <2> HIDE DEF es
  <2>1. es = <<Called(id)>>
    BY DEF es
  <2>2. QED
    BY <1>4, <2>1
<1> HIDE DEF es
<1>6. /\ e \in Seq(ChatEvent) /\ Len(e) = Len(unread) + Len(es)
      /\ \A i \in DOMAIN unread : e[i] = unread[i]
      /\ \A i \in DOMAIN es : e[Len(unread) + i] = es[i]
      /\ \A i \in DOMAIN e : i \in DOMAIN unread \/ i - Len(unread) \in DOMAIN es
  BY <1>1, <1>5, Joined
<1> HIDE DEF e
<1>7. /\ Len(unread) \in Nat /\ DOMAIN unread = 1..Len(unread) /\ Len(e) = Len(unread) + 1
      /\ e[Len(e)] = Called(id) /\ e # <<>> /\ 1 \in DOMAIN e
      /\ \A i \in DOMAIN e : (i \in DOMAIN unread /\ e[i] = unread[i]) \/ e[i] = Called(id)
  BY <1>1, <1>5, <1>6
<1>8. \A i \in DOMAIN said.entries : CallIn(said, i) => said.entries[i].id \in Ids
  BY DEF Shown, CallIn
<1>9. \A i \in DOMAIN said.entries :
        CallIn(said, i) => Past(g, said.entries[i].id) /\ said.entries[i].id # id
  BY <1>3, <1>8 DEF ShownWell
<1>10. g[s].phase \notin Before /\ g[s].phase # "over" /\ s # 0
  BY DEF Before, Turns
<1>11. ASSUME NEW i \in DOMAIN said.entries, Running(said, i)
       PROVE  /\ e # <<>> /\ e[1].event = "tool_result" /\ e[1].id = said.entries[i].id
              /\ i = Len(said.entries)
              /\ \A j \in DOMAIN said.entries :
                   CallIn(said, j) /\ said.entries[j].id = said.entries[i].id => j = i
  <2>1. unread # <<>> /\ unread[1].event = "tool_result" /\ unread[1].id = said.entries[i].id
    BY <1>10, <1>11 DEF ShownWell
  <2>2. 1 \in DOMAIN unread
    BY <1>1, <2>1
  <2>3. QED
    BY <1>6, <1>7, <1>11, <2>1, <2>2 DEF ShownWell
<1>12. ASSUME how = "whole", e[1].event = "tool_result" PROVE Awaits(said, e[1].id)
  <2>1. 1 \in DOMAIN unread /\ e[1] = unread[1]
    BY <1>4, <1>7, <1>12
  <2>2. unread # <<>>
    BY <2>1
  <2>3. QED
    BY <1>10, <1>12, <2>1, <2>2 DEF ShownWell
<1>13. ASSUME NEW i \in DOMAIN e, NEW j \in DOMAIN said.entries, e[i].event = "tool_call", CallIn(said, j)
       PROVE  said.entries[j].id # e[i].id
  <2>1. CASE i \in DOMAIN unread /\ e[i] = unread[i]
    BY <1>10, <1>13, <2>1 DEF ShownWell
  <2>2. CASE e[i] = Called(id)
    BY <1>4, <1>9, <1>13, <2>2
  <2>3. QED
    BY <1>7, <2>1, <2>2
<1>14. how = "whole" => \A i \in DOMAIN said.entries : said.entries[i].kind # "anomaly"
  BY DEF ShownWell
<1>15. ShownWell(g, s, e, said, how)
  BY <1>7, <1>9, <1>10, <1>11, <1>12, <1>13, <1>14 DEF ShownWell, Before
<1>16. QED
  BY <1>15 DEF e, es, id

(* So does its result.                                                      *)
LEMMA ReturnedStream ==
  ASSUME NEW f \in [Turns -> TurnRecord], NEW g \in [Turns -> TurnRecord], NEW s \in Turns,
         NEW unread, StreamWell(f, s, unread),
         f[s].phase = "waiting", g[s].phase = "calling",
         \A id \in Ids : Past(f, id) => Past(g, id)
  PROVE  StreamWell(g, s, unread \o <<Returned(CallOf(f[s], s))>>)
<1> DEFINE id == CallOf(f[s], s)
           es == <<Returned(id)>>
           e == unread \o es
<1>1. unread \in Seq(ChatEvent) /\ f[s].round \in Nat /\ Len(f[s].results) \in Nat
  BY ChatAssumption DEF StreamWell, TurnRecord
<1>2. id \in Ids
  BY <1>1 DEF CallOf, Ids
<1>3. unread # <<>> => unread[Len(unread)] = Called(id)
  BY DEF StreamWell
<1> HIDE DEF id
<1>4. /\ Returned(id) \in ChatEvent /\ Returned(id).event = "tool_result" /\ Returned(id).id = id
      /\ Called(id).event = "tool_call" /\ Called(id).id = id
  BY <1>2 DEF ChatEvent, Returned, Called
<1>5. es \in Seq(ChatEvent) /\ Len(es) = 1 /\ es[1] = Returned(id) /\ DOMAIN es = {1}
  <2> HIDE DEF es
  <2>1. es = <<Returned(id)>>
    BY DEF es
  <2>2. QED
    BY <1>4, <2>1
<1> HIDE DEF es
<1>6. /\ e \in Seq(ChatEvent) /\ Len(e) = Len(unread) + Len(es)
      /\ \A i \in DOMAIN unread : e[i] = unread[i]
      /\ \A i \in DOMAIN es : e[Len(unread) + i] = es[i]
      /\ \A i \in DOMAIN e : i \in DOMAIN unread \/ i - Len(unread) \in DOMAIN es
  BY <1>1, <1>5, Joined
<1> HIDE DEF e
<1>7. /\ Len(unread) \in Nat /\ DOMAIN unread = 1..Len(unread) /\ Len(e) = Len(unread) + 1
      /\ DOMAIN e = 1..Len(e) /\ e[Len(e)] = Returned(id) /\ e # <<>>
      /\ \A i \in DOMAIN e : i \in DOMAIN unread \/ i = Len(e)
  BY <1>1, <1>5, <1>6
<1>8. \A i \in DOMAIN unread :
        /\ unread[i].event # "done"
        /\ unread[i].event = "tool_call" => unread[i].id \in Ids
  BY <1>1 DEF StreamWell, ChatEvent
<1>9. ASSUME NEW i \in DOMAIN e
      PROVE  /\ e[i].event # "done"
             /\ e[i].event = "tool_call" =>
                  /\ Past(g, e[i].id)
                  /\ \A j \in DOMAIN e : e[j] = e[i] => j = i
                  /\ i # Len(e) /\ e[i + 1] = Returned(e[i].id)
             /\ e[i].event = "tool_result" /\ i # 1 => e[i - 1] = Called(e[i].id)
  <2>1. CASE i \in DOMAIN unread
    <3>1. e[i] = unread[i] /\ e[i].event # "done" /\ i # Len(e)
      BY <1>6, <1>7, <1>8, <2>1
    <3>2. ASSUME e[i].event = "tool_call"
          PROVE  /\ Past(g, e[i].id)
                 /\ \A j \in DOMAIN e : e[j] = e[i] => j = i
                 /\ e[i + 1] = Returned(e[i].id)
      <4>1. Past(g, e[i].id)
        BY <1>8, <2>1, <3>1, <3>2 DEF StreamWell
      <4>2. ASSUME NEW j \in DOMAIN e, e[j] = e[i] PROVE j = i
        <5>1. j # Len(e)
          BY <1>4, <1>7, <3>2, <4>2
        <5>2. j \in DOMAIN unread /\ unread[j] = unread[i]
          BY <1>6, <1>7, <3>1, <4>2, <5>1
        <5>3. QED
          BY <2>1, <3>1, <3>2, <5>2 DEF StreamWell
      <4>3. CASE i = Len(unread)
        <5>1. unread[i] = Called(id) /\ i + 1 = Len(e)
          BY <1>3, <1>7, <2>1, <4>3
        <5>2. QED
          BY <1>4, <1>7, <3>1, <4>1, <4>2, <5>1
      <4>4. CASE i # Len(unread)
        <5>1. unread[i + 1] = Returned(unread[i].id) /\ i + 1 \in DOMAIN unread
          BY <1>7, <2>1, <3>1, <3>2, <4>4 DEF StreamWell
        <5>2. QED
          BY <1>6, <3>1, <4>1, <4>2, <5>1
      <4>5. QED
        BY <4>3, <4>4
    <3>3. ASSUME e[i].event = "tool_result", i # 1 PROVE e[i - 1] = Called(e[i].id)
      <4>1. i - 1 \in DOMAIN unread /\ unread[i - 1] = Called(unread[i].id)
        BY <1>7, <2>1, <3>1, <3>3 DEF StreamWell
      <4>2. QED
        BY <1>6, <3>1, <4>1
    <3>4. QED
      BY <3>1, <3>2, <3>3
  <2>2. CASE i = Len(e)
    <3>1. e[i] = Returned(id) /\ e[i].event = "tool_result" /\ e[i].id = id
      BY <1>4, <1>7, <2>2
    <3>2. ASSUME i # 1 PROVE e[i - 1] = Called(id)
      <4>1. i - 1 \in DOMAIN unread /\ i - 1 = Len(unread) /\ unread # <<>>
        BY <1>7, <2>2, <3>2
      <4>2. QED
        BY <1>3, <1>6, <4>1
    <3>3. QED
      BY <3>1, <3>2
  <2>3. QED
    BY <1>7, <2>1, <2>2
<1>10. g[s].phase \notin Before /\ g[s].phase # "over" /\ g[s].phase # "waiting"
  BY DEF Before
<1>11. StreamWell(g, s, e)
  BY <1>6, <1>9, <1>10 DEF StreamWell
<1>12. QED
  BY <1>11 DEF e, es, id

LEMMA ReturnedShown ==
  ASSUME NEW f \in [Turns -> TurnRecord], NEW g \in [Turns -> TurnRecord], NEW s \in Turns,
         NEW unread, NEW said \in Shown, NEW how,
         StreamWell(f, s, unread), ShownWell(f, s, unread, said, how),
         f[s].phase = "waiting", g[s].phase = "calling",
         \A id \in Ids : Past(f, id) => Past(g, id)
  PROVE  ShownWell(g, s, unread \o <<Returned(CallOf(f[s], s))>>, said, how)
<1> DEFINE id == CallOf(f[s], s)
           es == <<Returned(id)>>
           e == unread \o es
<1>1. unread \in Seq(ChatEvent) /\ f[s].round \in Nat /\ Len(f[s].results) \in Nat
  BY ChatAssumption DEF StreamWell, TurnRecord
<1>2. id \in Ids
  BY <1>1 DEF CallOf, Ids
<1>3. g[s].phase \notin Before /\ g[s].phase # "over" /\ g[s].phase # "waiting" /\ s # 0
  BY DEF Before, Turns
<1>4. how = "whole" /\ unread = <<>> => Awaits(said, id)
  BY <1>3 DEF ShownWell
<1> HIDE DEF id
<1>5. Returned(id) \in ChatEvent /\ Returned(id).event = "tool_result" /\ Returned(id).id = id
  BY <1>2 DEF ChatEvent, Returned
<1>6. es \in Seq(ChatEvent) /\ Len(es) = 1 /\ es[1] = Returned(id) /\ DOMAIN es = {1}
  <2> HIDE DEF es
  <2>1. es = <<Returned(id)>>
    BY DEF es
  <2>2. QED
    BY <1>5, <2>1
<1> HIDE DEF es
<1>7. /\ e \in Seq(ChatEvent) /\ Len(e) = Len(unread) + Len(es)
      /\ \A i \in DOMAIN unread : e[i] = unread[i]
      /\ \A i \in DOMAIN es : e[Len(unread) + i] = es[i]
      /\ \A i \in DOMAIN e : i \in DOMAIN unread \/ i - Len(unread) \in DOMAIN es
  BY <1>1, <1>6, Joined
<1> HIDE DEF e
<1>8. /\ Len(unread) \in Nat /\ DOMAIN unread = 1..Len(unread) /\ Len(e) = Len(unread) + 1
      /\ e[Len(e)] = Returned(id) /\ e # <<>> /\ 1 \in DOMAIN e
      /\ \A i \in DOMAIN e : (i \in DOMAIN unread /\ e[i] = unread[i]) \/ e[i] = Returned(id)
  BY <1>1, <1>6, <1>7
<1>9. /\ unread = <<>> => e[1] = Returned(id)
      /\ unread # <<>> => 1 \in DOMAIN unread /\ e[1] = unread[1]
  BY <1>1, <1>6, <1>7, <1>8
<1>10. \A i \in DOMAIN said.entries : CallIn(said, i) => said.entries[i].id \in Ids
  BY DEF Shown, CallIn
<1>11. \A i \in DOMAIN said.entries : CallIn(said, i) => Past(g, said.entries[i].id)
  BY <1>10 DEF ShownWell
<1>12. ASSUME NEW i \in DOMAIN said.entries, Running(said, i)
       PROVE  /\ e # <<>> /\ e[1].event = "tool_result" /\ e[1].id = said.entries[i].id
              /\ i = Len(said.entries)
              /\ \A j \in DOMAIN said.entries :
                   CallIn(said, j) /\ said.entries[j].id = said.entries[i].id => j = i
  <2>1. \/ unread = <<>> /\ said.entries[i].id = id
        \/ unread # <<>> /\ unread[1].event = "tool_result" /\ unread[1].id = said.entries[i].id
    BY <1>3, <1>12 DEF ShownWell, id
  <2>2. e # <<>> /\ e[1].event = "tool_result" /\ e[1].id = said.entries[i].id
    BY <1>5, <1>8, <1>9, <2>1
  <2>3. /\ i = Len(said.entries)
        /\ \A j \in DOMAIN said.entries :
             CallIn(said, j) /\ said.entries[j].id = said.entries[i].id => j = i
    BY <1>12 DEF ShownWell
  <2>4. QED
    BY <2>2, <2>3
<1>13. ASSUME how = "whole", e[1].event = "tool_result" PROVE Awaits(said, e[1].id)
  <2>1. CASE unread = <<>>
    BY <1>4, <1>5, <1>9, <1>13, <2>1
  <2>2. CASE unread # <<>>
    BY <1>3, <1>9, <1>13, <2>2 DEF ShownWell
  <2>3. QED
    BY <2>1, <2>2
<1>14. ASSUME NEW i \in DOMAIN e, NEW j \in DOMAIN said.entries, e[i].event = "tool_call", CallIn(said, j)
       PROVE  said.entries[j].id # e[i].id
  <2>1. i \in DOMAIN unread /\ e[i] = unread[i]
    BY <1>5, <1>8, <1>14
  <2>2. QED
    BY <1>3, <1>14, <2>1 DEF ShownWell
<1>15. how = "whole" => \A i \in DOMAIN said.entries : said.entries[i].kind # "anomaly"
  BY DEF ShownWell
<1>16. ShownWell(g, s, e, said, how)
  BY <1>3, <1>8, <1>11, <1>12, <1>13, <1>14, <1>15 DEF ShownWell, Before
<1>17. QED
  BY <1>16 DEF e, es, id

-----------------------------------------------------------------------------
(* Another turn's steps leave a stream and its reader alone.                *)
LEMMA OtherStream ==
  ASSUME NEW f, NEW g, NEW s, NEW unread, StreamWell(f, s, unread), g[s] = f[s],
         \A id \in Ids : Past(f, id) => Past(g, id)
  PROVE  StreamWell(g, s, unread)
<1>1. \A i \in DOMAIN unread : unread[i].event = "tool_call" => unread[i].id \in Ids
  BY DEF StreamWell, ChatEvent
<1>2. \A i \in DOMAIN unread : unread[i].event = "tool_call" => Past(g, unread[i].id)
  BY <1>1 DEF StreamWell
<1>3. QED
  BY <1>2 DEF StreamWell

LEMMA OtherShown ==
  ASSUME NEW f, NEW g, NEW s, NEW unread, NEW said \in Shown, NEW how, ShownWell(f, s, unread, said, how),
         s # 0 => g[s] = f[s], \A id \in Ids : Past(f, id) => Past(g, id)
  PROVE  ShownWell(g, s, unread, said, how)
<1>1. \A i \in DOMAIN said.entries : CallIn(said, i) => said.entries[i].id \in Ids
  BY DEF Shown, CallIn
<1>2. \A i \in DOMAIN said.entries : CallIn(said, i) => Past(g, said.entries[i].id)
  BY <1>1 DEF ShownWell
<1>3. QED
  BY <1>2 DEF ShownWell

-----------------------------------------------------------------------------
(* An event is read.                                                        *)
LEMMA ReadStream ==
  ASSUME NEW f, NEW s, NEW unread, StreamWell(f, s, unread), unread # <<>>
  PROVE  StreamWell(f, s, Tail(unread))
<1> DEFINE e == Tail(unread)
<1>1. unread \in Seq(ChatEvent)
  BY DEF StreamWell
<1>2. /\ e \in Seq(ChatEvent) /\ Len(e) = Len(unread) - 1 /\ Len(unread) \in Nat
      /\ DOMAIN e = 1..Len(e) /\ DOMAIN unread = 1..Len(unread)
      /\ \A i \in DOMAIN e : i + 1 \in DOMAIN unread /\ e[i] = unread[i + 1] /\ i \in Nat
  BY <1>1
<1> HIDE DEF e
<1>3. e # <<>> => Len(e) \in DOMAIN e /\ e[Len(e)] = unread[Len(unread)]
  BY <1>2
<1>4. ASSUME NEW i \in DOMAIN e
      PROVE  /\ e[i].event = "done" => f[s].phase = "over" /\ i = Len(e)
             /\ e[i].event = "tool_call" =>
                  /\ Past(f, e[i].id)
                  /\ \A j \in DOMAIN e : e[j] = e[i] => j = i
                  /\ i = Len(e) => f[s].phase = "waiting"
                  /\ i # Len(e) => e[i + 1] = Returned(e[i].id)
             /\ e[i].event = "tool_result" /\ i # 1 => e[i - 1] = Called(e[i].id)
  <2>1. i + 1 \in DOMAIN unread /\ e[i] = unread[i + 1] /\ i \in Nat
    BY <1>2
  <2>2. e[i].event = "done" => f[s].phase = "over" /\ i = Len(e)
    BY <1>2, <2>1 DEF StreamWell
  <2>3. ASSUME e[i].event = "tool_call"
        PROVE  /\ Past(f, e[i].id)
               /\ \A j \in DOMAIN e : e[j] = e[i] => j = i
               /\ i = Len(e) => f[s].phase = "waiting"
               /\ i # Len(e) => e[i + 1] = Returned(e[i].id)
    <3>1. /\ Past(f, e[i].id) /\ (i + 1 = Len(unread) => f[s].phase = "waiting")
          /\ i + 1 # Len(unread) => unread[i + 1 + 1] = Returned(e[i].id)
          /\ \A j \in DOMAIN unread : unread[j] = unread[i + 1] => j = i + 1
      BY <2>1, <2>3 DEF StreamWell
    <3>2. ASSUME NEW j \in DOMAIN e, e[j] = e[i] PROVE j = i
      <4>1. j + 1 = i + 1 /\ j \in Nat
        BY <1>2, <2>1, <3>1, <3>2
      <4>2. QED
        BY <2>1, <4>1
    <3>3. ASSUME i # Len(e) PROVE e[i + 1] = Returned(e[i].id)
      <4>1. i + 1 \in DOMAIN e /\ i + 1 # Len(unread)
        BY <1>2, <2>1, <3>3
      <4>2. e[i + 1] = unread[i + 1 + 1]
        BY <1>2, <4>1
      <4>3. QED
        BY <3>1, <4>1, <4>2
    <3>4. i = Len(e) => i + 1 = Len(unread)
      BY <1>2, <2>1
    <3>5. QED
      BY <3>1, <3>2, <3>3, <3>4
  <2>4. ASSUME e[i].event = "tool_result", i # 1 PROVE e[i - 1] = Called(e[i].id)
    <3>1. i + 1 # 1 /\ i + 1 - 1 = i /\ i - 1 \in DOMAIN e /\ i - 1 + 1 = i
      BY <1>2, <2>1, <2>4
    <3>2. unread[i + 1 - 1] = Called(e[i].id)
      BY <2>1, <2>4, <3>1 DEF StreamWell
    <3>3. e[i - 1] = unread[i - 1 + 1]
      BY <1>2, <3>1
    <3>4. QED
      BY <3>1, <3>2, <3>3
  <2>5. QED
    BY <2>2, <2>3, <2>4
<1>5. /\ f[s].phase \notin Before
      /\ f[s].phase = "over" /\ e # <<>> => e[Len(e)].event = "done"
      /\ f[s].phase = "waiting" /\ e # <<>> => e[Len(e)] = Called(CallOf(f[s], s))
  BY <1>3 DEF StreamWell
<1>6. StreamWell(f, s, e)
  BY <1>2, <1>4, <1>5 DEF StreamWell
<1>7. QED
  BY <1>6 DEF e

(* The entry of the one call with an identity is found.                      *)
LEMMA EntryFound ==
  ASSUME NEW said \in Shown, NEW id, Awaits(said, id),
         \A j \in DOMAIN said.entries :
           CallIn(said, j) /\ said.entries[j].id = id => j = Len(said.entries)
  PROVE  EntryOf(said.entries, id) = Len(said.entries)
<1> DEFINE n == Len(said.entries)
           found == {i \in 1..n : said.entries[i].kind = "call" /\ said.entries[i].id = id}
<1>1. n \in 1..n /\ DOMAIN said.entries = 1..n /\ n \in Nat
  BY DEF Shown, Awaits
<1>2. found = {n}
  BY <1>1 DEF Awaits, PendingIn, CallIn
<1>3. EntryOf(said.entries, id) = IF found # {} THEN Min(found) ELSE 0
  BY DEF EntryOf, SelectInSeq
<1> HIDE DEF n, found
<1>4. Min({n}) = n
  <2>1. n <= n
    BY <1>1
  <2>2. QED
    BY <2>1 DEF Min
<1>5. QED
  BY <1>2, <1>3, <1>4 DEF n

(* What the first unread event tells of those after it.                     *)
LEMMA HeadTells ==
  ASSUME NEW f, NEW s, NEW unread, StreamWell(f, s, unread), unread # <<>>
  PROVE  LET e == Tail(unread)
             h == Head(unread)
         IN  /\ h = unread[1] /\ h \in ChatEvent /\ f[s].phase \notin Before
             /\ e # <<>> /\ e[1].event = "tool_result" => h = Called(e[1].id)
             /\ e = <<>> /\ f[s].phase = "waiting" => h = Called(CallOf(f[s], s))
             /\ e = <<>> /\ f[s].phase = "over" => h.event = "done"
             /\ h.event = "tool_call" =>
                  /\ h.id \in Ids /\ Past(f, h.id)
                  /\ IF e = <<>> THEN f[s].phase = "waiting" ELSE e[1] = Returned(h.id)
                  /\ \A i \in DOMAIN e : e[i].event = "tool_call" => e[i].id # h.id
             /\ \A i \in DOMAIN e : \E j \in DOMAIN unread : e[i] = unread[j]
<1> DEFINE e == Tail(unread)
           h == Head(unread)
<1>1. unread \in Seq(ChatEvent)
  BY DEF StreamWell
<1>2. /\ e \in Seq(ChatEvent) /\ Len(e) = Len(unread) - 1 /\ Len(unread) \in Nat
      /\ DOMAIN e = 1..Len(e) /\ DOMAIN unread = 1..Len(unread) /\ 1 \in DOMAIN unread
      /\ \A i \in DOMAIN e : i + 1 \in DOMAIN unread /\ e[i] = unread[i + 1] /\ i \in Nat /\ i # 0
      /\ h = unread[1] /\ h \in ChatEvent
  BY <1>1
<1> HIDE DEF e, h
<1>3. /\ e = <<>> => Len(unread) = 1
      /\ e # <<>> => 1 \in DOMAIN e /\ e[1] = unread[2] /\ 2 \in DOMAIN unread /\ Len(unread) # 1
  <2>1. CASE e = <<>>
    <3>1. Len(e) = 0
      BY <2>1
    <3>2. QED
      BY <1>2, <2>1, <3>1
  <2>2. CASE e # <<>>
    <3>1. Len(e) # 0 /\ Len(e) \in Nat
      BY <1>2, <2>2
    <3>2. 1 \in DOMAIN e /\ 1 + 1 = 2
      BY <1>2, <3>1
    <3>3. e[1] = unread[1 + 1] /\ 1 + 1 \in DOMAIN unread
      BY <1>2, <3>2
    <3>4. QED
      BY <1>2, <2>2, <3>1, <3>2, <3>3
  <2>3. QED
    BY <2>1, <2>2
<1>4. ASSUME e # <<>>, e[1].event = "tool_result" PROVE h = Called(e[1].id)
  <2>1. 2 \in DOMAIN unread /\ 2 # 1 /\ 2 - 1 = 1 /\ unread[2] = e[1]
    BY <1>3, <1>4
  <2>2. unread[2 - 1] = Called(unread[2].id)
    BY <1>4, <2>1 DEF StreamWell
  <2>3. QED
    BY <1>2, <2>1, <2>2
<1>5. /\ e = <<>> /\ f[s].phase = "waiting" => h = Called(CallOf(f[s], s))
      /\ e = <<>> /\ f[s].phase = "over" => h.event = "done"
      /\ f[s].phase \notin Before
  BY <1>2, <1>3 DEF StreamWell
<1>6. ASSUME h.event = "tool_call"
      PROVE  /\ h.id \in Ids /\ Past(f, h.id)
             /\ IF e = <<>> THEN f[s].phase = "waiting" ELSE e[1] = Returned(h.id)
             /\ \A i \in DOMAIN e : e[i].event = "tool_call" => e[i].id # h.id
  <2>1. h.id \in Ids /\ h = Called(h.id)
    BY <1>2, <1>6 DEF ChatEvent, Called
  <2>2. /\ Past(f, h.id) /\ (1 = Len(unread) => f[s].phase = "waiting")
        /\ (1 # Len(unread) => unread[1 + 1] = Returned(h.id))
        /\ \A j \in DOMAIN unread : unread[j] = h => j = 1
    BY <1>2, <1>6 DEF StreamWell
  <2>3. IF e = <<>> THEN f[s].phase = "waiting" ELSE e[1] = Returned(h.id)
    BY <1>3, <2>2
  <2>4. ASSUME NEW i \in DOMAIN e, e[i].event = "tool_call" PROVE e[i].id # h.id
    <3>1. i + 1 \in DOMAIN unread /\ e[i] = unread[i + 1] /\ i + 1 # 1
      BY <1>2
    <3>2. e[i] \in ChatEvent /\ e[i] = Called(e[i].id)
      BY <1>1, <2>4, <3>1 DEF ChatEvent, Called
    <3>3. QED
      BY <2>1, <2>2, <3>1, <3>2
  <2>5. QED
    BY <2>1, <2>2, <2>3, <2>4
<1>7. \A i \in DOMAIN e : \E j \in DOMAIN unread : e[i] = unread[j]
  BY <1>2
<1>8. QED
  BY <1>2, <1>4, <1>5, <1>6, <1>7 DEF e, h

(* EntryOf is the place of an entry of that call, or none.                   *)
LEMMA FoundOrNot ==
  ASSUME NEW entries, NEW id, NEW n \in Nat, n = Len(entries)
  PROVE  LET k == EntryOf(entries, id)
         IN  IF k = 0 THEN \A i \in 1..n : ~(entries[i].kind = "call" /\ entries[i].id = id)
             ELSE k \in 1..n /\ entries[k].kind = "call" /\ entries[k].id = id
<1> DEFINE found == {i \in 1..n : entries[i].kind = "call" /\ entries[i].id = id}
<1>1. EntryOf(entries, id) = IF found # {} THEN Min(found) ELSE 0
  BY DEF EntryOf, SelectInSeq
<1>2. ASSUME found # {} PROVE Min(found) \in found
  BY <1>2, LeastOf
<1>3. QED
  BY <1>1, <1>2

LEMMA FoldTyped ==
  ASSUME NEW said \in Shown, NEW h \in ChatEvent PROVE Fold(said, h) \in Shown
<1> DEFINE Kinds == [kind : {"person", "agent", "failure", "anomaly"}]
                      \cup [kind : {"call"}, id : Ids, result : {"pending", "arrived"}]
           told == Fold(said, h)
<1>1. /\ said.entries \in Seq(Kinds) /\ said.status \in BOOLEAN
      /\ said = [entries |-> said.entries, status |-> said.status]
  BY DEF Shown
<1>2. ASSUME NEW entries \in Seq(Kinds), NEW b \in BOOLEAN,
             told = [entries |-> entries, status |-> b]
      PROVE  told \in Shown
  <2> HIDE DEF told
  <2> QED
    BY <1>2 DEF Shown
<1>3. ASSUME NEW x \in Kinds, NEW b \in BOOLEAN,
             told = [entries |-> Append(said.entries, x), status |-> b]
      PROVE  told \in Shown
  <2> HIDE DEF told, Kinds
  <2>1. Append(said.entries, x) \in Seq(Kinds)
    BY <1>1
  <2>2. QED
    BY <1>2, <1>3, <2>1
<1>4. CASE h.event \in {"status", "done"}
  <2>1. told = [entries |-> said.entries, status |-> h.event = "status"]
    BY <1>1, <1>4 DEF Fold, AtDone, WithoutStatus
  <2>2. QED
    BY <1>1, <1>2, <2>1
<1>5. CASE h.event = "message"
  <2>1. told = [entries |-> Append(said.entries, Entry("agent")), status |-> said.status]
    BY <1>1, <1>5 DEF Fold, WithEntry
  <2>2. QED
    BY <1>1, <1>3, <2>1 DEF Entry
<1>6. CASE h.event = "error"
  <2>1. told = [entries |-> Append(said.entries, Entry("failure")), status |-> FALSE]
    BY <1>1, <1>6 DEF Fold, WithEntry, WithoutStatus
  <2>2. QED
    BY <1>3, <2>1 DEF Entry
<1>7. CASE h.event = "tool_call"
  <2> DEFINE x == [kind |-> "call", id |-> h.id, result |-> "pending"]
  <2>1. told = [entries |-> Append(said.entries, x), status |-> FALSE]
    BY <1>1, <1>7 DEF Fold, WithEntry, WithoutStatus
  <2>2. x \in Kinds
    BY <1>7 DEF ChatEvent
  <2>3. QED
    BY <1>3, <2>1, <2>2
<1>8. CASE h.event = "tool_result"
  <2> DEFINE k == EntryOf(said.entries, h.id)
             n == Len(said.entries)
  <2>1. CASE k = 0
    <3>1. told = [entries |-> Append(said.entries, Entry("anomaly")), status |-> said.status]
      BY <1>1, <1>8, <2>1 DEF Fold, WithEntry
    <3>2. QED
      BY <1>1, <1>3, <3>1 DEF Entry
  <2>2. CASE k # 0
    <3>1. k \in DOMAIN said.entries /\ said.entries[k].kind = "call"
      <4>1. DOMAIN said.entries = 1..n /\ n \in Nat
        BY <1>1
      <4>2. QED
        BY <2>2, <4>1, FoundOrNot
    <3>2. told = [said EXCEPT !.entries[k].result = "arrived"]
      BY <1>8, <2>2 DEF Fold
    <3> DEFINE entries == [said.entries EXCEPT ![k].result = "arrived"]
    <3> HIDE DEF k
    <3>3. told = [entries |-> entries, status |-> said.status]
      BY <1>1, <3>2
    <3>4. said.entries[k] \in [kind : {"call"}, id : Ids, result : {"pending", "arrived"}]
      BY <1>1, <3>1
    <3>5. [said.entries[k] EXCEPT !.result = "arrived"] \in Kinds
      BY <3>4
    <3>6. entries \in Seq(Kinds)
      <4> HIDE DEF Kinds
      <4> DEFINE x == [said.entries[k] EXCEPT !.result = "arrived"]
      <4>1. entries = [said.entries EXCEPT ![k] = x]
        BY <1>1
      <4>2. x \in Kinds
        BY <3>5
      <4> HIDE DEF x
      <4>3. QED
        BY <1>1, <3>1, <4>1, <4>2
    <3>7. QED
      BY <1>1, <1>2, <3>3, <3>6
  <2>3. QED
    BY <2>1, <2>2
<1>9. QED
  BY <1>4, <1>5, <1>6, <1>7, <1>8 DEF ChatEvent

(* An entry that is no call leaves nothing running that was not.              *)
LEMMA NothingRuns ==
  ASSUME NEW said \in Shown, NEW told \in Shown, NEW kinds, "call" \notin kinds,
         \A i \in DOMAIN said.entries : ~Running(said, i),
         \/ told.entries = said.entries
         \/ \E x \in [kind : kinds] : told.entries = Append(said.entries, x)
  PROVE  \A i \in DOMAIN told.entries :
           /\ ~Running(told, i)
           /\ \/ i \in DOMAIN said.entries /\ told.entries[i] = said.entries[i]
              \/ told.entries[i].kind \in kinds
           /\ CallIn(told, i) => i \in DOMAIN said.entries /\ CallIn(said, i)
                                 /\ told.entries[i].id = said.entries[i].id
<1>1. CASE told.entries = said.entries
  BY <1>1 DEF Running, PendingIn, CallIn, Explained
<1>2. CASE \E x \in [kind : kinds] : told.entries = Append(said.entries, x)
  <2>1. PICK x \in [kind : kinds] : told.entries = Append(said.entries, x)
    BY <1>2
  <2>2. x.kind \in kinds
    OBVIOUS
  <2>3. /\ DOMAIN said.entries = 1..Len(said.entries) /\ Len(said.entries) \in Nat
        /\ DOMAIN told.entries = 1..Len(told.entries) /\ Len(told.entries) = Len(said.entries) + 1
        /\ told.entries[Len(told.entries)] = x
        /\ \A i \in DOMAIN said.entries : told.entries[i] = said.entries[i]
    BY <2>1 DEF Shown
  <2>4. SUFFICES ASSUME NEW i \in DOMAIN told.entries
                 PROVE  /\ ~Running(told, i)
                        /\ \/ i \in DOMAIN said.entries /\ told.entries[i] = said.entries[i]
                           \/ told.entries[i].kind \in kinds
                        /\ CallIn(told, i) => i \in DOMAIN said.entries /\ CallIn(said, i)
                                              /\ told.entries[i].id = said.entries[i].id
    OBVIOUS
  <2>5. CASE i = Len(told.entries)
    <3>1. ~CallIn(told, i)
      BY <2>2, <2>3, <2>5 DEF CallIn
    <3>2. QED
      BY <2>2, <2>3, <2>5, <3>1 DEF Running, PendingIn
  <2>6. CASE i # Len(told.entries)
    <3>1. i \in DOMAIN said.entries /\ told.entries[i] = said.entries[i]
      BY <2>3, <2>6
    <3>2. ASSUME Explained(said, i) PROVE Explained(told, i)
      <4>1. i + 1 \in DOMAIN said.entries /\ i < Len(told.entries)
        BY <2>3, <3>1, <3>2 DEF Explained
      <4>2. QED
        BY <2>3, <3>2, <4>1 DEF Explained
    <3>3. ~Running(told, i)
      BY <3>1, <3>2 DEF Running, PendingIn, CallIn
    <3>4. QED
      BY <3>1, <3>3 DEF CallIn
  <2>7. QED
    BY <2>5, <2>6
<1>3. QED
  BY <1>1, <1>2

(* An event that is no call and no result: at most an entry that is none.     *)
LEMMA ReadPlain ==
  ASSUME NEW f, NEW s \in Turns, NEW unread, NEW said \in Shown, NEW told \in Shown, NEW how,
         StreamWell(f, s, unread), unread # <<>>, ShownWell(f, s, unread, said, how),
         Head(unread).event \notin {"tool_call", "tool_result"},
         \/ told.entries = said.entries
         \/ \E x \in [kind : {"agent", "failure"}] : told.entries = Append(said.entries, x),
         Head(unread).event = "done" => ~told.status
  PROVE  ShownWell(f, s, Tail(unread), told, how)
<1> DEFINE e == Tail(unread)
           h == Head(unread)
<1>1. /\ h = unread[1] /\ f[s].phase \notin Before /\ s # 0
      /\ e # <<>> => e[1].event # "tool_result"
      /\ ~(e = <<>> /\ f[s].phase = "waiting")
      /\ e = <<>> /\ f[s].phase = "over" => h.event = "done"
      /\ \A i \in DOMAIN e : \E j \in DOMAIN unread : e[i] = unread[j]
  BY HeadTells DEF Called, Turns
<1> HIDE DEF e
<1>2. \A i \in DOMAIN said.entries : ~Running(said, i)
  BY <1>1 DEF ShownWell
<1>3. \A i \in DOMAIN told.entries :
        /\ ~Running(told, i)
        /\ \/ i \in DOMAIN said.entries /\ told.entries[i] = said.entries[i]
           \/ told.entries[i].kind \in {"agent", "failure"}
        /\ CallIn(told, i) => i \in DOMAIN said.entries /\ CallIn(said, i)
                              /\ told.entries[i].id = said.entries[i].id
  <2> DEFINE kinds == {"agent", "failure"}
  <2>1. /\ "call" \notin kinds
        /\ \/ told.entries = said.entries
           \/ \E x \in [kind : kinds] : told.entries = Append(said.entries, x)
    OBVIOUS
  <2> HIDE DEF kinds
  <2>2. \A i \in DOMAIN told.entries :
          /\ ~Running(told, i)
          /\ \/ i \in DOMAIN said.entries /\ told.entries[i] = said.entries[i]
             \/ told.entries[i].kind \in kinds
          /\ CallIn(told, i) => i \in DOMAIN said.entries /\ CallIn(said, i)
                                /\ told.entries[i].id = said.entries[i].id
    BY <1>2, <2>1, NothingRuns
  <2>3. QED
    BY <2>2 DEF kinds
<1>4. how = "whole" => \A i \in DOMAIN told.entries : told.entries[i].kind # "anomaly"
  BY <1>3 DEF ShownWell
<1>5. \A i \in DOMAIN told.entries : CallIn(told, i) => Past(f, told.entries[i].id)
  BY <1>3 DEF ShownWell
<1>6. ASSUME NEW i \in DOMAIN e, NEW j \in DOMAIN told.entries, e[i].event = "tool_call", CallIn(told, j)
      PROVE  told.entries[j].id # e[i].id
  <2>1. PICK k \in DOMAIN unread : e[i] = unread[k]
    BY <1>1
  <2>2. QED
    BY <1>1, <1>3, <1>6, <2>1 DEF ShownWell
<1>7. \A i \in DOMAIN told.entries : ~Running(told, i)
  BY <1>3
<1>8. ShownWell(f, s, e, told, how)
  BY <1>1, <1>4, <1>5, <1>6, <1>7 DEF ShownWell, Before
<1>9. QED
  BY <1>8 DEF e

(* A call: the last entry waits for what comes next.                        *)
LEMMA ReadCall ==
  ASSUME NEW f, NEW s \in Turns, NEW unread, NEW said \in Shown, NEW told \in Shown, NEW how,
         StreamWell(f, s, unread), unread # <<>>, ShownWell(f, s, unread, said, how),
         Head(unread).event = "tool_call",
         told.entries = Append(said.entries, [kind |-> "call", id |-> Head(unread).id, result |-> "pending"])
  PROVE  ShownWell(f, s, Tail(unread), told, how)
<1> DEFINE e == Tail(unread)
           h == Head(unread)
           x == [kind |-> "call", id |-> h.id, result |-> "pending"]
<1>1. /\ h = unread[1] /\ f[s].phase \notin Before /\ s # 0
      /\ e # <<>> => e[1] = Returned(h.id)
      /\ e = <<>> => f[s].phase = "waiting" /\ h = Called(CallOf(f[s], s))
      /\ h.id \in Ids /\ Past(f, h.id)
      /\ \A i \in DOMAIN e : e[i].event = "tool_call" => e[i].id # h.id
      /\ \A i \in DOMAIN e : \E j \in DOMAIN unread : e[i] = unread[j]
  <2>1. s # 0
    BY DEF Turns
  <2>2. /\ h = unread[1] /\ f[s].phase \notin Before
        /\ h.id \in Ids /\ Past(f, h.id)
        /\ IF e = <<>> THEN f[s].phase = "waiting" ELSE e[1] = Returned(h.id)
        /\ e = <<>> /\ f[s].phase = "waiting" => h = Called(CallOf(f[s], s))
        /\ \A i \in DOMAIN e : e[i].event = "tool_call" => e[i].id # h.id
        /\ \A i \in DOMAIN e : \E j \in DOMAIN unread : e[i] = unread[j]
    BY HeadTells
  <2> HIDE DEF e, h
  <2>3. QED
    BY <2>1, <2>2
<1>2. 1 \in DOMAIN unread
  BY DEF StreamWell
<1> HIDE DEF e
<1>3. \A i \in DOMAIN said.entries : ~Running(said, i) /\ (CallIn(said, i) => said.entries[i].id # h.id)
  BY <1>1, <1>2 DEF ShownWell
<1>4. x.kind = "call" /\ x.id = h.id /\ x.result = "pending"
  OBVIOUS
<1> HIDE DEF x
<1>5. /\ DOMAIN said.entries = 1..Len(said.entries) /\ Len(said.entries) \in Nat
      /\ DOMAIN told.entries = 1..Len(told.entries) /\ Len(told.entries) = Len(said.entries) + 1
      /\ told.entries[Len(told.entries)] = x /\ told.entries # <<>>
      /\ \A i \in DOMAIN said.entries : told.entries[i] = said.entries[i]
  <2>1. told.entries = Append(said.entries, x)
    BY DEF x
  <2>2. QED
    BY <2>1 DEF Shown
<1>6. \A i \in DOMAIN told.entries :
        \/ (i \in DOMAIN said.entries /\ told.entries[i] = said.entries[i])
        \/ (i = Len(told.entries) /\ told.entries[i] = x)
  BY <1>5
<1>7. \A i \in DOMAIN told.entries :
        /\ how = "whole" => told.entries[i].kind # "anomaly"
        /\ CallIn(told, i) => Past(f, told.entries[i].id)
        /\ Running(told, i) => i = Len(told.entries)
        /\ CallIn(told, i) /\ told.entries[i].id = h.id => i = Len(told.entries)
  <2>1. ASSUME NEW i \in DOMAIN said.entries, Running(told, i) PROVE FALSE
    <3>1. Explained(said, i) /\ ~Explained(told, i)
      BY <1>3, <1>5, <2>1 DEF Running, PendingIn, CallIn
    <3>2. i + 1 \in DOMAIN said.entries /\ i < Len(told.entries)
      BY <1>5, <2>1, <3>1 DEF Explained
    <3>3. QED
      BY <1>5, <3>1, <3>2 DEF Explained
  <2>2. QED
    BY <1>1, <1>3, <1>4, <1>6, <2>1 DEF ShownWell, CallIn
<1>8. Awaits(told, h.id)
  BY <1>4, <1>5 DEF Awaits, PendingIn, CallIn
<1>9. \A i \in DOMAIN told.entries : Running(told, i) =>
        /\ told.entries[i].id = h.id
        /\ \A j \in DOMAIN told.entries :
             CallIn(told, j) /\ told.entries[j].id = told.entries[i].id => j = i
  BY <1>4, <1>5, <1>7
<1>10. /\ e = <<>> => Awaits(told, CallOf(f[s], s))
       /\ e # <<>> => e[1].event = "tool_result" /\ e[1].id = h.id
  BY <1>1, <1>8 DEF Called, Returned
<1>11. ASSUME NEW i \in DOMAIN e, NEW j \in DOMAIN told.entries, e[i].event = "tool_call", CallIn(told, j)
       PROVE  told.entries[j].id # e[i].id
  <2>1. PICK k \in DOMAIN unread : e[i] = unread[k]
    BY <1>1
  <2>2. CASE j \in DOMAIN said.entries /\ told.entries[j] = said.entries[j]
    BY <1>1, <1>11, <2>1, <2>2 DEF ShownWell, CallIn
  <2>3. CASE told.entries[j] = x
    BY <1>1, <1>4, <1>11, <2>3
  <2>4. QED
    BY <1>6, <2>2, <2>3
<1>12. /\ f[s].phase \notin {"posted", "refused"}
       /\ ~(f[s].phase = "over" /\ e = <<>>)
  BY <1>1 DEF Before
<1>13. ShownWell(f, s, e, told, how)
  <2>1. \A i \in DOMAIN told.entries : Running(told, i) =>
          \/ e = <<>> /\ f[s].phase = "waiting" /\ told.entries[i].id = CallOf(f[s], s)
          \/ e # <<>> /\ e[1].event = "tool_result" /\ e[1].id = told.entries[i].id
    BY <1>1, <1>9, <1>10 DEF Called
  <2>2. /\ f[s].phase = "waiting" /\ e = <<>> => Awaits(told, CallOf(f[s], s))
        /\ e # <<>> /\ e[1].event = "tool_result" => Awaits(told, e[1].id)
    BY <1>8, <1>10
  <2>3. \A i \in DOMAIN told.entries : Running(told, i) =>
          /\ i = Len(told.entries)
          /\ \A j \in DOMAIN told.entries :
               CallIn(told, j) /\ told.entries[j].id = told.entries[i].id => j = i
    BY <1>7, <1>9
  <2>4. \A i \in DOMAIN told.entries :
          /\ how = "whole" => told.entries[i].kind # "anomaly"
          /\ CallIn(told, i) => Past(f, told.entries[i].id)
    BY <1>7
  <2>5. QED
    BY <1>1, <1>11, <1>12, <2>1, <2>2, <2>3, <2>4 DEF ShownWell
<1>14. QED
  BY <1>13 DEF e

(* A result: its call's, if that is still there.                              *)
LEMMA ReadResult ==
  ASSUME NEW f, NEW s \in Turns, NEW unread, NEW said \in Shown, NEW how,
         StreamWell(f, s, unread), unread # <<>>, ShownWell(f, s, unread, said, how),
         Head(unread).event = "tool_result"
  PROVE  ShownWell(f, s, Tail(unread), Fold(said, Head(unread)), how)
<1> DEFINE e == Tail(unread)
           h == Head(unread)
           n == Len(said.entries)
           k == EntryOf(said.entries, h.id)
           told == Fold(said, h)
<1>1. /\ h = unread[1] /\ h \in ChatEvent /\ f[s].phase \notin Before /\ s # 0
      /\ e # <<>> => e[1].event # "tool_result"
      /\ ~(e = <<>> /\ f[s].phase = "waiting")
      /\ ~(e = <<>> /\ f[s].phase = "over")
      /\ \A i \in DOMAIN e : \E j \in DOMAIN unread : e[i] = unread[j]
  BY HeadTells DEF Called, Turns
<1> HIDE DEF e
<1>2. n \in Nat /\ DOMAIN said.entries = 1..n
  BY DEF Shown
<1>3. told \in Shown
  BY <1>1, FoldTyped
<1>4. IF k = 0 THEN \A i \in 1..n : ~(CallIn(said, i) /\ said.entries[i].id = h.id)
      ELSE k \in 1..n /\ CallIn(said, k) /\ said.entries[k].id = h.id
  BY <1>2, FoundOrNot DEF CallIn
<1>5. \A i \in DOMAIN said.entries : Running(said, i) =>
        said.entries[i].id = h.id /\ (k # 0 => i = k)
  <2>1. \A i \in DOMAIN said.entries : Running(said, i) => said.entries[i].id = h.id
    BY <1>1 DEF ShownWell
  <2>2. QED
    BY <1>2, <1>4, <2>1 DEF ShownWell
<1>6. how = "whole" => k # 0
  <2>1. how = "whole" => Awaits(said, h.id)
    BY <1>1 DEF ShownWell
  <2>2. QED
    BY <1>2, <1>4, <2>1 DEF Awaits, PendingIn
<1>7. /\ \A i \in DOMAIN told.entries :
           /\ ~Running(told, i)
           /\ how = "whole" => told.entries[i].kind # "anomaly"
           /\ CallIn(told, i) => i \in DOMAIN said.entries /\ CallIn(said, i)
                                 /\ told.entries[i].id = said.entries[i].id
  <2>1. CASE k = 0
    <3>1. \A i \in DOMAIN said.entries : ~Running(said, i)
      BY <1>2, <1>4, <1>5, <2>1 DEF Running, PendingIn
    <3>2. \E x \in [kind : {"anomaly"}] : told.entries = Append(said.entries, x)
      <4>1. said = [entries |-> said.entries, status |-> said.status]
        BY DEF Shown
      <4>2. told.entries = Append(said.entries, Entry("anomaly"))
        BY <2>1, <4>1 DEF Fold, WithEntry
      <4>3. Entry("anomaly") \in [kind : {"anomaly"}]
        BY DEF Entry
      <4>4. QED
        BY <4>2, <4>3
    <3> DEFINE kinds == {"anomaly"}
    <3>3. "call" \notin kinds /\ \E x \in [kind : kinds] : told.entries = Append(said.entries, x)
      BY <3>2
    <3> HIDE DEF told, k, kinds
    <3>4. \A i \in DOMAIN told.entries :
            /\ ~Running(told, i)
            /\ CallIn(told, i) => i \in DOMAIN said.entries /\ CallIn(said, i)
                                  /\ told.entries[i].id = said.entries[i].id
      BY <1>3, <3>1, <3>3, NothingRuns
    <3>5. QED
      BY <1>6, <2>1, <3>4
  <2>2. CASE k # 0
    <3>1. k \in 1..n /\ CallIn(said, k) /\ said.entries[k].id = h.id
      BY <1>4, <2>2
    <3>2. told = [said EXCEPT !.entries[k].result = "arrived"]
      BY <2>2 DEF Fold
    <3> HIDE DEF told, k
    <3>3. told.entries = [said.entries EXCEPT ![k] = [said.entries[k] EXCEPT !.result = "arrived"]]
      <4>1. said = [entries |-> said.entries, status |-> said.status]
        BY DEF Shown
      <4>2. QED
        BY <3>2, <4>1
    <3>4. said.entries[k] \in [kind : {"call"}, id : Ids, result : {"pending", "arrived"}]
      BY <1>2, <3>1 DEF Shown, CallIn
    <3>5. /\ told.entries[k].kind = "call" /\ told.entries[k].id = said.entries[k].id
          /\ told.entries[k].result = "arrived"
      BY <1>2, <3>1, <3>3, <3>4
    <3>6. /\ DOMAIN told.entries = DOMAIN said.entries /\ Len(told.entries) = n
          /\ \A i \in DOMAIN said.entries : i # k => told.entries[i] = said.entries[i]
      BY <1>2, <1>3, <3>3 DEF Shown
    <3>7. \A i \in DOMAIN said.entries : told.entries[i].kind = said.entries[i].kind
      BY <3>1, <3>5, <3>6 DEF CallIn
    <3>8. ASSUME NEW i \in DOMAIN said.entries, Running(told, i) PROVE FALSE
      <4>1. i # k
        BY <3>5, <3>8 DEF Running, PendingIn
      <4>2. PendingIn(said, i) /\ ~Explained(told, i)
        BY <3>6, <3>8, <4>1 DEF Running, PendingIn, CallIn
      <4>3. ASSUME Explained(said, i) PROVE Explained(told, i)
        <5>1. i + 1 \in DOMAIN said.entries
          BY <1>2, <4>3 DEF Explained
        <5>2. QED
          BY <3>6, <3>7, <4>3, <5>1 DEF Explained
      <4>4. Running(said, i)
        BY <4>2, <4>3 DEF Running
      <4>5. QED
        BY <1>5, <2>2, <4>1, <4>4 DEF k
    <3>9. \A i \in DOMAIN told.entries :
            /\ how = "whole" => told.entries[i].kind # "anomaly"
            /\ CallIn(told, i) => CallIn(said, i) /\ told.entries[i].id = said.entries[i].id
      BY <3>5, <3>6, <3>7 DEF ShownWell, CallIn
    <3>10. QED
      BY <3>6, <3>8, <3>9
  <2>3. QED
    BY <2>1, <2>2
<1> HIDE DEF told
<1>8. \A i \in DOMAIN told.entries : CallIn(told, i) => Past(f, told.entries[i].id)
  BY <1>7 DEF ShownWell
<1>9. ASSUME NEW i \in DOMAIN e, NEW j \in DOMAIN told.entries, e[i].event = "tool_call", CallIn(told, j)
      PROVE  told.entries[j].id # e[i].id
  <2>1. PICK m \in DOMAIN unread : e[i] = unread[m]
    BY <1>1
  <2>2. QED
    BY <1>1, <1>7, <1>9, <2>1 DEF ShownWell
<1>10. /\ \A i \in DOMAIN told.entries : ~Running(told, i)
       /\ how = "whole" => \A i \in DOMAIN told.entries : told.entries[i].kind # "anomaly"
  BY <1>7
<1>11. ShownWell(f, s, e, told, how)
  BY <1>1, <1>8, <1>9, <1>10 DEF ShownWell, Before
<1>12. QED
  BY <1>11 DEF e, told

LEMMA ReadShown ==
  ASSUME NEW f, NEW s \in Turns, NEW unread, NEW said \in Shown, NEW how,
         StreamWell(f, s, unread), unread # <<>>, ShownWell(f, s, unread, said, how)
  PROVE  LET told == Fold(said, Head(unread))
         IN  told \in Shown /\ ShownWell(f, s, Tail(unread), told, how)
<1> DEFINE h == Head(unread)
           told == Fold(said, h)
<1>1. h \in ChatEvent
  BY HeadTells
<1>2. said.entries \in Seq([kind : {"person", "agent", "failure", "anomaly"}]
                   \cup [kind : {"call"}, id : Ids, result : {"pending", "arrived"}])
      /\ said.status \in BOOLEAN /\ said = [entries |-> said.entries, status |-> said.status]
  BY DEF Shown
<1>3. CASE h.event = "tool_result"
  BY <1>1, <1>3, ReadResult, FoldTyped
<1>4. CASE h.event = "tool_call"
  <2> DEFINE x == [kind |-> "call", id |-> h.id, result |-> "pending"]
  <2>1. told = [entries |-> Append(said.entries, x), status |-> FALSE]
    BY <1>2, <1>4 DEF Fold, WithEntry, WithoutStatus
  <2>2. x \in [kind : {"call"}, id : Ids, result : {"pending", "arrived"}]
    BY <1>1, <1>4 DEF ChatEvent
  <2>3. told.entries = Append(said.entries, x)
    BY <2>1
  <2> HIDE DEF told, x
  <2>4. told \in Shown
    <3>1. Append(said.entries, x) \in Seq([kind : {"person", "agent", "failure", "anomaly"}]
                   \cup [kind : {"call"}, id : Ids, result : {"pending", "arrived"}])
      BY <1>2, <2>2
    <3>2. QED
      BY <2>1, <3>1 DEF Shown
  <2>5. ShownWell(f, s, Tail(unread), told, how)
    BY <1>4, <2>3, <2>4, ReadCall DEF x
  <2>6. QED
    BY <2>4, <2>5 DEF told
<1>5. CASE h.event \in {"message", "error"}
  <2>1. PICK x \in [kind : {"agent", "failure"}], b \in BOOLEAN :
          told = [entries |-> Append(said.entries, x), status |-> b]
    <3>1. Entry("agent") \in [kind : {"agent", "failure"}] /\ Entry("failure") \in [kind : {"agent", "failure"}]
      BY DEF Entry
    <3>2. CASE h.event = "message"
      <4>1. told = [entries |-> Append(said.entries, Entry("agent")), status |-> said.status]
        BY <1>2, <3>2 DEF Fold, WithEntry
      <4>2. QED
        BY <1>2, <3>1, <4>1
    <3>3. CASE h.event = "error"
      <4>1. told = [entries |-> Append(said.entries, Entry("failure")), status |-> FALSE]
        BY <1>2, <3>3 DEF Fold, WithEntry, WithoutStatus
      <4>2. QED
        BY <3>1, <4>1
    <3>4. QED
      BY <1>5, <3>2, <3>3
  <2> HIDE DEF told
  <2>2. told.entries = Append(said.entries, x)
    BY <2>1
  <2>3. x \in [kind : {"person", "agent", "failure", "anomaly"}]
    OBVIOUS
  <2>4. told \in Shown
    BY <1>2, <2>1, <2>3 DEF Shown
  <2>5. ShownWell(f, s, Tail(unread), told, how)
    BY <1>5, <2>2, <2>4, ReadPlain
  <2>6. QED
    BY <2>4, <2>5 DEF told
<1>6. CASE h.event \in {"status", "done"}
  <2>1. told = [entries |-> said.entries, status |-> h.event = "status"]
    BY <1>2, <1>6 DEF Fold, AtDone, WithoutStatus
  <2> HIDE DEF told
  <2>2. told.entries = said.entries /\ (h.event = "done" => ~told.status)
    BY <2>1
  <2>3. told \in Shown
    BY <1>2, <2>1 DEF Shown
  <2>4. ShownWell(f, s, Tail(unread), told, how)
    BY <1>6, <2>2, <2>3, ReadPlain
  <2>5. QED
    BY <2>3, <2>4 DEF told
<1>7. QED
  BY <1>1, <1>3, <1>4, <1>5, <1>6 DEF ChatEvent

-----------------------------------------------------------------------------
(* The steps.                                                               *)
(* A stream nobody reads any more. *)
LEMMA EmptyStream == ASSUME NEW g, NEW s PROVE StreamWell(g, s, <<>>)
BY DEF StreamWell

LEMMA PastAll ==
  ASSUME TalkInv, TalkInv', \A r \in Turns : turn'[r] = turn[r] \/ Grows(turn[r], turn'[r])
  PROVE  \A id \in Ids : Past(turn, id) => Past(turn', id)
<1> SUFFICES ASSUME NEW id \in Ids, Past(turn, id) PROVE Past(turn', id)
  OBVIOUS
<1>1. id[1] \in Turns /\ turn \in [Turns -> TurnRecord] /\ turn' \in [Turns -> TurnRecord]
  BY DEF Ids, TalkInv
<1>2. CASE turn'[id[1]] = turn[id[1]]
  BY <1>2 DEF Past
<1>3. CASE Grows(turn[id[1]], turn'[id[1]])
  BY <1>1, <1>3, PastStays
<1>4. QED
  BY <1>1, <1>2, <1>3

Ways == {"whole", "emptied"}

LEMMA StreamsMove ==
  ASSUME LinkInv, ReaderInv, UNCHANGED <<transcript, busy, wiped>>, DOMAIN events' = Turns,
         \A id \in Ids : Past(turn, id) => Past(turn', id),
         \A r \in Turns :
           /\ turn[r].phase # "free" => turn'[r].phase # "free"
           /\ StreamWell(turn', r, events'[r])
           /\ HasReader(r) => \A said \in Shown, how \in Ways :
                ShownWell(turn, r, events[r], said, how) => ShownWell(turn', r, events'[r], said, how)
  PROVE  StreamInv' /\ ReaderInv'
<1>1. StreamInv'
  BY DEF StreamInv
<1>2. \A p \in Pages : busy[p] = 0 \/ busy[p] \in Turns
  BY ChatAssumption DEF LinkInv, Turns
<1>3. 0 \notin Turns
  BY DEF Turns
<1>4. ASSUME NEW p \in Pages
      PROVE  ShownWell(turn', busy[p], IF busy[p] = 0 THEN <<>> ELSE events'[busy[p]], transcript[p],
                       Standing(p))
  <2>1. ShownWell(turn, busy[p], Unread(busy[p]), transcript[p], Standing(p)) /\ transcript[p] \in Shown
    BY DEF ReaderInv
  <2>2. CASE busy[p] = 0
    <3>1. ShownWell(turn, 0, <<>>, transcript[p], Standing(p))
      BY <2>1, <2>2 DEF Unread
    <3>2. ShownWell(turn', 0, <<>>, transcript[p], Standing(p))
      BY <2>1, <3>1, OtherShown
    <3>3. QED
      BY <2>2, <3>2
  <2>3. CASE busy[p] \in Turns
    <3>1. ShownWell(turn, busy[p], events[busy[p]], transcript[p], Standing(p))
      BY <1>3, <2>1, <2>3 DEF Unread
    <3>2. HasReader(busy[p]) /\ Standing(p) \in Ways
      BY DEF HasReader, Standing, Ways
    <3>3. QED
      BY <1>3, <2>1, <2>3, <3>1, <3>2
  <2>4. QED
    BY <1>2, <2>2, <2>3
<1>5. \A p \in Pages : busy[p] # 0 => turn'[busy[p]].phase # "free"
  BY <1>2 DEF ReaderInv
<1>6. ReaderInv'
  BY <1>4, <1>5 DEF ReaderInv, Unread, Standing
<1>7. QED
  BY <1>1, <1>6

(* Nothing is said: a request is on its way, a listing arrives or the         *)
(* connection goes, the model replies, a call is one the page never had.     *)
LEMMA QuietTurn ==
  ASSUME TalkInv, TalkInv', LinkInv, StreamInv, ReaderInv,
         UNCHANGED <<events, transcript, busy, wiped>>,
         \A r \in Turns : \/ turn'[r] = turn[r]
                          \/ /\ turn[r].phase \in Working /\ turn'[r].phase \in Working
                             /\ Grows(turn[r], turn'[r])
  PROVE  StreamInv' /\ ReaderInv'
<1>1. turn \in [Turns -> TurnRecord] /\ turn' \in [Turns -> TurnRecord]
  BY DEF TalkInv
<1>2. \A id \in Ids : Past(turn, id) => Past(turn', id)
  BY PastAll
<1>3. ASSUME NEW r \in Turns
      PROVE  /\ turn[r].phase # "free" => turn'[r].phase # "free"
             /\ StreamWell(turn', r, events'[r])
             /\ \A said \in Shown, how \in Ways :
                  ShownWell(turn, r, events[r], said, how) => ShownWell(turn', r, events'[r], said, how)
  <2>1. StreamWell(turn, r, events[r]) /\ events'[r] = events[r]
    BY DEF StreamInv
  <2>2. CASE turn'[r] = turn[r]
    BY <1>2, <2>1, <2>2, OtherStream, OtherShown
  <2>3. CASE /\ turn[r].phase \in Working /\ turn'[r].phase \in Working
    <3>1. Uneventful(<<>>, turn'[r].phase)
      BY <2>3 DEF Uneventful, Working
    <3>2. events[r] \in Seq(ChatEvent)
      BY <2>1 DEF StreamWell
    <3>3. events[r] \o <<>> = events[r]
      BY <3>2
    <3>4. StreamWell(turn', r, events[r] \o <<>>)
      BY <1>1, <1>2, <2>1, <2>3, <3>1, PlainStream
    <3>5. ASSUME NEW said \in Shown, NEW how, ShownWell(turn, r, events[r], said, how)
          PROVE  ShownWell(turn', r, events[r] \o <<>>, said, how)
      BY <1>1, <1>2, <2>1, <2>3, <3>1, <3>5, PlainShown
    <3>6. QED
      BY <2>1, <2>3, <3>3, <3>4, <3>5 DEF Working
  <2>4. QED
    BY <2>2, <2>3
<1>4. DOMAIN events' = Turns
  BY DEF StreamInv
<1>5. QED
  BY <1>2, <1>3, <1>4, StreamsMove

(* One turn says something, to the page that still reads it or to nobody.      *)
LEMMA OneSays ==
  ASSUME TalkInv, TalkInv', LinkInv, StreamInv, ReaderInv, NEW s \in Turns, NEW es,
         UNCHANGED <<transcript, busy, wiped>>, events' = Emitted(s, es),
         \A r \in Turns : r # s => turn'[r] = turn[r],
         Grows(turn[s], turn'[s]), turn'[s].phase # "free",
         \/ /\ turn[s].phase \in Working \cup {"posted"} /\ turn'[s].phase \in Working \cup {"over"}
            /\ Uneventful(es, turn'[s].phase)
         \/ /\ turn[s].phase = "calling" /\ turn'[s].phase = "waiting"
            /\ turn'[s].round = turn[s].round /\ turn'[s].results = turn[s].results
            /\ es = <<Called(CallOf(turn[s], s))>>
         \/ /\ turn[s].phase = "waiting" /\ turn'[s].phase = "calling"
            /\ es = <<Returned(CallOf(turn[s], s))>>
  PROVE  StreamInv' /\ ReaderInv'
<1>1. turn \in [Turns -> TurnRecord] /\ turn' \in [Turns -> TurnRecord]
  BY DEF TalkInv
<1>2. \A id \in Ids : Past(turn, id) => Past(turn', id)
  BY PastAll
<1>3. /\ DOMAIN events' = Turns /\ events'[s] = IF HasReader(s) THEN events[s] \o es ELSE <<>>
      /\ \A r \in Turns : r # s => events'[r] = events[r]
  BY DEF StreamInv, Emitted
<1>4. ASSUME NEW r \in Turns, r # s
      PROVE  /\ turn[r].phase # "free" => turn'[r].phase # "free"
             /\ StreamWell(turn', r, events'[r])
             /\ \A said \in Shown, how \in Ways :
                  ShownWell(turn, r, events[r], said, how) => ShownWell(turn', r, events'[r], said, how)
  <2>1. StreamWell(turn, r, events[r]) /\ events'[r] = events[r] /\ turn'[r] = turn[r]
    BY <1>3, <1>4 DEF StreamInv
  <2>2. QED
    BY <1>2, <2>1, OtherStream, OtherShown
<1>5. StreamWell(turn, s, events[s])
  BY DEF StreamInv
<1>6. StreamWell(turn', s, events[s] \o es)
  BY <1>1, <1>2, <1>5, PlainStream, CalledStream, ReturnedStream
<1>7. ASSUME NEW said \in Shown, NEW how, ShownWell(turn, s, events[s], said, how)
      PROVE  ShownWell(turn', s, events[s] \o es, said, how)
  BY <1>1, <1>2, <1>5, <1>7, PlainShown, CalledShown, ReturnedShown
<1>8. /\ StreamWell(turn', s, events'[s])
      /\ HasReader(s) => \A said \in Shown, how \in Ways :
           ShownWell(turn, s, events[s], said, how) => ShownWell(turn', s, events'[s], said, how)
  BY <1>3, <1>6, <1>7, EmptyStream
<1>9. \A r \in Turns :
        /\ turn[r].phase # "free" => turn'[r].phase # "free"
        /\ StreamWell(turn', r, events'[r])
        /\ HasReader(r) => \A said \in Shown, how \in Ways :
             ShownWell(turn, r, events[r], said, how) => ShownWell(turn', r, events'[r], said, how)
  BY <1>4, <1>8
<1>10. QED
  BY <1>2, <1>3, <1>9, StreamsMove

-----------------------------------------------------------------------------
LEMMA TurnOver ==
  ASSUME TalkInv, TalkInv', LinkInv, StreamInv, ReaderInv, NEW s \in Turns, NEW messages,
         NEW word \in {"error", "message"}, Finished(s, messages, <<[event |-> word]>>),
         UNCHANGED <<transcript, busy, wiped>>, turn[s].phase \in Working \cup {"posted"}
  PROVE  StreamInv' /\ ReaderInv'
<1> DEFINE es == Append(<<[event |-> word]>>, [event |-> "done"])
<1>1. turn' = [turn EXCEPT ![s] = NoTurn("over")] /\ turn \in [Turns -> TurnRecord]
  BY DEF Finished, TalkInv
<1>2. turn'[s].phase = "over" /\ \A r \in Turns : r # s => turn'[r] = turn[r]
  BY <1>1 DEF NoTurn, TurnAt
<1>3. events' = Emitted(s, es)
  BY DEF Finished
<1>4. Uneventful(es, "over")
  <2>1. [event |-> word] \in ChatEvent /\ [event |-> "done"] \in ChatEvent
    BY DEF ChatEvent
  <2>2. /\ es \in Seq(ChatEvent) /\ Len(es) = 2 /\ DOMAIN es = 1..2
        /\ es[1] = [event |-> word] /\ es[2] = [event |-> "done"]
    BY <2>1
  <2>3. QED
    BY <2>2 DEF Uneventful
<1>5. Grows(turn[s], turn'[s]) /\ turn'[s].phase # "free"
  BY <1>2 DEF Grows
<1> HIDE DEF es
<1>6. QED
  BY <1>2, <1>3, <1>4, <1>5, OneSays

LEMMA TurnGoesOn ==
  ASSUME TalkInv, TalkInv', LinkInv, StreamInv, ReaderInv, NEW s \in Turns, NEW messages,
         NEW phase \in {"asking", "listing"}, NEW round \in Nat, NEW set,
         turn' = [turn EXCEPT ![s] = TurnAt(phase, round, messages, set)],
         events' = Emitted(s, <<[event |-> "status"]>>),
         UNCHANGED <<transcript, busy, wiped>>, turn[s].phase \in Working \cup {"posted"},
         turn[s].phase = "posted" \/ turn[s].round < round
           \/ (turn[s].round = round /\ turn[s].results = <<>>)
  PROVE  StreamInv' /\ ReaderInv'
<1> DEFINE es == <<[event |-> "status"]>>
<1>1. turn \in [Turns -> TurnRecord]
  BY DEF TalkInv
<1>2. /\ turn'[s].phase = phase /\ turn'[s].round = round /\ turn'[s].results = <<>>
      /\ \A r \in Turns : r # s => turn'[r] = turn[r]
  BY <1>1 DEF TurnAt
<1>3. Uneventful(es, phase)
  <2>1. [event |-> "status"] \in ChatEvent
    BY DEF ChatEvent
  <2>2. QED
    BY <2>1 DEF Uneventful
<1>4. Grows(turn[s], turn'[s]) /\ turn'[s].phase # "free"
  BY <1>2 DEF Grows, Working, Before
<1>5. turn'[s].phase \in Working
  BY <1>2 DEF Working
<1> HIDE DEF es
<1>6. QED
  BY <1>2, <1>3, <1>4, <1>5, OneSays DEF es

LEMMA TranslatedSays ==
  ASSUME TalkInv, TalkInv', LinkInv, StreamInv, ReaderInv, NEW s \in Turns, NEW set, NEW messages,
         NEW round \in Nat, Translated(s, set, messages, round),
         UNCHANGED <<transcript, busy, wiped>>, turn[s].phase \in Working \cup {"posted"},
         turn[s].phase = "posted" \/ turn[s].round < round
           \/ (turn[s].round = round /\ turn[s].results = <<>>)
  PROVE  StreamInv' /\ ReaderInv'
<1>1. CASE Finished(s, messages, <<[event |-> "error"]>>)
  BY <1>1, TurnOver
<1>2. CASE /\ turn' = [turn EXCEPT ![s] = TurnAt("asking", round, messages, set)]
           /\ events' = Emitted(s, <<[event |-> "status"]>>)
  BY <1>2, TurnGoesOn
<1>3. QED
  BY <1>1, <1>2 DEF Translated

LEMMA RoundSays ==
  ASSUME TalkInv, TalkInv', LinkInv, StreamInv, ReaderInv, NEW s \in Turns, NEW messages,
         NEW round \in Nat, Round(s, messages, round),
         UNCHANGED <<transcript, busy, wiped>>, turn[s].phase \in Working \cup {"posted"},
         turn[s].phase = "posted" \/ turn[s].round < round
  PROVE  StreamInv' /\ ReaderInv'
<1>1. CASE Finished(s, messages, <<[event |-> "error"]>>)
  BY <1>1, TurnOver
<1>2. CASE /\ turn' = [turn EXCEPT ![s] = TurnAt("listing", round, messages, {})]
           /\ events' = Emitted(s, <<[event |-> "status"]>>)
  BY <1>2, TurnGoesOn
<1>3. CASE Translated(s, held[1], messages, round)
  BY <1>3, TranslatedSays
<1>4. QED
  BY <1>1, <1>2, <1>3 DEF Round

LEMMA AgentSays ==
  ASSUME TalkInv, TalkInv', LinkInv, StreamInv, ReaderInv, NEW s \in Turns, Agent(s), ~Refuse(s)
  PROVE  StreamInv' /\ ReaderInv'
<1>1. turn \in [Turns -> TurnRecord] /\ turn[s] \in TurnRecord /\ TurnWell(turn[s])
      /\ turn[s].round \in Nat /\ Len(turn[s].results) \in Nat
  <2>1. turn \in [Turns -> TurnRecord] /\ TurnWell(turn[s])
    BY DEF TalkInv
  <2>2. turn[s] \in TurnRecord
    BY <2>1
  <2>3. turn[s].round \in 0..MaxRounds /\ turn[s].results \in Seq([call : Nat, known : BOOLEAN])
    BY <2>2 DEF TurnRecord
  <2>4. turn[s].round \in Nat /\ Len(turn[s].results) \in Nat
    BY <2>3, ChatAssumption
  <2>5. QED
    BY <2>1, <2>2, <2>4
<1>2. UNCHANGED <<transcript, busy, wiped>>
  BY DEF Agent, Receive, Listed, ListingFails, ModelReplies, ModelAnswers, ModelFails,
         CallUnknown, CallTool, CallSettles, NextRound, chatSide
<1>3. ASSUME Receive(s) PROVE StreamInv' /\ ReaderInv'
  BY <1>2, <1>3, RoundSays DEF Receive
<1>4. ASSUME Listed(s) PROVE StreamInv' /\ ReaderInv'
  <2>1. turn[s].phase \in Working /\ turn[s].results = <<>>
    BY <1>1, <1>4 DEF Listed, TurnWell, Working
  <2>2. Translated(s, turn[s].got, turn[s].messages, turn[s].round)
    BY <1>4 DEF Listed
  <2>3. QED
    BY <1>1, <1>2, <2>1, <2>2, TranslatedSays
<1>5. ASSUME ListingFails(s) \/ ModelFails(s) PROVE StreamInv' /\ ReaderInv'
  <2>1. turn[s].phase \in Working /\ Finished(s, turn[s].messages, <<[event |-> "error"]>>)
    BY <1>5 DEF ListingFails, ModelFails, Working
  <2>2. QED
    BY <1>2, <2>1, TurnOver
<1>6. ASSUME ModelAnswers(s) PROVE StreamInv' /\ ReaderInv'
  <2>1. turn[s].phase \in Working
        /\ Finished(s, Append(turn[s].messages, Message("assistant", <<>>)), <<[event |-> "message"]>>)
    BY <1>6 DEF ModelAnswers, Working
  <2>2. QED
    BY <1>2, <2>1, TurnOver
<1>7. ASSUME ModelReplies(s) PROVE StreamInv' /\ ReaderInv'
  <2>1. PICK calls :
          turn' = [turn EXCEPT ![s].phase = "calling", ![s].calls = calls, ![s].results = <<>>,
                               ![s].messages = Append(@, Message("assistant", calls))]
    BY <1>7 DEF ModelReplies
  <2>2. turn[s].phase = "asking" /\ turn[s].results = <<>> /\ UNCHANGED events
    BY <1>1, <1>7 DEF ModelReplies, TurnWell
  <2>3. /\ turn'[s].phase = "calling" /\ turn'[s].round = turn[s].round /\ turn'[s].results = <<>>
        /\ \A r \in Turns : r # s => turn'[r] = turn[r]
    BY <1>1, <2>1 DEF TurnRecord
  <2>4. Grows(turn[s], turn'[s]) /\ turn[s].phase \in Working /\ turn'[s].phase \in Working
    BY <2>2, <2>3 DEF Grows, Working, Before
  <2>5. QED
    BY <1>2, <2>2, <2>3, <2>4, QuietTurn
<1>8. ASSUME CallUnknown(s) PROVE StreamInv' /\ ReaderInv'
  <2>1. turn[s].phase = "calling" /\ Answered(s, FALSE) /\ UNCHANGED events
    BY <1>8 DEF CallUnknown
  <2>2. /\ turn'[s].phase = "calling" /\ turn'[s].round = turn[s].round
        /\ Len(turn'[s].results) = Len(turn[s].results) + 1
        /\ \A r \in Turns : r # s => turn'[r] = turn[r]
    BY <1>1, <2>1 DEF Answered, TurnRecord
  <2>3. Grows(turn[s], turn'[s]) /\ turn[s].phase \in Working /\ turn'[s].phase \in Working
    BY <1>1, <2>1, <2>2 DEF Grows, Working, Before
  <2>4. QED
    BY <1>2, <2>1, <2>2, <2>3, QuietTurn
<1>9. ASSUME CallTool(s) PROVE StreamInv' /\ ReaderInv'
  <2>1. /\ turn[s].phase = "calling" /\ turn' = [turn EXCEPT ![s].phase = "waiting"]
        /\ events' = Emitted(s, <<[event |-> "tool_call", id |-> CallId(s)]>>)
    BY <1>9 DEF CallTool
  <2>2. /\ turn'[s].phase = "waiting" /\ turn'[s].round = turn[s].round
        /\ turn'[s].results = turn[s].results
        /\ \A r \in Turns : r # s => turn'[r] = turn[r]
    BY <1>1, <2>1 DEF TurnRecord
  <2>3. events' = Emitted(s, <<Called(CallOf(turn[s], s))>>)
    BY <2>1 DEF Called, CallOf, CallId, InHand
  <2>4. Grows(turn[s], turn'[s]) /\ turn'[s].phase # "free"
    BY <1>1, <2>1, <2>2 DEF Grows, Before
  <2>5. QED
    BY <1>2, <2>1, <2>2, <2>3, <2>4, OneSays
<1>10. ASSUME CallSettles(s) PROVE StreamInv' /\ ReaderInv'
  <2>1. /\ turn[s].phase = "waiting" /\ Answered(s, TRUE)
        /\ events' = Emitted(s, <<[event |-> "tool_result", id |-> CallId(s)]>>)
    BY <1>10 DEF CallSettles
  <2>2. /\ turn'[s].phase = "calling" /\ turn'[s].round = turn[s].round
        /\ Len(turn'[s].results) = Len(turn[s].results) + 1
        /\ \A r \in Turns : r # s => turn'[r] = turn[r]
    BY <1>1, <2>1 DEF Answered, TurnRecord
  <2>3. events' = Emitted(s, <<Returned(CallOf(turn[s], s))>>)
    BY <2>1 DEF Returned, CallOf, CallId, InHand
  <2>4. Grows(turn[s], turn'[s]) /\ turn'[s].phase # "free"
    BY <1>1, <2>1, <2>2 DEF Grows, Before
  <2>5. QED
    BY <1>2, <2>1, <2>2, <2>3, <2>4, OneSays
<1>11. ASSUME NextRound(s) PROVE StreamInv' /\ ReaderInv'
  <2>1. turn[s].phase \in Working /\ turn[s].round < turn[s].round + 1 /\ turn[s].round + 1 \in Nat
    BY <1>1, <1>11 DEF NextRound, Working
  <2>2. Round(s, Append(turn[s].messages, Message("results", Results(turn[s]))), turn[s].round + 1)
    BY <1>11 DEF NextRound
  <2>3. QED
    BY <1>2, <2>1, <2>2, RoundSays
<1>12. QED
  BY <1>3, <1>4, <1>5, <1>6, <1>7, <1>8, <1>9, <1>10, <1>11 DEF Agent

(* The page's end of the connection says nothing either.                     *)
LEMMA LinkIsQuiet ==
  ASSUME TalkInv, TalkInv', LinkInv, StreamInv, ReaderInv,
         \/ ToolsChange \/ Notify \/ FrameArrives \/ Unlink
         \/ \E s \in Turns : PageLists(s)
         \/ \E p \in Pages : Clear(p) \/ Reset(p) \/ ResetFails(p)
         \/ UNCHANGED chatVars
  PROVE  StreamInv' /\ ReaderInv'
<1>1. UNCHANGED <<events, transcript, busy, wiped>>
  BY DEF ToolsChange, Notify, FrameArrives, Unlink, PageLists, Clear, Reset, ResetFails,
         chatVars, chatSide
<1>2. turn \in [Turns -> TurnRecord] /\ turn' \in [Turns -> TurnRecord]
  BY DEF TalkInv
<1>3. ASSUME NEW t \in TurnRecord, NEW u \in TurnRecord, t.phase \in Working, u.phase \in Working,
             t.round = u.round, t.results = u.results
      PROVE  Grows(t, u)
  <2>1. Len(t.results) <= Len(u.results)
    BY <1>3 DEF TurnRecord
  <2>2. QED
    BY <1>3, <2>1 DEF Grows, Working, Before
<1>4. ASSUME NEW r \in Turns
      PROVE  \/ turn'[r] = turn[r]
             \/ /\ turn[r].phase \in Working /\ turn'[r].phase \in Working
                /\ Grows(turn[r], turn'[r])
  <2>1. turn[r] \in TurnRecord /\ turn'[r] \in TurnRecord
    BY <1>2
  <2>2. CASE UNCHANGED turn
    BY <2>2
  <2>3. CASE Unlink
    <3>1. turn'[r] = IF turn[r].phase = "answering" THEN [turn[r] EXCEPT !.phase = "listing"] ELSE turn[r]
      BY <2>3 DEF Unlink
    <3>2. CASE turn[r].phase = "answering"
      <4>1. /\ turn'[r].phase = "listing" /\ turn'[r].round = turn[r].round
            /\ turn'[r].results = turn[r].results
        BY <2>1, <3>1, <3>2 DEF TurnRecord
      <4>2. QED
        BY <1>3, <2>1, <3>2, <4>1 DEF Working
    <3>3. QED
      BY <3>1, <3>2
  <2>4. ASSUME NEW s \in Turns, PageLists(s)
        PROVE  \/ turn'[r] = turn[r]
               \/ /\ turn[r].phase \in Working /\ turn'[r].phase \in Working
                  /\ Grows(turn[r], turn'[r])
    <3>1. turn[s].phase = "listing" /\ turn' = [turn EXCEPT ![s].phase = "answering"]
      BY <2>4 DEF PageLists
    <3>2. CASE r = s
      <4>1. /\ turn'[r].phase = "answering" /\ turn'[r].round = turn[r].round
            /\ turn'[r].results = turn[r].results
        BY <1>2, <2>1, <3>1, <3>2 DEF TurnRecord
      <4>2. QED
        BY <1>3, <2>1, <3>1, <3>2, <4>1 DEF Working
    <3>3. QED
      BY <1>2, <3>1, <3>2
  <2>5. CASE FrameArrives /\ turn' # turn
    <3>1. PICK s, set : /\ turn[s].phase = "answering"
                        /\ turn' = [turn EXCEPT ![s].phase = "listed", ![s].got = set]
      BY <2>5 DEF FrameArrives
    <3>2. CASE r = s
      <4>1. /\ turn'[r].phase = "listed" /\ turn'[r].round = turn[r].round
            /\ turn'[r].results = turn[r].results
        BY <1>2, <2>1, <3>1, <3>2 DEF TurnRecord
      <4>2. QED
        BY <1>3, <2>1, <3>1, <3>2, <4>1 DEF Working
    <3>3. QED
      BY <1>2, <3>1, <3>2
  <2>6. UNCHANGED turn \/ FrameArrives \/ Unlink \/ \E s \in Turns : PageLists(s)
    BY DEF ToolsChange, Notify, Clear, Reset, ResetFails, chatVars
  <2>7. QED
    BY <2>2, <2>3, <2>4, <2>5, <2>6
<1>5. QED
  BY <1>1, <1>4, QuietTurn

-----------------------------------------------------------------------------
(* The steps of the chat page.                                              *)
(* A transcript in which nothing runs is well between turns, and stays so when  *)
(* the person speaks.                                                       *)
LEMMA ReaderAtRest ==
  ASSUME NEW f, NEW g, NEW r, NEW unread, NEW said \in Shown, NEW how,
         ShownWell(f, r, unread, said, how), \A i \in DOMAIN said.entries : ~Running(said, i),
         \A id \in Ids : Past(f, id) => Past(g, id),
         NEW told \in Shown,
         \/ told.entries = said.entries
         \/ \E x \in [kind : {"person", "failure"}] : told.entries = Append(said.entries, x),
         NEW s, s = 0 \/ g[s].phase \in {"posted", "refused"},
         s = 0 /\ told.status => EndsInFailure(told)
  PROVE  ShownWell(g, s, <<>>, told, how)
<1>1. \A i \in DOMAIN told.entries :
        /\ ~Running(told, i)
        /\ \/ i \in DOMAIN said.entries /\ told.entries[i] = said.entries[i]
           \/ told.entries[i].kind \in {"person", "failure"}
        /\ CallIn(told, i) => i \in DOMAIN said.entries /\ CallIn(said, i)
                              /\ told.entries[i].id = said.entries[i].id
  <2> DEFINE kinds == {"person", "failure"}
  <2>1. /\ "call" \notin kinds
        /\ \/ told.entries = said.entries
           \/ \E x \in [kind : kinds] : told.entries = Append(said.entries, x)
    OBVIOUS
  <2> HIDE DEF kinds
  <2>2. \A i \in DOMAIN told.entries :
          /\ ~Running(told, i)
          /\ \/ i \in DOMAIN said.entries /\ told.entries[i] = said.entries[i]
             \/ told.entries[i].kind \in kinds
          /\ CallIn(told, i) => i \in DOMAIN said.entries /\ CallIn(said, i)
                                /\ told.entries[i].id = said.entries[i].id
    BY <2>1, NothingRuns
  <2>3. QED
    BY <2>2 DEF kinds
<1>2. \A i \in DOMAIN said.entries : CallIn(said, i) => said.entries[i].id \in Ids
  BY DEF Shown, CallIn
<1>3. \A i \in DOMAIN told.entries : CallIn(told, i) => Past(g, told.entries[i].id)
  BY <1>1, <1>2 DEF ShownWell
<1>4. how = "whole" => \A i \in DOMAIN told.entries : told.entries[i].kind # "anomaly"
  BY <1>1 DEF ShownWell
<1>5. s # 0 => g[s].phase \notin {"over", "waiting"}
  OBVIOUS
<1>6. \A i \in DOMAIN told.entries : ~Running(told, i)
  BY <1>1
<1>7. QED
  BY <1>3, <1>4, <1>5, <1>6 DEF ShownWell

(* The failure told when a response broke off accounts for whatever it left    *)
(* running.                                                                 *)
LEMMA ReaderBreaks ==
  ASSUME NEW f, NEW s, NEW unread, NEW said \in Shown, NEW how, ShownWell(f, s, unread, said, how),
         NEW told \in Shown, NEW x \in [kind : {"failure"}], told.entries = Append(said.entries, x)
  PROVE  ShownWell(f, 0, <<>>, told, how)
<1> DEFINE n == Len(said.entries)
<1>1. /\ DOMAIN said.entries = 1..n /\ n \in Nat
      /\ DOMAIN told.entries = 1..Len(told.entries) /\ Len(told.entries) = n + 1
      /\ told.entries[n + 1] = x /\ x.kind = "failure" /\ told.entries # <<>>
      /\ \A i \in DOMAIN said.entries : told.entries[i] = said.entries[i]
  BY DEF Shown
<1>2. ASSUME NEW i \in DOMAIN told.entries
      PROVE  \/ i \in DOMAIN said.entries /\ told.entries[i] = said.entries[i]
             \/ i = n + 1 /\ told.entries[i].kind = "failure"
  BY <1>1
<1>3. ASSUME NEW i \in DOMAIN told.entries, Running(told, i) PROVE FALSE
  <2>1. i \in DOMAIN said.entries /\ told.entries[i] = said.entries[i]
    BY <1>2, <1>3 DEF Running, PendingIn, CallIn
  <2>2. CASE Running(said, i)
    <3>1. i = n
      BY <2>1, <2>2 DEF ShownWell
    <3>2. Explained(told, i)
      BY <1>1, <3>1 DEF Explained
    <3>3. QED
      BY <1>3, <3>2 DEF Running
  <2>3. CASE ~Running(said, i)
    <3>1. Explained(said, i)
      BY <1>3, <2>1, <2>3 DEF Running, PendingIn, CallIn
    <3>2. i + 1 \in DOMAIN said.entries /\ i < n + 1
      BY <1>1, <2>1, <3>1 DEF Explained
    <3>3. Explained(told, i)
      BY <1>1, <3>1, <3>2 DEF Explained
    <3>4. QED
      BY <1>3, <3>3 DEF Running
  <2>4. QED
    BY <2>2, <2>3
<1>4. \A i \in DOMAIN told.entries :
        /\ CallIn(told, i) => Past(f, told.entries[i].id)
        /\ how = "whole" => told.entries[i].kind # "anomaly"
  BY <1>2 DEF ShownWell, CallIn
<1>5. EndsInFailure(told)
  BY <1>1 DEF EndsInFailure
<1>6. QED
  BY <1>3, <1>4, <1>5 DEF ShownWell

LEMMA ReaderAdds ==
  ASSUME NEW said \in Shown, NEW kind \in {"person", "failure"}
  PROVE  LET told == WithEntry(said, Entry(kind))
         IN  /\ told \in Shown /\ told.status = said.status
             /\ \E x \in [kind : {kind}] : told.entries = Append(said.entries, x)
<1> DEFINE Kinds == [kind : {"person", "agent", "failure", "anomaly"}]
                      \cup [kind : {"call"}, id : Ids, result : {"pending", "arrived"}]
           x == Entry(kind)
<1>1. /\ said.entries \in Seq(Kinds) /\ said.status \in BOOLEAN
      /\ said = [entries |-> said.entries, status |-> said.status]
  BY DEF Shown
<1>2. WithEntry(said, x) = [entries |-> Append(said.entries, x), status |-> said.status]
  BY <1>1 DEF WithEntry
<1>3. x \in [kind : {kind}] /\ x \in Kinds
  BY DEF Entry
<1>4. Append(said.entries, x) \in Seq(Kinds)
  <2> HIDE DEF Kinds, x
  <2> QED
    BY <1>1, <1>3
<1> HIDE DEF x
<1>5. WithEntry(said, x) \in Shown
  BY <1>1, <1>2, <1>4 DEF Shown
<1>6. WithEntry(said, x).status = said.status /\ WithEntry(said, x).entries = Append(said.entries, x)
  BY <1>2
<1>7. QED
  BY <1>3, <1>5, <1>6 DEF x

LEMMA OnePageMoves ==
  ASSUME LinkInv, ReaderInv, NEW p \in Pages, NEW told \in Shown, NEW b,
         transcript' = [transcript EXCEPT ![p] = told], busy' = [busy EXCEPT ![p] = b],
         wiped' \ {p} = wiped \ {p},
         \A id \in Ids : Past(turn, id) => Past(turn', id),
         \A q \in Pages : q # p /\ busy[q] # 0 =>
           /\ turn'[busy[q]] = turn[busy[q]] /\ events'[busy[q]] = events[busy[q]]
           /\ busy[q] # b,
         b # 0 => turn'[b].phase # "free",
         ShownWell(turn', b, IF b = 0 THEN <<>> ELSE events'[b], told, Standing(p)')
  PROVE  ReaderInv'
<1>1. transcript' \in [Pages -> Shown] /\ transcript'[p] = told /\ busy'[p] = b
      /\ \A q \in Pages : q # p => transcript'[q] = transcript[q] /\ busy'[q] = busy[q]
  BY DEF ReaderInv, LinkInv
<1>2. \A q \in Pages : busy'[q] # 0 => turn'[busy'[q]].phase # "free"
  BY <1>1 DEF ReaderInv
<1>3. \A q, r \in Pages : busy'[q] = busy'[r] /\ busy'[q] # 0 => q = r
  BY <1>1 DEF ReaderInv
<1>4. ASSUME NEW q \in Pages
      PROVE  ShownWell(turn', busy'[q], IF busy'[q] = 0 THEN <<>> ELSE events'[busy'[q]], transcript'[q],
                       Standing(q)')
  <2>1. CASE q = p
    BY <1>1, <2>1
  <2>2. CASE q # p
    <3>1. Standing(q)' = Standing(q)
      BY <2>2 DEF Standing
    <3>2. ShownWell(turn, busy[q], Unread(busy[q]), transcript[q], Standing(q)) /\ transcript[q] \in Shown
      BY DEF ReaderInv
    <3>3. busy[q] # 0 => turn'[busy[q]] = turn[busy[q]]
      BY <2>2
    <3>4. ShownWell(turn', busy[q], Unread(busy[q]), transcript[q], Standing(q))
      BY <3>2, <3>3, OtherShown
    <3>5. Unread(busy[q]) = IF busy[q] = 0 THEN <<>> ELSE events'[busy[q]]
      BY <2>2 DEF Unread
    <3>6. QED
      BY <1>1, <2>2, <3>1, <3>4, <3>5
  <2>3. QED
    BY <2>1, <2>2
<1>5. QED
  BY <1>1, <1>2, <1>3, <1>4 DEF ReaderInv, Unread

LEMMA PostIsTold ==
  ASSUME TalkInv, TalkInv', LinkInv, StreamInv, ReaderInv, NEW p \in Pages, NEW s \in Turns, Post(p, s)
  PROVE  StreamInv' /\ ReaderInv'
<1>1. /\ turn[s].phase = "free" /\ turn' = [turn EXCEPT ![s].phase = "posted"]
      /\ busy[p] = 0 /\ busy' = [busy EXCEPT ![p] = s]
      /\ transcript' = [transcript EXCEPT ![p] = WithEntry(@, Entry("person"))]
      /\ UNCHANGED <<events, wiped>>
  BY DEF Post
<1>2. turn \in [Turns -> TurnRecord] /\ s # 0
  BY DEF TalkInv, Turns
<1>3. turn'[s].phase = "posted" /\ \A r \in Turns : r # s => turn'[r] = turn[r]
  BY <1>1, <1>2 DEF TurnRecord
<1>4. \A id \in Ids : Past(turn, id) => Past(turn', id)
  <2>1. Grows(turn[s], turn'[s])
    BY <1>1 DEF Grows, Before
  <2>2. QED
    BY <1>3, <2>1, PastAll
<1>5. events[s] = <<>> /\ \A r \in Turns : StreamWell(turn, r, events[r])
  BY <1>1 DEF StreamInv, StreamWell, Before
<1>6. StreamInv'
  <2>1. \A r \in Turns : r # s => StreamWell(turn', r, events[r])
    BY <1>3, <1>4, <1>5, OtherStream
  <2>2. StreamWell(turn', s, <<>>)
    BY <1>3 DEF StreamWell, Before
  <2>3. QED
    BY <1>1, <1>5, <2>1, <2>2 DEF StreamInv
<1> DEFINE told == WithEntry(transcript[p], Entry("person"))
<1>7. transcript[p] \in Shown /\ transcript' = [transcript EXCEPT ![p] = told]
  BY <1>1 DEF ReaderInv
<1>8. /\ told \in Shown /\ told.status = transcript[p].status
      /\ \E x \in [kind : {"person"}] : told.entries = Append(transcript[p].entries, x)
  BY <1>7, ReaderAdds
<1> HIDE DEF told
<1>9. ShownWell(turn', s, <<>>, told, Standing(p)')
  <2>1. ShownWell(turn, 0, <<>>, transcript[p], Standing(p)) /\ Standing(p)' = Standing(p)
    BY <1>1 DEF ReaderInv, Unread, Standing
  <2>2. \A i \in DOMAIN transcript[p].entries : ~Running(transcript[p], i)
    BY <2>1 DEF ShownWell
  <2>3. \E x \in [kind : {"person", "failure"}] : told.entries = Append(transcript[p].entries, x)
    BY <1>8
  <2>4. QED
    BY <1>2, <1>3, <1>4, <1>7, <1>8, <2>1, <2>2, <2>3, ReaderAtRest
<1>10. \A q \in Pages : busy[q] # 0 => busy[q] # s /\ busy[q] \in Turns
  BY <1>1, ChatAssumption DEF ReaderInv, LinkInv, Turns
<1>11. ReaderInv'
  <2>1. /\ wiped' \ {p} = wiped \ {p} /\ turn'[s].phase # "free" /\ events'[s] = <<>>
        /\ ShownWell(turn', s, IF s = 0 THEN <<>> ELSE events'[s], told, Standing(p)')
    BY <1>1, <1>2, <1>3, <1>5, <1>9
  <2>2. \A q \in Pages : q # p /\ busy[q] # 0 =>
          turn'[busy[q]] = turn[busy[q]] /\ events'[busy[q]] = events[busy[q]] /\ busy[q] # s
    BY <1>1, <1>3, <1>10
  <2>3. /\ told \in Shown /\ transcript' = [transcript EXCEPT ![p] = told]
        /\ busy' = [busy EXCEPT ![p] = s]
    BY <1>1, <1>7, <1>8
  <2>4. QED
    BY <1>4, <2>1, <2>2, <2>3, OnePageMoves
<1>12. QED
  BY <1>6, <1>11

LEMMA RefusalIsQuiet ==
  ASSUME TalkInv, TalkInv', LinkInv, StreamInv, ReaderInv, NEW s \in Turns, Unserved(s)
  PROVE  StreamInv' /\ ReaderInv'
<1>1. /\ turn[s].phase = "posted" /\ turn' = [turn EXCEPT ![s].phase = "refused"]
      /\ UNCHANGED <<events, transcript, busy, wiped>>
  BY DEF Unserved, chatSide
<1>2. turn'[s].phase = "refused" /\ \A r \in Turns : r # s => turn'[r] = turn[r]
  BY <1>1 DEF TalkInv, TurnRecord
<1>3. \A id \in Ids : Past(turn, id) => Past(turn', id)
  <2>1. Grows(turn[s], turn'[s])
    BY <1>1 DEF Grows, Before
  <2>2. QED
    BY <1>2, <2>1, PastAll
<1>4. DOMAIN events = Turns /\ \A r \in Turns : StreamWell(turn, r, events[r])
  BY DEF StreamInv
<1>5. events[s] = <<>> /\ s # 0
  BY <1>1, <1>4 DEF StreamWell, Before, Turns
<1>6. StreamWell(turn', s, <<>>)
  BY <1>2 DEF StreamWell, Before
<1>7. ASSUME NEW said \in Shown, NEW how, ShownWell(turn, s, <<>>, said, how)
      PROVE  ShownWell(turn', s, <<>>, said, how)
  <2>1. \A i \in DOMAIN said.entries : ~Running(said, i)
    BY <1>1, <1>7 DEF ShownWell
  <2>2. QED
    BY <1>2, <1>3, <1>5, <1>7, <2>1, ReaderAtRest
<1>8. ASSUME NEW r \in Turns
      PROVE  /\ turn[r].phase # "free" => turn'[r].phase # "free"
             /\ StreamWell(turn', r, events'[r])
             /\ \A said \in Shown, how \in Ways :
                  ShownWell(turn, r, events[r], said, how) => ShownWell(turn', r, events'[r], said, how)
  <2>1. CASE r = s
    BY <1>1, <1>2, <1>5, <1>6, <1>7, <2>1
  <2>2. CASE r # s
    BY <1>1, <1>2, <1>3, <1>4, <2>2, OtherStream, OtherShown
  <2>3. QED
    BY <2>1, <2>2
<1>9. QED
  BY <1>1, <1>3, <1>4, <1>8, StreamsMove

LEMMA ReadIsTold ==
  ASSUME TalkInv, TalkInv', LinkInv, StreamInv, ReaderInv, NEW p \in Pages, ReadEvent(p)
  PROVE  StreamInv' /\ ReaderInv'
<1> DEFINE s == busy[p]
           told == Fold(transcript[p], Head(events[s]))
<1>1. /\ s # 0 /\ events[s] # <<>> /\ UNCHANGED <<turn, busy, wiped>>
      /\ transcript' = [transcript EXCEPT ![p] = told]
      /\ events' = [events EXCEPT ![s] = Tail(@)]
  BY DEF ReadEvent
<1>2. s \in Turns /\ turn[s].phase # "free"
  BY <1>1, ChatAssumption DEF LinkInv, Turns, ReaderInv
<1>3. DOMAIN events = Turns /\ \A r \in Turns : StreamWell(turn, r, events[r])
  BY DEF StreamInv
<1>4. /\ DOMAIN events' = Turns /\ events'[s] = Tail(events[s])
      /\ \A r \in Turns : r # s => events'[r] = events[r]
  BY <1>1, <1>2, <1>3
<1>5. transcript[p] \in Shown /\ busy' = [busy EXCEPT ![p] = s]
  BY <1>1 DEF ReaderInv, LinkInv
<1>6. StreamInv'
  <2>1. StreamWell(turn, s, Tail(events[s]))
    BY <1>1, <1>2, <1>3, ReadStream
  <2>2. QED
    BY <1>1, <1>3, <1>4, <2>1 DEF StreamInv
<1>7. told \in Shown
  <2>1. Head(events[s]) \in ChatEvent
    BY <1>1, <1>2, <1>3, HeadTells
  <2>2. QED
    BY <1>5, <2>1, FoldTyped
<1>8. ShownWell(turn, s, Tail(events[s]), told, Standing(p))
  <2>1. ShownWell(turn, s, events[s], transcript[p], Standing(p))
    BY <1>1 DEF ReaderInv, Unread
  <2>2. QED
    BY <1>1, <1>2, <1>3, <1>5, <2>1, ReadShown
<1>9. \A q \in Pages : q # p /\ busy[q] # 0 => busy[q] # s /\ busy[q] \in Turns
  BY <1>1, ChatAssumption DEF ReaderInv, LinkInv, Turns
<1> HIDE DEF told, s
<1>10. ReaderInv'
  <2>1. /\ wiped' \ {p} = wiped \ {p} /\ turn'[s].phase # "free"
        /\ ShownWell(turn', s, IF s = 0 THEN <<>> ELSE events'[s], told, Standing(p)')
    BY <1>1, <1>2, <1>4, <1>8 DEF Standing
  <2>2. \A q \in Pages : q # p /\ busy[q] # 0 =>
          turn'[busy[q]] = turn[busy[q]] /\ events'[busy[q]] = events[busy[q]] /\ busy[q] # s
    BY <1>1, <1>4, <1>9
  <2>3. \A id \in Ids : Past(turn, id) => Past(turn', id)
    BY <1>1
  <2>4. QED
    BY <1>1, <1>5, <1>7, <2>1, <2>2, <2>3, OnePageMoves
<1>11. QED
  BY <1>6, <1>10

(* The stream ends, or breaks off, or the refusal is read: the composer is     *)
(* given back.                                                              *)
LEMMA EndIsTold ==
  ASSUME TalkInv, LinkInv, StreamInv, ReaderInv, NEW p \in Pages,
         StreamEnds(p) \/ ReadRefusal(p) \/ StreamBreaks(p)
  PROVE  StreamInv' /\ ReaderInv'
<1> DEFINE s == busy[p]
           said == transcript[p]
<1>1. /\ s # 0 /\ UNCHANGED <<turn, wiped>> /\ busy' = [busy EXCEPT ![p] = 0]
      /\ \/ /\ turn[s].phase = "over" /\ events[s] = <<>>
            /\ UNCHANGED <<transcript, events>>
         \/ /\ transcript' = [transcript EXCEPT ![p] = WithEntry(said, Entry("failure"))]
            /\ events' = [events EXCEPT ![s] = <<>>]
  <2>1. CASE StreamEnds(p)
    BY <2>1 DEF StreamEnds
  <2>2. CASE Caught(p) /\ s # 0
    BY <2>2 DEF Caught, ReaderInv
  <2>3. StreamBreaks(p) => s # 0
    BY ChatAssumption DEF StreamBreaks
  <2>4. QED
    BY <2>1, <2>2, <2>3 DEF ReadRefusal, StreamBreaks
<1>2. said \in Shown /\ transcript \in [Pages -> Shown] /\ Standing(p)' = Standing(p)
  BY <1>1 DEF ReaderInv, Standing
<1>3. ShownWell(turn, s, events[s], said, Standing(p))
  BY <1>1 DEF ReaderInv, Unread
<1>4. /\ DOMAIN events = Turns /\ DOMAIN events' = Turns
      /\ \A r \in Turns : r # s => events'[r] = events[r]
      /\ s \in Turns => events'[s] \in {events[s], <<>>}
  BY <1>1 DEF StreamInv
<1>5. StreamInv'
  BY <1>1, <1>4, EmptyStream DEF StreamInv
<1>6. \E told \in Shown : /\ transcript' = [transcript EXCEPT ![p] = told]
                         /\ ShownWell(turn, 0, <<>>, told, Standing(p))
  <2>1. CASE turn[s].phase = "over" /\ events[s] = <<>> /\ UNCHANGED transcript
    <3>1. transcript' = [transcript EXCEPT ![p] = said]
      BY <1>2, <2>1
    <3>2. ~said.status /\ \A i \in DOMAIN said.entries : ~Running(said, i)
      BY <1>1, <1>3, <2>1 DEF ShownWell
    <3> HIDE DEF s, said
    <3>3. ShownWell(turn, 0, <<>>, said, Standing(p))
      BY <1>2, <1>3, <3>2, ReaderAtRest
    <3>4. QED
      BY <1>2, <3>1, <3>3
  <2>2. CASE transcript' = [transcript EXCEPT ![p] = WithEntry(said, Entry("failure"))]
    <3> DEFINE told == WithEntry(said, Entry("failure"))
    <3>1. told \in Shown /\ \E x \in [kind : {"failure"}] : told.entries = Append(said.entries, x)
      BY <1>2, ReaderAdds
    <3> HIDE DEF told, s, said
    <3>2. ShownWell(turn, 0, <<>>, told, Standing(p))
      BY <1>2, <1>3, <3>1, ReaderBreaks
    <3>3. QED
      BY <2>2, <3>1, <3>2 DEF told
  <2>3. QED
    BY <1>1, <2>1, <2>2
<1>7. ReaderInv'
  <2>1. PICK told \in Shown : /\ transcript' = [transcript EXCEPT ![p] = told]
                            /\ ShownWell(turn, 0, <<>>, told, Standing(p))
    BY <1>6
  <2>2. /\ wiped' \ {p} = wiped \ {p}
        /\ ShownWell(turn', 0, IF 0 = 0 THEN <<>> ELSE events'[0], told, Standing(p)')
    BY <1>1, <1>2, <2>1
  <2>3. \A q \in Pages : q # p /\ busy[q] # 0 =>
          turn'[busy[q]] = turn[busy[q]] /\ events'[busy[q]] = events[busy[q]] /\ busy[q] # 0
    <3>1. \A q \in Pages : q # p /\ busy[q] # 0 => busy[q] \in Turns /\ busy[q] # s
      BY <1>1, ChatAssumption DEF ReaderInv, LinkInv, Turns
    <3>2. QED
      BY <1>1, <1>4, <3>1
  <2>4. \A id \in Ids : Past(turn, id) => Past(turn', id)
    BY <1>1
  <2>5. QED
    BY <1>1, <2>1, <2>2, <2>3, <2>4, OnePageMoves
<1>8. QED
  BY <1>5, <1>7

LEMMA ClearedIsEmpty ==
  ASSUME TalkInv, LinkInv, StreamInv, ReaderInv, NEW p \in Pages, Cleared(p)
  PROVE  StreamInv' /\ ReaderInv'
<1> DEFINE s == busy[p]
<1>1. /\ UNCHANGED <<turn, events, busy>> /\ transcript' = [transcript EXCEPT ![p] = NothingSaid]
      /\ wiped' = IF s = 0 THEN wiped \ {p} ELSE wiped \cup {p}
  BY DEF Cleared
<1>2. StreamInv'
  BY <1>1 DEF StreamInv
<1>3. NothingSaid \in Shown /\ NothingSaid.entries = <<>> /\ ~NothingSaid.status
  BY DEF NothingSaid, Shown
<1>4. busy' = [busy EXCEPT ![p] = s]
  BY <1>1 DEF LinkInv
<1>5. ShownWell(turn, s, Unread(s), NothingSaid, Standing(p)')
  <2>1. Standing(p)' = "whole" => s = 0
    BY <1>1 DEF Standing
  <2>2. QED
    BY <1>3, <2>1 DEF ShownWell
<1>6. ReaderInv'
  <2>1. /\ wiped' \ {p} = wiped \ {p} /\ (s # 0 => turn'[s].phase # "free")
        /\ ShownWell(turn', s, IF s = 0 THEN <<>> ELSE events'[s], NothingSaid, Standing(p)')
    BY <1>1, <1>3, <1>5 DEF ReaderInv, Unread
  <2>2. \A q \in Pages : q # p /\ busy[q] # 0 =>
          turn'[busy[q]] = turn[busy[q]] /\ events'[busy[q]] = events[busy[q]] /\ busy[q] # s
    BY <1>1 DEF ReaderInv
  <2>3. \A id \in Ids : Past(turn, id) => Past(turn', id)
    BY <1>1
  <2> HIDE DEF s
  <2>4. /\ transcript' = [transcript EXCEPT ![p] = NothingSaid] /\ NothingSaid \in Shown
        /\ busy' = [busy EXCEPT ![p] = s]
    BY <1>1, <1>3, <1>4
  <2>5. QED
    BY <2>1, <2>2, <2>3, <2>4, OnePageMoves
<1>7. QED
  BY <1>2, <1>6

LEMMA ReaderStep ==
  ASSUME TalkInv, LinkInv, StreamInv, ReaderInv, [ChatNext]_chatVars
  PROVE  StreamInv' /\ ReaderInv'
<1>1. TalkInv'
  BY ChatStep
<1>2. ASSUME NEW s \in Turns, PageLists(s) \/ Agent(s) PROVE StreamInv' /\ ReaderInv'
  <2>1. CASE PageLists(s)
    BY <1>1, <2>1, LinkIsQuiet
  <2>2. CASE Refuse(s)
    BY <1>1, <2>2, RefusalIsQuiet DEF Refuse
  <2>3. CASE Agent(s) /\ ~Refuse(s)
    BY <1>1, <2>3, AgentSays
  <2>4. QED
    BY <1>2, <2>1, <2>2, <2>3
<1>3. ASSUME NEW p \in Pages, NEW s \in Turns, Post(p, s) PROVE StreamInv' /\ ReaderInv'
  BY <1>1, <1>3, PostIsTold
<1>4. ASSUME NEW p \in Pages, ReadEvent(p) \/ StreamEnds(p) \/ ReadRefusal(p) \/ StreamBreaks(p)
      PROVE  StreamInv' /\ ReaderInv'
  BY <1>1, <1>4, ReadIsTold, EndIsTold
<1>5. ASSUME NEW p \in Pages, Clear(p) \/ Reset(p) \/ ResetFails(p) \/ Cleared(p)
      PROVE  StreamInv' /\ ReaderInv'
  BY <1>1, <1>5, LinkIsQuiet, ClearedIsEmpty
<1>6. CASE ToolsChange \/ Notify \/ FrameArrives \/ Unlink \/ UNCHANGED chatVars
  BY <1>1, <1>6, LinkIsQuiet
<1>7. ASSUME NEW s \in Turns, Unsent(s) PROVE StreamInv' /\ ReaderInv'
  BY <1>1, <1>7, RefusalIsQuiet DEF Unsent
<1>8. QED
  BY <1>2, <1>3, <1>4, <1>5, <1>6, <1>7 DEF ChatNext

LEMMA ReaderBegins == ChatInit => StreamInv /\ ReaderInv
<1> SUFFICES ASSUME ChatInit PROVE StreamInv /\ ReaderInv
  OBVIOUS
<1>1. /\ events = [s \in Turns |-> <<>>] /\ turn = [s \in Turns |-> NoTurn("free")]
      /\ transcript = [p \in Pages |-> NothingSaid] /\ busy = [p \in Pages |-> 0]
  BY DEF ChatInit
<1>2. \A s \in Turns : turn[s].phase = "free" /\ events[s] = <<>>
  BY <1>1 DEF NoTurn, TurnAt
<1>3. StreamInv
  BY <1>1, <1>2 DEF StreamInv, StreamWell, Before
<1>4. NothingSaid \in Shown /\ \A how : ShownWell(turn, 0, <<>>, NothingSaid, how)
  BY DEF NothingSaid, Shown, ShownWell
<1>5. ReaderInv
  BY <1>1, <1>4 DEF ReaderInv, Unread
<1>6. QED
  BY <1>3, <1>5

(* Whatever turns a page started, lost the stream of or emptied its transcript *)
(* under: between turns nothing is shown in progress, and a call never stands *)
(* without its result, unless the failure that cut the turn short is right   *)
(* below; and a transcript not emptied under a turn shows no result without  *)
(* its call (transcript.ts, fold; App.tsx, send and clear).                  *)
THEOREM TranscriptsAreTrue == ChatSpec => []TranscriptTellsTheTurn
<1>1. TalkInv /\ LinkInv /\ StreamInv /\ ReaderInv /\ [ChatNext]_chatVars
        => (StreamInv /\ ReaderInv)'
  BY ReaderStep
<1>2. ReaderInv => TranscriptTellsTheTurn
  <2> SUFFICES ASSUME ReaderInv, NEW p \in Pages
               PROVE  LET said == transcript[p] IN
                      /\ busy[p] = 0 /\ said.status =>
                           said.entries # <<>> /\ Last(said.entries).kind = "failure"
                      /\ \A i \in DOMAIN said.entries :
                           LET e == said.entries[i] IN
                           /\ e.kind = "call" /\ e.result = "pending" => AccountedFor(said, i, busy[p] # 0)
                           /\ p \notin wiped => e.kind # "anomaly"
    BY DEF TranscriptTellsTheTurn
  <2> DEFINE said == transcript[p]
  <2>1. ShownWell(turn, busy[p], Unread(busy[p]), said, Standing(p)) /\ said \in Shown
    BY DEF ReaderInv
  <2> HIDE DEF said
  <2>2. busy[p] = 0 /\ said.status => said.entries # <<>> /\ Last(said.entries).kind = "failure"
    BY <2>1 DEF ShownWell, EndsInFailure, Last
  <2>3. ASSUME NEW i \in DOMAIN said.entries, PendingIn(said, i) PROVE AccountedFor(said, i, busy[p] # 0)
    <3>1. CASE Running(said, i)
      BY <2>1, <3>1 DEF ShownWell, AccountedFor
    <3>2. CASE ~Running(said, i)
      BY <2>3, <3>2 DEF Running, Explained, AccountedFor
    <3>3. QED
      BY <3>1, <3>2
  <2>4. \A i \in DOMAIN said.entries : p \notin wiped => said.entries[i].kind # "anomaly"
    BY <2>1 DEF ShownWell, Standing
  <2>5. QED
    BY <2>2, <2>3, <2>4 DEF PendingIn, CallIn, said
<1>3. QED
  BY <1>1, <1>2, ChatAlways, ReaderBegins, PTL DEF ChatSpec


=============================================================================
