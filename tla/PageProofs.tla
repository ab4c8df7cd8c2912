----------------------------- MODULE PageProofs -----------------------------
(***************************************************************************)
(* Theorems of what the page does for a call: DomTools, for every tree, every*)
(* look of its nodes and every bound on the elements and the ordinals;     *)
(* RenderBarrier, for every set of calls; ComposableBoard, for every set of  *)
(* calls, every batch they may ask for and every catalogue of panels; and,   *)
(* last, of the parts of MCParts side by side: that they stay well-formed,   *)
(* and that whoever waits in one of them is served.                         *)
(***************************************************************************)
EXTENDS MCParts, OperatorProofs, AgentProofs, FiniteSetTheorems, TLAPS

-----------------------------------------------------------------------------
(***************************************************************************)
(* DomTools: a reference names the element it was told of.                 *)
(***************************************************************************)
(* A snapshot reports a whole number of elements, none of them detached. *)
LEMMA ReportedCounted ==
  ASSUME connected \subseteq Nodes
  PROVE  Reported \subseteq connected /\ Cardinality(Reported) \in Nat
<1>1. Reported \subseteq connected
  BY DEF Reported, described, Described
<1>2. IsFiniteSet(Nodes)
  BY FS_Interval, TreeAssumption DEF Nodes
<1>3. IsFiniteSet(Reported)
  BY <1>1, <1>2, FS_Subset
<1>4. QED
  BY <1>1, <1>3, FS_CardinalityType

(* What the table, the counter and the history have in common.              *)
Issued ==
  /\ connected \subseteq Nodes
  /\ counter \in Nat
  /\ \A e \in told : e.token \in Nat /\ 0 < e.token /\ e.token <= counter
  /\ \A e, f \in told : e.token = f.token => e = f
  /\ live =>
       /\ current = DOMAIN entries
       /\ \A t \in DOMAIN entries :
            [token |-> t, witness |-> entries[t], url |-> tableUrl] \in told

LEMMA IssuedInit == Init => Issued
BY DEF Init, Issued

(* The tokens a snapshot tells of are new ones, each for one witness.        *)
LEMMA IssuedSnapshot == ASSUME Issued, takeSnapshot PROVE Issued'
<1> DEFINE new == {[token |-> t, witness |-> Minted[t], url |-> url] : t \in DOMAIN Minted}
<1>1. Cardinality(Reported) \in Nat
  BY ReportedCounted DEF Issued
<1>2. /\ DOMAIN Minted = (counter + 2)..(counter + 1 + Cardinality(Reported))
      /\ counter' = counter + 1 + Cardinality(Reported) /\ counter \in Nat
      /\ told' = told \cup new
  BY DEF takeSnapshot, Minted, Issued
<1>3. \A t \in DOMAIN Minted : t \in Nat /\ counter < t /\ t <= counter'
  BY <1>1, <1>2
<1>4. \A e \in new : e.token \in Nat /\ counter < e.token /\ e.token <= counter'
  BY <1>3
<1>5. \A e, f \in new : e.token = f.token => e = f
  OBVIOUS
<1>6. \A e \in told : e.token \in Nat /\ 0 < e.token /\ e.token <= counter
  BY DEF Issued
<1>7. counter' \in Nat /\ counter <= counter'
  BY <1>1, <1>2
<1>8. \A e \in told' : e.token \in Nat /\ 0 < e.token /\ e.token <= counter'
  BY <1>2, <1>4, <1>6, <1>7
<1>9. \A e, f \in told' : e.token = f.token => e = f
  <2> SUFFICES ASSUME NEW e \in told', NEW f \in told', e.token = f.token PROVE e = f
    OBVIOUS
  <2>1. CASE e \in told /\ f \in told
    BY <2>1 DEF Issued
  <2>2. CASE e \in new /\ f \in new
    BY <1>5, <2>2
  <2>3. ~(e \in told /\ f \in new) /\ ~(e \in new /\ f \in told)
    BY <1>2, <1>4, <1>6
  <2>4. QED
    BY <1>2, <2>1, <2>2, <2>3
<1>10. /\ current' = DOMAIN entries' /\ connected' \subseteq Nodes
       /\ \A t \in DOMAIN entries' :
            [token |-> t, witness |-> entries'[t], url |-> tableUrl'] \in told'
  BY <1>2 DEF takeSnapshot, Issued, document
<1>11. QED
  BY <1>7, <1>8, <1>9, <1>10 DEF Issued

(* An ordinal taken and told to nobody: a pass that throws, or an invalidation. *)
LEMMA IssuedCounted ==
  ASSUME Issued, counter' \in Nat, counter <= counter', UNCHANGED <<connected, told>>,
         live' => UNCHANGED <<live, entries, tableUrl, current>>
  PROVE  Issued'
<1>1. \A e \in told' : e.token \in Nat /\ 0 < e.token /\ e.token <= counter'
  BY DEF Issued
<1>2. QED
  BY <1>1 DEF Issued

LEMMA IssuedApplication == ASSUME Issued, Application PROVE Issued'
<1>1. CASE invalidateDomRefs
  BY <1>1, IssuedCounted DEF invalidateDomRefs, Invalidated, document, Issued
<1>2. CASE UNCHANGED <<counter, table, told, current>> /\ connected' \subseteq Nodes
  BY <1>2 DEF Issued, table
<1>3. ASSUME NEW n \in Nodes, Detach(n) \/ Attach(n)
      PROVE  UNCHANGED <<counter, table, told, current>> /\ connected' \subseteq Nodes
  BY <1>3 DEF Detach, Attach, Issued
<1>4. ASSUME NEW n \in Nodes, NEW look \in Looks[n], Rerender(n, look)
      PROVE  UNCHANGED <<counter, table, told, current>> /\ connected' \subseteq Nodes
  BY <1>4 DEF Rerender, Issued
<1>5. ASSUME NEW u \in Urls, Navigate(u)
      PROVE  UNCHANGED <<counter, table, told, current>> /\ connected' \subseteq Nodes
  BY <1>5 DEF Navigate, Issued
<1>6. QED
  BY <1>1, <1>2, <1>3, <1>4, <1>5 DEF Application

LEMMA IssuedStep == ASSUME Issued, [Next]_vars PROVE Issued'
<1>1. CASE UNCHANGED vars
  BY <1>1 DEF vars, document, table, Issued
<1>2. CASE takeSnapshot
  BY <1>2, IssuedSnapshot
<1>3. ASSUME NEW k \in 0..Limit, SnapshotThrows(k) PROVE Issued'
  <2>1. counter' = counter + 1 + k /\ counter \in Nat /\ k \in Nat
    BY <1>3, DomAssumption DEF SnapshotThrows, Issued
  <2>2. QED
    BY <1>3, <2>1, IssuedCounted DEF SnapshotThrows, document, table
<1>4. ASSUME NEW t \in Tokens, GetText(t) \/ Operate(t) PROVE Issued'
  BY <1>1, <1>4, IssuedApplication DEF GetText, Operate
<1>5. ASSUME NEW t \in Tokens, NEW v \in Values, Fill(t, v) \/ Select(t, v) PROVE Issued'
  BY <1>5 DEF Fill, Select, table, Issued
<1>6. QED
  BY <1>1, <1>2, <1>3, <1>4, <1>5, IssuedApplication DEF Next

(* A token that resolves is one of the live table, and so was told once, by   *)
(* the last snapshot, of that very element at this address; a token told is  *)
(* within the counter.                                                      *)
LEMMA IssuedResolves == Issued => ResolvesAsTold
<1> SUFFICES ASSUME Issued PROVE ResolvesAsTold
  OBVIOUS
<1>1. ASSUME NEW t \in Tokens, resolveReference(t) = "resolved"
      PROVE  /\ t \in current
             /\ {e \in told : e.token = t} =
                  {[token |-> t, witness |-> Witness(Target(t)), url |-> url]}
             /\ Target(t) \in connected
  <2>1. /\ live /\ t \in DOMAIN entries /\ entries[t].node \in connected
        /\ url = tableUrl /\ Witness(entries[t].node) = entries[t]
    BY <1>1 DEF resolveReference
  <2> DEFINE e == [token |-> t, witness |-> Witness(Target(t)), url |-> url]
  <2>2. e \in told /\ e.token = t
    BY <2>1 DEF Issued, Target
  <2>3. \A f \in told : f.token = t => f = e
    BY <2>2 DEF Issued
  <2>4. {f \in told : f.token = t} = {e}
    BY <2>2, <2>3
  <2>5. QED
    BY <2>1, <2>4 DEF Issued, Target
<1>2. ASSUME NEW e \in told PROVE resolveReference(e.token) # "neverIssued"
  <2>1. e.token \in Nat /\ 0 < e.token /\ e.token <= counter /\ counter \in Nat
    BY DEF Issued
  <2>2. ~(e.token = 0 \/ e.token > counter)
    BY <2>1
  <2>3. QED
    BY <2>2 DEF resolveReference
<1>3. QED
  BY <1>1, <1>2 DEF ResolvesAsTold, RefusalReport

(* Whatever the application does to the page between a snapshot and a call,   *)
(* a reference that resolves is the element the agent was told of.          *)
THEOREM ReferencesSound == Spec => []ResolvesAsTold
<1>1. Init => Issued
  BY IssuedInit
<1>2. Issued /\ [Next]_vars => Issued'
  BY IssuedStep
<1>3. QED
  BY <1>1, <1>2, IssuedResolves, PTL DEF Spec

(* The places of what a snapshot reports are the numbers up to their count: a  *)
(* token is minted for each element, and for nothing else.                   *)
LEMMA PlacesAreNumbers ==
  ASSUME connected \subseteq Nodes, NEW k \in 1..Cardinality(Reported)
  PROVE  \E n \in Reported : Place(n) = k
<1> DEFINE Upto(n) == {m \in described : m <= n}
           T == 1..Cardinality(Reported)
           place == [n \in Reported |-> Place(n)]
<1>1. described \subseteq connected /\ Reported \subseteq described /\ described \subseteq Nodes
  BY DEF described, Described, Reported
<1>2. IsFiniteSet(described) /\ Nodes \subseteq Nat
  <2>1. IsFiniteSet(Nodes)
    BY FS_Interval, TreeAssumption DEF Nodes
  <2>2. Nodes \subseteq Nat
    BY TreeAssumption DEF Nodes
  <2>3. QED
    BY <1>1, <2>1, <2>2, FS_Subset
<1>3. Cardinality(Reported) \in Nat
  BY ReportedCounted
<1>4. ASSUME NEW n \in described
      PROVE  /\ IsFiniteSet(Upto(n)) /\ Place(n) = Cardinality(Upto(n))
             /\ Place(n) \in Nat /\ Place(n) # 0 /\ n \in Upto(n)
  <2>1. IsFiniteSet(Upto(n))
    BY <1>2, FS_Subset
  <2>2. n \in Upto(n)
    BY <1>1, <1>2
  <2>3. Place(n) = Cardinality(Upto(n))
    BY DEF Place
  <2>4. QED
    BY <2>1, <2>2, <2>3, FS_CardinalityType, FS_EmptySet
<1>5. ASSUME NEW n \in described, NEW m \in described, n < m PROVE Place(n) < Place(m)
  <2>a. n \in Nat /\ m \in Nat /\ described \subseteq Nat
    BY <1>1, <1>2
  <2>b. Upto(n) \subseteq Upto(m)
    <3> SUFFICES ASSUME NEW q \in Upto(n) PROVE q \in Upto(m)
      OBVIOUS
    <3>1. q \in described /\ q <= n /\ q \in Nat
      BY <2>a
    <3>2. q <= m
      BY <1>5, <2>a, <3>1
    <3>3. QED
      BY <3>1, <3>2
  <2>c. m \notin Upto(n)
    BY <1>5, <2>a
  <2>d. m \in Upto(m)
    BY <2>a
  <2>1. Upto(n) \subseteq Upto(m) /\ m \notin Upto(n) /\ m \in Upto(m)
    BY <2>b, <2>c, <2>d
  <2>2. Cardinality(Upto(n)) <= Cardinality(Upto(m)) /\ Cardinality(Upto(n)) # Cardinality(Upto(m))
    <3> HIDE DEF Upto
    <3>1. QED
      BY <1>4, <2>1, FS_Subset
  <2>3. QED
    <3> HIDE DEF Upto
    <3>1. QED
      BY <1>4, <2>2
<1>6. ASSUME NEW n \in Reported PROVE Place(n) \in T
  <2>1. Upto(n) \subseteq Reported
    <3> SUFFICES ASSUME NEW m \in Upto(n) PROVE Place(m) <= Limit
      BY DEF Reported
    <3>1. m \in described /\ n \in described /\ (m < n \/ m = n)
      BY <1>1, <1>2
    <3>2. Place(m) \in Nat /\ Place(n) \in Nat /\ Place(n) <= Limit /\ Limit \in Nat
      <4> HIDE DEF Upto
      <4>1. QED
        BY <1>4, <3>1, DomAssumption DEF Reported
    <3>3. Place(m) <= Place(n)
      BY <1>5, <3>1, <3>2
    <3>4. QED
      BY <3>2, <3>3
  <2>2. IsFiniteSet(Reported)
    BY <1>1, <1>2, FS_Subset
  <2>3. Cardinality(Upto(n)) <= Cardinality(Reported)
    <3> HIDE DEF Upto
    <3>1. QED
      BY <2>1, <2>2, FS_Subset
  <2>4. QED
    <3> HIDE DEF Upto
    <3>1. n \in described
      BY <1>1
    <3>2. Place(n) = Cardinality(Upto(n)) /\ Place(n) \in Nat /\ Place(n) # 0
      BY <1>4, <3>1
    <3>3. QED
      BY <1>3, <2>3, <3>2
<1>7. place \in Injection(Reported, T)
  <2>1. place \in [Reported -> T]
    BY <1>6
  <2>2. ASSUME NEW n \in Reported, NEW m \in Reported, place[n] = place[m] PROVE n = m
    <3>1. n \in described /\ m \in described /\ n \in Nat /\ m \in Nat
      BY <1>1, <1>2
    <3>2. Place(n) = Place(m)
      BY <2>2
    <3>3. Place(n) \in Nat /\ Place(m) \in Nat
      <4> HIDE DEF Upto
      <4>1. QED
        BY <1>4, <3>1
    <3>4. ~(n < m) /\ ~(m < n)
      BY <1>5, <3>1, <3>2, <3>3
    <3>5. QED
      BY <3>1, <3>4
  <2> HIDE DEF place, T
  <2>3. QED
    BY <2>1, <2>2 DEF Injection, IsInjective
<1>8. IsFiniteSet(T) /\ Cardinality(T) = Cardinality(Reported)
  BY <1>3, FS_Interval
<1>9. place \in Surjection(Reported, T)
  <2> HIDE DEF place, T
  <2>1. QED
    BY <1>7, <1>8, FS_Injection
<1>10. \E n \in Reported : place[n] = k
  <2> HIDE DEF place
  <2>1. QED
    BY <1>9 DEF Surjection
<1>11. QED
  BY <1>10

LEMMA SnapshotTyped == ASSUME TypeOK, takeSnapshot PROVE TypeOK'
<1>1. connected \subseteq Nodes /\ counter \in Nat /\ MaxCounter \in Nat
  BY DomAssumption DEF TypeOK
<1>2. Cardinality(Reported) \in Nat /\ Reported \subseteq Nodes
  BY <1>1, ReportedCounted
<1>3. /\ counter' = counter + 1 + Cardinality(Reported) /\ counter' <= MaxCounter
      /\ entries' = Minted /\ current' = DOMAIN Minted /\ live' = TRUE /\ tableUrl' = url
      /\ told' = told \cup {[token |-> t, witness |-> Minted[t], url |-> url] : t \in DOMAIN Minted}
      /\ UNCHANGED document
  BY DEF takeSnapshot
<1>4. DOMAIN Minted = (counter + 2)..(counter + 1 + Cardinality(Reported))
  BY DEF Minted
<1>5. DOMAIN Minted \subseteq 1..counter'
  BY <1>1, <1>2, <1>3, <1>4
<1>6. ASSUME NEW t \in DOMAIN Minted PROVE Minted[t].node \in Nodes
  <2> DEFINE n == CHOOSE m \in Reported : Place(m) = t - counter - 1
  <2>1. t - counter - 1 \in 1..Cardinality(Reported)
    BY <1>1, <1>2, <1>4
  <2>2. \E m \in Reported : Place(m) = t - counter - 1
    BY <1>1, <2>1, PlacesAreNumbers
  <2>3. n \in Reported
    BY <2>2
  <2>4. Minted[t] = Witness(n)
    BY <1>4 DEF Minted
  <2> HIDE DEF n
  <2>5. QED
    BY <1>2, <2>3, <2>4 DEF Witness
<1>7. ASSUME NEW e \in told' PROVE e.token \in 1..counter'
  <2>1. CASE e \in told
    BY <1>1, <1>2, <1>3, <2>1 DEF TypeOK
  <2>2. CASE e \notin told
    BY <1>3, <1>5, <2>2
  <2>3. QED
    BY <2>1, <2>2
<1>8. counter' \in 0..MaxCounter
  BY <1>1, <1>2, <1>3
<1>9. QED
  BY <1>3, <1>5, <1>6, <1>7, <1>8 DEF TypeOK, document

(* Ordinals are taken and no table is installed. *)
LEMMA CountedTyped ==
  ASSUME TypeOK, NEW k \in Nat, counter' = counter + k, counter' <= MaxCounter,
         UNCHANGED <<document, entries, tableUrl, told>>,
         live' \in BOOLEAN, current' \in {current, {}}
  PROVE  TypeOK'
<1>1. counter \in Nat /\ counter' \in 0..MaxCounter /\ 1..counter \subseteq 1..counter'
  BY DomAssumption DEF TypeOK
<1>2. QED
  BY <1>1 DEF TypeOK, document

LEMMA ApplicationTyped == ASSUME TypeOK, Application PROVE TypeOK'
<1>1. CASE invalidateDomRefs
  <2>1. /\ counter' = counter + 1 /\ counter < MaxCounter
        /\ UNCHANGED <<document, entries, tableUrl, told>> /\ live' = FALSE /\ current' = {}
    BY <1>1 DEF invalidateDomRefs, Invalidated
  <2>2. counter + 1 <= MaxCounter
    BY <2>1, DomAssumption DEF TypeOK
  <2>3. QED
    BY <2>1, <2>2, CountedTyped
<1>2. ASSUME NEW n \in Nodes, Detach(n) \/ Attach(n) PROVE TypeOK'
  BY <1>2 DEF Detach, Attach, TypeOK, table
<1>3. ASSUME NEW n \in Nodes, NEW look \in Looks[n], Rerender(n, look) PROVE TypeOK'
  BY <1>3 DEF Rerender, TypeOK, table
<1>4. ASSUME NEW u \in Urls, Navigate(u) PROVE TypeOK'
  BY <1>4 DEF Navigate, TypeOK, table
<1>5. QED
  BY <1>1, <1>2, <1>3, <1>4 DEF Application

LEMMA DomTypeStep == ASSUME TypeOK, [Next]_vars PROVE TypeOK'
<1>1. CASE UNCHANGED vars
  BY <1>1 DEF vars, document, table, TypeOK
<1>2. ASSUME NEW k \in 0..Limit, SnapshotThrows(k) PROVE TypeOK'
  <2>1. /\ counter' = counter + (1 + k) /\ counter' <= MaxCounter /\ 1 + k \in Nat
        /\ UNCHANGED <<document, entries, tableUrl, told>> /\ live' = live /\ current' = current
    BY <1>2, DomAssumption DEF SnapshotThrows, TypeOK, table
  <2>2. live' \in BOOLEAN
    BY <2>1 DEF TypeOK
  <2>3. QED
    BY <2>1, <2>2, CountedTyped
<1>3. ASSUME NEW t \in Tokens, GetText(t) \/ Operate(t) PROVE TypeOK'
  BY <1>1, <1>3, ApplicationTyped DEF GetText, Operate
<1>4. ASSUME NEW t \in Tokens, NEW v \in Values, Fill(t, v) \/ Select(t, v) PROVE TypeOK'
  <2>1. /\ \E q : page' = [page EXCEPT ![Target(t)] = q]
        /\ UNCHANGED <<connected, url, counter, table, told, current>>
    BY <1>4 DEF Fill, Select
  <2>2. DOMAIN page' = DOMAIN page
    BY <2>1
  <2>3. QED
    BY <2>1, <2>2 DEF TypeOK, table
<1>5. QED
  BY <1>1, <1>2, <1>3, <1>4, ApplicationTyped, SnapshotTyped DEF Next

(* The table names nodes of the page under ordinals that were minted, for every *)
(* tree and however the page changes (references.ts, snapshot.ts).             *)
THEOREM DomTyped == Spec => []TypeOK
<1>1. Init => TypeOK
  <2> SUFFICES ASSUME Init PROVE TypeOK
    OBVIOUS
  <2>1. DOMAIN page = Nodes /\ connected = Nodes /\ url \in Urls
    BY DEF Init
  <2>2. counter \in 0..MaxCounter
    BY DomAssumption DEF Init
  <2>3. DOMAIN entries = {} /\ told = {}
    BY DEF Init
  <2>4. QED
    BY <2>1, <2>2, <2>3 DEF Init, TypeOK
<1>2. TypeOK /\ [Next]_vars => TypeOK'
  BY DomTypeStep
<1>3. QED
  BY <1>1, <1>2, PTL DEF Spec

-----------------------------------------------------------------------------
(***************************************************************************)
(* RenderBarrier: a report waits for what it reports.                      *)
(***************************************************************************)
(* The barrier's state is well-formed in every reachable state. *)
THEOREM BarrierTyped == BarrierSpec => []BarrierTypeOK
<1>1. ASSUME BarrierInit PROVE BarrierTypeOK
  <2>1. issued \in Nat /\ renderTick \in 0..issued
    BY <1>1 DEF BarrierInit
  <2>2. waiters \subseteq [call : Handlers, tick : 1..issued]
    BY <1>1 DEF BarrierInit
  <2>3. phase \in [Handlers -> {"running", "acted", "waiting", "resumed", "answered", "failed",
                             "cancelled"}]
    BY <1>1 DEF BarrierInit
  <2>4. reported \in [Handlers -> SUBSET Handlers]
    BY <1>1 DEF BarrierInit
  <2>5. QED
    BY <1>1, <2>1, <2>2, <2>3, <2>4 DEF BarrierInit, BarrierTypeOK
<1>2. ASSUME BarrierTypeOK, [BarrierNext]_barrierVars PROVE BarrierTypeOK'
  <2>1. CASE UNCHANGED barrierVars
    BY <1>2, <2>1 DEF BarrierTypeOK, barrierVars, react, barrier
  <2>2. CASE StrictRemount
    BY <1>2, <2>2 DEF BarrierTypeOK, StrictRemount, SetUp, Resumed
  <2>3. CASE Commit
    BY <1>2, <2>3 DEF BarrierTypeOK, Commit, barrier
  <2>4. CASE RunEffects
    BY <1>2, <2>4 DEF BarrierTypeOK, RunEffects, Resumed
  <2>5. CASE Unmount
    BY <1>2, <2>5 DEF BarrierTypeOK, Unmount, barrier
  <2>6. CASE CleanUp
    BY <1>2, <2>6 DEF BarrierTypeOK, CleanUp, CleanedUp, Resumed
  <2>7. ASSUME NEW c \in Handlers, Act(c) \/ ActionFails(c) \/ Cancel(c) \/ Report(c) \/ ReadState(c)
        PROVE  BarrierTypeOK'
    BY <1>2, <2>7 DEF BarrierTypeOK, Act, ActionFails, Cancel, Report, ReadState, react, barrier
  <2>8. ASSUME NEW c \in Handlers, AfterRender(c) PROVE BarrierTypeOK'
    BY <1>2, <2>8 DEF BarrierTypeOK, AfterRender, react, barrier
  <2>9. QED
    BY <1>2, <2>1, <2>2, <2>3, <2>4, <2>5, <2>6, <2>7, <2>8 DEF BarrierNext
<1>3. QED
  BY <1>1, <1>2, PTL DEF BarrierSpec

(* Who waits has changed something that React has or the page shows; a waiter  *)
(* whose tick a commit has reached is shown; and the latch is the tree's end. *)
BarrierInv ==
  /\ torn = (tree = "gone")
  /\ tree = "strict" => waiters = {} /\ \A c \in Handlers : phase[c] = "running"
  /\ \A c \in Handlers :
       tree = "up" /\ phase[c] \in {"acted", "waiting"} => c \in scheduled \cup shown
  /\ \A w \in waiters :
       /\ phase[w.call] \notin {"running", "acted"}
       /\ phase[w.call] = "waiting" /\ w.call \notin Deferred /\ w.tick <= renderTick
            => w.call \in shown

(* The invariant's parts and the property, in a state reached by a step that   *)
(* leaves React and the waiters alone.                                      *)
LEMMA QuietStep ==
  ASSUME BarrierTypeOK, BarrierInv, ReportedIsShown, UNCHANGED <<react, barrier>>, NEW c \in Handlers,
         NEW to \in {"failed", "cancelled"},
         tree # "strict", phase' = [phase EXCEPT ![c] = to], UNCHANGED reported
  PROVE  BarrierInv' /\ ReportedIsShown'
<1>1. \A d \in Handlers : phase'[d] = phase[d] \/ phase'[d] \in {"failed", "cancelled"}
  BY DEF BarrierTypeOK
<1>2. BarrierInv'
  BY <1>1 DEF BarrierInv, BarrierTypeOK, react, barrier
<1>3. QED
  BY <1>1, <1>2 DEF ReportedIsShown, react, barrier

LEMMA BarrierStep ==
  ASSUME BarrierTypeOK, BarrierInv, ReportedIsShown, [BarrierNext]_barrierVars
  PROVE  BarrierInv' /\ ReportedIsShown'
<1>1. CASE UNCHANGED barrierVars
  BY <1>1 DEF BarrierInv, ReportedIsShown, barrierVars, react, barrier
<1>2. CASE StrictRemount
  <2>1. phase' = phase /\ waiters' = {} /\ tree' = "up" /\ torn' = FALSE
    BY <1>2 DEF BarrierInv, BarrierTypeOK, StrictRemount, SetUp, Resumed
  <2>2. QED
    BY <1>2, <2>1 DEF BarrierInv, ReportedIsShown, StrictRemount
<1>3. CASE Commit
  <2>1. scheduled \ Deferred \subseteq shown' /\ shown \subseteq shown'
        /\ scheduled' \cup shown' = scheduled \cup shown
    BY <1>3 DEF Commit
  <2>2. tree = "up" /\ UNCHANGED <<tree, torn, waiters, phase, reported>>
    BY <1>3 DEF Commit, barrier
  <2>3. QED
    BY <2>1, <2>2 DEF BarrierInv, ReportedIsShown, BarrierTypeOK
<1>4. CASE RunEffects
  <2>1. /\ UNCHANGED <<tree, torn, renderTick, scheduled, shown, reported>>
        /\ waiters' \subseteq waiters
        /\ \A c \in Handlers : \/ phase'[c] = phase[c]
                            \/ /\ phase[c] = "waiting" /\ phase'[c] = "resumed"
                               /\ \E w \in waiters : w.call = c /\ w.tick <= renderTick
    BY <1>4 DEF RunEffects, Resumed, Reached, BarrierTypeOK
  <2>2. \A c \in Handlers \ Deferred : phase[c] = "waiting" /\ phase'[c] = "resumed" => c \in shown
    BY <2>1 DEF BarrierInv
  <2>3. \A c \in Handlers : phase'[c] \in {"acted", "waiting"} => phase'[c] = phase[c]
    BY <2>1
  <2>4. \A w \in waiters : w.call \in Handlers
    BY DEF BarrierTypeOK
  <2>5. /\ tree' = "strict" => waiters' = {} /\ \A c \in Handlers : phase'[c] = "running"
        /\ \A c \in Handlers :
             tree' = "up" /\ phase'[c] \in {"acted", "waiting"} => c \in scheduled' \cup shown'
    BY <2>1, <2>3 DEF BarrierInv
  <2>6. \A w \in waiters' :
          phase'[w.call] \notin {"running", "acted"} /\
          (phase'[w.call] = "waiting" /\ w.call \notin Deferred /\ w.tick <= renderTick'
            => w.call \in shown')
    BY <2>1, <2>3, <2>4 DEF BarrierInv
  <2>7. BarrierInv'
    BY <2>1, <2>5, <2>6 DEF BarrierInv
  <2>8. QED
    BY <2>1, <2>2, <2>7 DEF ReportedIsShown
<1>5. CASE Unmount
  BY <1>5 DEF Unmount, BarrierInv, ReportedIsShown, barrier
<1>6. CASE CleanUp
  <2>1. /\ torn' = TRUE /\ tree' = "gone" /\ waiters' = {}
    BY <1>6 DEF CleanUp, CleanedUp
  <2>2. QED
    BY <2>1 DEF BarrierInv, ReportedIsShown
<1>7. ASSUME NEW c \in Handlers, Act(c) PROVE BarrierInv' /\ ReportedIsShown'
  <2>1. /\ phase' = [phase EXCEPT ![c] = "acted"] /\ phase[c] = "running" /\ tree # "strict"
        /\ UNCHANGED <<tree, renderTick, shown, torn, waiters, reported>>
        /\ scheduled \subseteq scheduled' /\ (tree = "up" => c \in scheduled')
    BY <1>7 DEF Act, barrier
  <2>2. \A d \in Handlers : phase'[d] = phase[d] \/ (d = c /\ phase'[d] = "acted")
    BY <2>1 DEF BarrierTypeOK
  <2>3. QED
    BY <2>1, <2>2 DEF BarrierInv, ReportedIsShown, BarrierTypeOK
<1>8. ASSUME NEW c \in Handlers, ActionFails(c) PROVE BarrierInv' /\ ReportedIsShown'
  BY <1>8, QuietStep DEF ActionFails, react, barrier
<1>9. ASSUME NEW c \in Handlers, Cancel(c) PROVE BarrierInv' /\ ReportedIsShown'
  BY <1>9, QuietStep DEF Cancel, react, barrier
<1>10. ASSUME NEW c \in Handlers, AfterRender(c) PROVE BarrierInv' /\ ReportedIsShown'
  <2>1. phase[c] = "acted" /\ UNCHANGED <<tree, renderTick, scheduled, shown, torn, reported>>
    BY <1>10 DEF AfterRender, react, barrier
  <2>2. CASE torn
    <3>1. phase' = [phase EXCEPT ![c] = "resumed"] /\ UNCHANGED waiters /\ tree = "gone"
      BY <1>10, <2>2 DEF AfterRender, barrier, BarrierInv
    <3>2. QED
      BY <2>1, <2>2, <3>1 DEF BarrierInv, ReportedIsShown, BarrierTypeOK
  <2>3. CASE ~torn
    <3>1. /\ phase' = [phase EXCEPT ![c] = "waiting"]
          /\ waiters' = waiters \cup {[call |-> c, tick |-> issued + 1]}
      BY <1>10, <2>3 DEF AfterRender
    <3>2. \A d \in Handlers : phase'[d] = phase[d] \/ (d = c /\ phase'[d] = "waiting")
      BY <3>1 DEF BarrierTypeOK
    <3>3. issued + 1 > renderTick /\ tree # "strict"
      BY <2>1 DEF BarrierTypeOK, BarrierInv
    <3>4. \A w \in waiters : w.call # c
      BY <2>1 DEF BarrierInv
    <3>5. QED
      BY <2>1, <3>1, <3>2, <3>3, <3>4 DEF BarrierInv, ReportedIsShown, BarrierTypeOK
  <2>4. QED
    BY <2>2, <2>3
<1>11. ASSUME NEW c \in Handlers, Report(c) PROVE BarrierInv' /\ ReportedIsShown'
  <2>1. /\ phase[c] = "resumed" /\ phase' = [phase EXCEPT ![c] = "answered"]
        /\ reported' = [reported EXCEPT ![c] = shown]
        /\ UNCHANGED <<tree, torn, renderTick, scheduled, shown, waiters>>
    BY <1>11 DEF Report, react, barrier
  <2>2. \A d \in Handlers : phase'[d] = phase[d] \/ (d = c /\ phase'[d] = "answered")
    BY <2>1 DEF BarrierTypeOK
  <2>3. BarrierInv'
    BY <2>1, <2>2 DEF BarrierInv, BarrierTypeOK
  <2>4. QED
    BY <2>1, <2>2 DEF BarrierInv, ReportedIsShown, BarrierTypeOK
<1>12. ASSUME NEW c \in Handlers, ReadState(c) PROVE BarrierInv' /\ ReportedIsShown'
  <2>1. /\ phase[c] = "running" /\ phase' = [phase EXCEPT ![c] = "read"]
        /\ reported' = [reported EXCEPT ![c] = shown] /\ tree # "strict"
        /\ UNCHANGED <<tree, torn, renderTick, scheduled, shown, waiters>>
    BY <1>12 DEF ReadState, react, barrier
  <2>2. \A d \in Handlers : phase'[d] = phase[d] \/ (d = c /\ phase'[d] = "read")
    BY <2>1 DEF BarrierTypeOK
  <2>3. QED
    BY <2>1, <2>2 DEF BarrierInv, ReportedIsShown, BarrierTypeOK
<1>13. QED
  BY <1>1, <1>2, <1>3, <1>4, <1>5, <1>6, <1>7, <1>8, <1>9, <1>10, <1>11, <1>12 DEF BarrierNext

(* A tool call never reports a change before the page shows it, whatever the   *)
(* commits, the cancellations and the teardown around it.                    *)
THEOREM NoReportBeforeCommit == BarrierSpec => []ReportedIsShown
<1>1. BarrierInit => BarrierInv /\ ReportedIsShown
  BY DEF BarrierInit, BarrierInv, ReportedIsShown
<1>2. BarrierTypeOK /\ BarrierInv /\ ReportedIsShown /\ [BarrierNext]_barrierVars => (BarrierInv /\ ReportedIsShown)'
  BY BarrierStep
<1>3. QED
  BY <1>1, <1>2, BarrierTyped, PTL DEF BarrierSpec

(* Where the waiters, the tree and the commits stay, so does whoever waits.   *)
LEMMA WaitsOn ==
  ASSUME BarrierTypeOK, NobodyMissesTheDrain, UNCHANGED <<tree, renderTick, effects>>,
         waiters \subseteq waiters',
         \A c \in Handlers : phase'[c] = "waiting" => phase[c] = "waiting"
  PROVE  NobodyMissesTheDrain'
<1>1. ASSUME NEW c \in Handlers, phase'[c] = "waiting"
      PROVE  /\ tree' # "gone"
             /\ \E w \in waiters' : w.call = c /\ (tree' = "up" /\ Reached(w)' => effects' = "drain")
  <2>1. phase[c] = "waiting"
    BY <1>1
  <2>2. tree # "gone"
    BY <2>1 DEF NobodyMissesTheDrain
  <2>3. PICK w \in waiters : w.call = c /\ (tree = "up" /\ Reached(w) => effects = "drain")
    BY <2>1 DEF NobodyMissesTheDrain
  <2>4. Reached(w)' = Reached(w)
    BY DEF Reached
  <2>5. QED
    BY <2>2, <2>3, <2>4
<1>2. QED
  BY <1>1 DEF NobodyMissesTheDrain

LEMMA WaitersStep ==
  ASSUME BarrierTypeOK, BarrierInv, NobodyMissesTheDrain, [BarrierNext]_barrierVars
  PROVE  NobodyMissesTheDrain'
<1>1. CASE UNCHANGED barrierVars
  BY <1>1, WaitsOn DEF barrierVars, react, barrier
<1>2. CASE StrictRemount \/ CleanUp
  <2>1. phase' = Resumed(waiters)
    BY <1>2 DEF StrictRemount, CleanUp
  <2>2. ASSUME NEW c \in Handlers, phase'[c] = "waiting" PROVE FALSE
    <3>1. phase[c] = "waiting" /\ ~ \E w \in waiters : w.call = c
      BY <2>1, <2>2 DEF Resumed
    <3>2. QED
      BY <3>1 DEF NobodyMissesTheDrain
  <2>3. QED
    BY <2>2 DEF NobodyMissesTheDrain
<1>3. CASE Commit
  <2>1. /\ tree = "up" /\ effects = "run" /\ renderTick' = issued
        /\ effects' = IF issued # renderTick THEN "drain" ELSE "due"
        /\ UNCHANGED <<tree, waiters, phase>>
    BY <1>3 DEF Commit, barrier
  <2>2. ASSUME NEW c \in Handlers, phase[c] = "waiting"
        PROVE  \E w \in waiters : w.call = c /\ effects' = "drain"
    <3>1. PICK w \in waiters : w.call = c /\ ~Reached(w)
      BY <2>1, <2>2 DEF NobodyMissesTheDrain
    <3>2. w.tick <= issued /\ ~(w.tick <= renderTick)
      BY <3>1 DEF BarrierTypeOK, Reached
    <3>3. issued # renderTick
      BY <3>2
    <3>4. QED
      BY <2>1, <3>1, <3>3
  <2>3. QED
    BY <2>1, <2>2 DEF NobodyMissesTheDrain
<1>4. CASE RunEffects
  <2>1. /\ UNCHANGED <<tree, renderTick>>
        /\ effects = "drain" => /\ waiters' = {w \in waiters : ~Reached(w)}
                               /\ phase' = Resumed({w \in waiters : Reached(w)})
        /\ effects # "drain" => UNCHANGED <<waiters, phase>>
    BY <1>4 DEF RunEffects
  <2>2. ASSUME NEW c \in Handlers, phase'[c] = "waiting"
        PROVE  /\ tree # "gone"
               /\ \E w \in waiters' : w.call = c /\ (tree = "up" => ~Reached(w))
    <3>1. CASE effects = "drain"
      <4>1. phase[c] = "waiting" /\ ~ \E w \in waiters : Reached(w) /\ w.call = c
        BY <2>1, <2>2, <3>1 DEF Resumed
      <4>2. PICK w \in waiters : w.call = c
        BY <4>1 DEF NobodyMissesTheDrain
      <4>3. w \in waiters' /\ ~Reached(w)
        BY <2>1, <3>1, <4>1, <4>2
      <4>4. QED
        BY <4>1, <4>2, <4>3 DEF NobodyMissesTheDrain
    <3>2. CASE effects # "drain"
      BY <2>1, <2>2, <3>2 DEF NobodyMissesTheDrain
    <3>3. QED
      BY <3>1, <3>2
  <2>3. ASSUME NEW w PROVE Reached(w)' = Reached(w)
    BY <2>1 DEF Reached
  <2>4. QED
    BY <2>1, <2>2, <2>3 DEF NobodyMissesTheDrain
<1>5. CASE Unmount
  BY <1>5 DEF Unmount, NobodyMissesTheDrain, barrier
<1>6. ASSUME NEW c \in Handlers, Act(c) \/ ActionFails(c) \/ Cancel(c) \/ Report(c) \/ ReadState(c)
      PROVE  NobodyMissesTheDrain'
  <2>1. \A d \in Handlers : phase'[d] = "waiting" => phase[d] = "waiting"
    BY <1>6 DEF Act, ActionFails, Cancel, Report, ReadState, BarrierTypeOK
  <2>2. UNCHANGED <<tree, renderTick, effects, waiters>>
    BY <1>6 DEF Act, ActionFails, Cancel, Report, ReadState, react, barrier
  <2>3. QED
    BY <2>1, <2>2, WaitsOn
<1>7. ASSUME NEW c \in Handlers, AfterRender(c) PROVE NobodyMissesTheDrain'
  <2>1. UNCHANGED <<tree, renderTick, effects>>
    BY <1>7 DEF AfterRender, react
  <2>2. CASE torn
    <3>1. phase' = [phase EXCEPT ![c] = "resumed"] /\ UNCHANGED waiters
      BY <1>7, <2>2 DEF AfterRender, barrier
    <3>2. \A d \in Handlers : phase'[d] = "waiting" => phase[d] = "waiting"
      BY <3>1 DEF BarrierTypeOK
    <3>3. QED
      BY <2>1, <3>1, <3>2, WaitsOn
  <2>3. CASE ~torn
    <3> DEFINE own == [call |-> c, tick |-> issued + 1]
    <3>1. phase' = [phase EXCEPT ![c] = "waiting"] /\ waiters' = waiters \cup {own}
      BY <1>7, <2>3 DEF AfterRender
    <3>2. own.call = c /\ own \in waiters'
      BY <3>1
    <3>3. own.tick = issued + 1 /\ renderTick \in 0..issued /\ issued \in Nat
      BY DEF BarrierTypeOK
    <3>4. ~Reached(own)
      BY <3>3 DEF Reached
    <3> HIDE DEF own
    <3>5. \A w : Reached(w)' = Reached(w)
      BY <2>1 DEF Reached
    <3>6. tree # "gone"
      BY <2>3 DEF BarrierInv
    <3>7. \A d \in Handlers : d = c \/ phase'[d] = phase[d]
      BY <3>1 DEF BarrierTypeOK
    <3>8. ASSUME NEW d \in Handlers, phase'[d] = "waiting"
          PROVE  \E w \in waiters' : w.call = d /\ (tree = "up" /\ Reached(w) => effects = "drain")
      BY <3>1, <3>2, <3>4, <3>7, <3>8 DEF NobodyMissesTheDrain
    <3>9. QED
      BY <2>1, <3>5, <3>6, <3>8 DEF NobodyMissesTheDrain
  <2>4. QED
    BY <2>2, <2>3
<1>8. QED
  BY <1>1, <1>2, <1>3, <1>4, <1>5, <1>6, <1>7 DEF BarrierNext

(* No call is recorded behind the drain that would have answered it: the       *)
(* safety half of EveryWaiterSettles, for any number of calls.               *)
THEOREM DrainReachesEveryone == BarrierSpec => []NobodyMissesTheDrain
<1>1. BarrierInit => BarrierInv /\ ReportedIsShown /\ NobodyMissesTheDrain
  BY DEF BarrierInit, BarrierInv, ReportedIsShown, NobodyMissesTheDrain
<1>2. BarrierTypeOK /\ BarrierInv /\ ReportedIsShown /\ NobodyMissesTheDrain /\ [BarrierNext]_barrierVars
        => (BarrierInv /\ ReportedIsShown /\ NobodyMissesTheDrain)'
  BY BarrierStep, WaitersStep
<1>3. QED
  BY <1>1, <1>2, BarrierTyped, PTL DEF BarrierSpec

-----------------------------------------------------------------------------
(***************************************************************************)
(* ComposableBoard: what an agent is told of the board is true.             *)
(***************************************************************************)
BoardSources == UNION {Catalog[kind] : kind \in DOMAIN Catalog}
BoardSettings == UNION {[Fields[kind] -> Contents \cup {Blank}] : kind \in DOMAIN Catalog}
BoardPanel ==
  [id : Nat, kind : DOMAIN Catalog, source : BoardSources, settings : BoardSettings]

(* A list of panels: every id was minted, and none of them twice. *)
AllMinted(list) ==
  /\ list \in Seq(BoardPanel)
  /\ \A i \in 1..Len(list) : list[i].id < nextId
  /\ \A i, j \in 1..Len(list) : list[i].id = list[j].id => i = j

Shaped(r) ==
  r = [pc |-> r.pc, panel |-> r.panel, made |-> r.made, tells |-> r.tells,
       report |-> r.report, wasShown |-> r.wasShown]

AsTold(p, made) == p.id = made.id => p.kind = made.kind /\ p.source = made.source

(* What the store, the page and the calls have in common: a call's panels     *)
(* were minted too, so that no later one has an id of theirs.               *)
BoardInv ==
  /\ nextId \in Nat
  /\ AllMinted(panels) /\ boardSnapshot = panels
  /\ rendered \in Seq(BoardPanel)
  /\ ask = [c \in BoardCalls |-> ask[c]]
  /\ \A c \in BoardCalls :
       /\ Shaped(ask[c])
       /\ \A made \in ask[c].made :
            made.id \in 0..(nextId - 1) /\ \A i \in 1..Len(panels) : AsTold(panels[i], made)

(* Two sequences, end to end. *)
LEMMA EndToEnd ==
  ASSUME NEW S, NEW s \in Seq(S), NEW t \in Seq(S)
  PROVE  /\ s \o t \in Seq(S)
         /\ Len(s) \in Nat /\ Len(t) \in Nat /\ Len(s \o t) = Len(s) + Len(t)
         /\ \A i \in 1..(Len(s) + Len(t)) :
              (s \o t)[i] = IF i <= Len(s) THEN s[i] ELSE t[i - Len(s)]
OBVIOUS

(* New panels are put between the panels before a place and those after it.   *)
LEMMA PlacedWell ==
  ASSUME NEW S, NEW list \in Seq(S), NEW new \in Seq(S), NEW place \in 0..Len(list)
  PROVE  /\ Placed(list, new, place) \in Seq(S)
         /\ Len(Placed(list, new, place)) = Len(list) + Len(new)
         /\ \A i \in 1..Len(Placed(list, new, place)) :
              Placed(list, new, place)[i] =
                IF i <= place THEN list[i]
                ELSE IF i <= place + Len(new) THEN new[i - place] ELSE list[i - Len(new)]
<1> DEFINE before == SubSeq(list, 1, place)
           after == SubSeq(list, place + 1, Len(list))
           front == before \o new
<1>1. before \in Seq(S) /\ Len(before) = place /\ \A i \in 1..place : before[i] = list[i]
  OBVIOUS
<1>2. /\ after \in Seq(S) /\ Len(after) = Len(list) - place
      /\ \A i \in 1..(Len(list) - place) : after[i] = list[i + place]
  OBVIOUS
<1> HIDE DEF before, after
<1>3. /\ front \in Seq(S) /\ Len(front) = place + Len(new)
      /\ Len(new) \in Nat /\ Len(list) \in Nat
      /\ \A i \in 1..(place + Len(new)) :
           front[i] = IF i <= place THEN list[i] ELSE new[i - place]
  <2>1. /\ front \in Seq(S)
        /\ Len(before) \in Nat /\ Len(new) \in Nat /\ Len(front) = Len(before) + Len(new)
        /\ \A i \in 1..(Len(before) + Len(new)) :
             front[i] = IF i <= Len(before) THEN before[i] ELSE new[i - Len(before)]
    <3> HIDE DEF before
    <3>1. QED
      BY <1>1, EndToEnd
  <2> HIDE DEF front
  <2>2. \A i \in 1..(place + Len(new)) : i <= place => i \in 1..place
    BY <2>1
  <2>3. QED
    BY <1>1, <2>1, <2>2
<1>4. Placed(list, new, place) = front \o after
  BY DEF Placed, before, after
<1> HIDE DEF front
<1>5. /\ front \o after \in Seq(S)
      /\ Len(front \o after) = Len(list) + Len(new)
      /\ \A i \in 1..(Len(list) + Len(new)) :
           (front \o after)[i] = IF i <= place + Len(new) THEN front[i]
                                 ELSE after[i - (place + Len(new))]
  <2>1. /\ front \o after \in Seq(S)
        /\ Len(front \o after) = Len(front) + Len(after)
        /\ \A i \in 1..(Len(front) + Len(after)) :
             (front \o after)[i] = IF i <= Len(front) THEN front[i] ELSE after[i - Len(front)]
    BY <1>2, <1>3, EndToEnd
  <2>2. Len(front) + Len(after) = Len(list) + Len(new) /\ Len(front) = place + Len(new)
    BY <1>2, <1>3
  <2>3. QED
    BY <2>1, <2>2
<1>6. ASSUME NEW i \in 1..(Len(list) + Len(new))
      PROVE  (front \o after)[i] =
               IF i <= place THEN list[i]
               ELSE IF i <= place + Len(new) THEN new[i - place] ELSE list[i - Len(new)]
  <2>1. CASE i <= place + Len(new)
    BY <1>3, <1>5, <2>1
  <2>2. CASE i > place + Len(new)
    <3>1. (front \o after)[i] = after[i - (place + Len(new))]
      BY <1>3, <1>5, <2>2
    <3>2. i - (place + Len(new)) \in 1..(Len(list) - place)
      BY <1>3, <2>2
    <3>3. after[i - (place + Len(new))] = list[i - (place + Len(new)) + place]
      BY <1>2, <3>2
    <3>4. QED
      BY <1>3, <2>2, <3>1, <3>3
  <2>3. QED
    <3>1. i <= place + Len(new) \/ i > place + Len(new)
      BY <1>3
    <3>2. QED
      BY <2>1, <2>2, <3>1, Zenon
<1>7. QED
  BY <1>4, <1>5, <1>6

(* The one panel of an id is dropped, and those after it close up.            *)
LEMMA DroppedWell ==
  ASSUME NEW S, NEW list \in Seq(S), NEW id, NEW i \in 1..Len(list), list[i].id = id
  PROVE  /\ PlaceOf(list, id) \in 1..Len(list) /\ list[PlaceOf(list, id)].id = id
         /\ Dropped(list, id) \in Seq(S)
         /\ Len(Dropped(list, id)) = Len(list) - 1
         /\ \A j \in 1..(Len(list) - 1) :
              Dropped(list, id)[j] = IF j < PlaceOf(list, id) THEN list[j] ELSE list[j + 1]
<1> DEFINE k == PlaceOf(list, id)
           before == SubSeq(list, 1, k - 1)
           after == SubSeq(list, k + 1, Len(list))
<1>1. k \in 1..Len(list) /\ list[k].id = id
  BY DEF PlaceOf
<1> HIDE DEF k
<1>2. before \in Seq(S) /\ Len(before) = k - 1 /\ \A j \in 1..(k - 1) : before[j] = list[j]
  BY <1>1
<1>3. /\ after \in Seq(S) /\ Len(after) = Len(list) - k
      /\ \A j \in 1..(Len(list) - k) : after[j] = list[j + k]
  BY <1>1
<1>4. Dropped(list, id) = before \o after
  BY DEF Dropped, RemoveAt, k
<1> HIDE DEF before, after
<1>5. /\ before \o after \in Seq(S)
      /\ Len(before \o after) = Len(list) - 1 /\ Len(list) \in Nat
      /\ \A j \in 1..(Len(list) - 1) :
           (before \o after)[j] = IF j <= k - 1 THEN before[j] ELSE after[j - (k - 1)]
  <2>1. /\ before \o after \in Seq(S) /\ Len(before \o after) = Len(before) + Len(after)
        /\ \A j \in 1..(Len(before) + Len(after)) :
             (before \o after)[j] = IF j <= Len(before) THEN before[j] ELSE after[j - Len(before)]
    BY <1>2, <1>3, EndToEnd
  <2>2. Len(before) = k - 1 /\ Len(list) \in Nat /\ k \in Nat /\ (k - 1) + (Len(list) - k) = Len(list) - 1
    BY <1>1, <1>2
  <2>3. Len(before) + Len(after) = Len(list) - 1
    BY <1>3, <2>2
  <2>4. QED
    BY <2>1, <2>2, <2>3
<1>6. ASSUME NEW j \in 1..(Len(list) - 1)
      PROVE  (before \o after)[j] = IF j < k THEN list[j] ELSE list[j + 1]
  <2>1. CASE j < k
    BY <1>1, <1>2, <1>5, <2>1
  <2>2. CASE j >= k
    <3>1. (before \o after)[j] = after[j - (k - 1)]
      BY <1>1, <1>5, <2>2
    <3>2. j - (k - 1) \in 1..(Len(list) - k)
      BY <1>1, <1>5, <2>2
    <3>3. after[j - (k - 1)] = list[j - (k - 1) + k]
      BY <1>3, <3>2
    <3>4. QED
      BY <1>1, <1>5, <2>2, <3>1, <3>3
  <2>3. QED
    BY <1>1, <1>5, <2>1, <2>2
<1>7. QED
  BY <1>1, <1>4, <1>5, <1>6 DEF k


-----------------------------------------------------------------------------
(* Every panel of the next list is one of this list, its settings apart, or  *)
(* has an id nobody was given yet.                                          *)
GoesOn ==
  \A i \in 1..Len(panels') :
    \/ panels'[i].id >= nextId
    \/ \E j \in 1..Len(panels) :
         /\ panels'[i].id = panels[j].id
         /\ panels'[i].kind = panels[j].kind /\ panels'[i].source = panels[j].source

StoreStep ==
  /\ nextId' \in Nat /\ nextId <= nextId'
  /\ AllMinted(panels)' /\ boardSnapshot' = panels' /\ GoesOn

(* A panel some call was told of, in the list on the page, is in the store.   *)
LEMMA OnPage ==
  ASSUME BoardInv, Quiet, NEW p \in ToSet(rendered)
  PROVE  p \in BoardPanel /\ p.id \in On(panels)
<1>1. panels = rendered /\ DOMAIN rendered = 1..Len(rendered)
  BY DEF BoardInv, Quiet
<1>2. PICK i \in 1..Len(rendered) : p = rendered[i]
  BY <1>1 DEF ToSet
<1>3. IdsOf(panels)[i] = p.id /\ i \in DOMAIN IdsOf(panels)
  BY <1>1, <1>2 DEF IdsOf
<1>4. p \in BoardPanel
  BY <1>2 DEF BoardInv
<1>5. QED
  BY <1>3, <1>4 DEF On, ToSet

LEMMA PlacesOn ==
  ASSUME BoardInv, NEW id \in On(panels)
  PROVE  \E i \in 1..Len(panels) : panels[i].id = id
<1>1. DOMAIN panels = 1..Len(panels)
  BY DEF BoardInv, AllMinted
<1>2. QED
  BY <1>1 DEF On, IdsOf, ToSet

LEMMA RemovedWell ==
  ASSUME BoardInv, NEW id \in On(panels), RemovePanel(id)
  PROVE  StoreStep
<1> DEFINE k == PlaceOf(panels, id)
           rest == Dropped(panels, id)
<1>1. PICK i \in 1..Len(panels) : panels[i].id = id
  BY PlacesOn
<1>2. panels \in Seq(BoardPanel) /\ Len(panels) \in Nat
  BY DEF BoardInv, AllMinted
<1>3. /\ k \in 1..Len(panels)
      /\ rest \in Seq(BoardPanel)
      /\ Len(rest) = Len(panels) - 1
      /\ \A j \in 1..(Len(panels) - 1) : rest[j] = IF j < k THEN panels[j] ELSE panels[j + 1]
  <2> HIDE DEF k, rest
  <2>1. k = PlaceOf(panels, id) /\ rest = Dropped(panels, id)
    BY DEF k, rest
  <2>2. QED
    BY <1>1, <1>2, <2>1, DroppedWell
<1>4. /\ panels' = rest /\ boardSnapshot' = rest /\ nextId' = nextId
  BY DEF RemovePanel, Publishes, Published
<1> HIDE DEF k, rest
<1>5. ASSUME NEW j \in 1..Len(rest)
      PROVE  \E l \in 1..Len(panels) : rest[j] = panels[l] /\ l = (IF j < k THEN j ELSE j + 1)
  BY <1>2, <1>3
<1>6. AllMinted(panels)'
  <2>1. \A j \in 1..Len(rest) : rest[j].id < nextId
    BY <1>5 DEF BoardInv, AllMinted
  <2>2. ASSUME NEW j \in 1..Len(rest), NEW l \in 1..Len(rest), rest[j].id = rest[l].id
        PROVE  j = l
    <3>1. PICK m \in 1..Len(panels) : rest[j] = panels[m] /\ m = (IF j < k THEN j ELSE j + 1)
      BY <1>5
    <3>2. PICK n \in 1..Len(panels) : rest[l] = panels[n] /\ n = (IF l < k THEN l ELSE l + 1)
      BY <1>5
    <3>3. m = n
      BY <2>2, <3>1, <3>2 DEF BoardInv, AllMinted
    <3>4. QED
      BY <1>2, <1>3, <3>1, <3>2, <3>3
  <2>3. QED
    BY <1>3, <1>4, <2>1, <2>2 DEF AllMinted
<1>7. GoesOn
  BY <1>4, <1>5 DEF GoesOn
<1>8. QED
  BY <1>4, <1>6, <1>7 DEF StoreStep, BoardInv

LEMMA ReorderedWell ==
  ASSUME BoardInv, NEW id \in On(panels), NEW position \in Nat, ReorderPanel(id, position)
  PROVE  StoreStep
<1> DEFINE k == PlaceOf(panels, id)
           rest == Dropped(panels, id)
           place == Clamped(position, Len(rest))
           moved == <<panels[k]>>
           list == Placed(rest, moved, place)
<1>1. PICK i \in 1..Len(panels) : panels[i].id = id
  BY PlacesOn
<1>2. panels \in Seq(BoardPanel) /\ Len(panels) \in Nat
  BY DEF BoardInv, AllMinted
<1>3. /\ k \in 1..Len(panels)
      /\ rest \in Seq(BoardPanel)
      /\ Len(rest) = Len(panels) - 1
      /\ \A j \in 1..(Len(panels) - 1) : rest[j] = IF j < k THEN panels[j] ELSE panels[j + 1]
  BY <1>1, <1>2, DroppedWell
<1>4. /\ panels' = list /\ boardSnapshot' = list /\ nextId' = nextId
  BY DEF ReorderPanel, Publishes, Published, PanelOf
<1> HIDE DEF k, rest
<1>5. place \in 0..Len(rest)
  BY <1>2, <1>3 DEF Clamped
<1> HIDE DEF place
<1>6. moved \in Seq(BoardPanel) /\ Len(moved) = 1 /\ moved[1] = panels[k]
  BY <1>2, <1>3
<1> HIDE DEF moved
<1>7. /\ list \in Seq(BoardPanel)
      /\ Len(list) = Len(rest) + Len(moved)
      /\ \A j \in 1..Len(list) :
           list[j] = IF j <= place THEN rest[j]
                     ELSE IF j <= place + Len(moved) THEN moved[j - place]
                     ELSE rest[j - Len(moved)]
  BY <1>3, <1>5, <1>6, PlacedWell
<1> HIDE DEF list
<1> DEFINE At(j) == IF j <= place THEN (IF j < k THEN j ELSE j + 1)
                    ELSE IF j = place + 1 THEN k
                    ELSE IF j - 1 < k THEN j - 1 ELSE j
<1>8. ASSUME NEW j \in 1..Len(list)
      PROVE  At(j) \in 1..Len(panels) /\ list[j] = panels[At(j)]
  <2>1. Len(list) = Len(panels) /\ j \in 1..Len(panels) /\ place \in 0..(Len(panels) - 1)
    BY <1>2, <1>3, <1>5, <1>6, <1>7
  <2>2. CASE j <= place
    BY <1>2, <1>3, <1>7, <2>1, <2>2
  <2>3. CASE j = place + 1
    <3>1. list[j] = moved[1]
      BY <1>2, <1>6, <1>7, <2>1, <2>3
    <3>2. QED
      BY <1>3, <1>6, <2>1, <2>3, <3>1
  <2>4. CASE j > place + 1
    <3>1. list[j] = rest[j - 1] /\ j - 1 \in 1..(Len(panels) - 1)
      BY <1>2, <1>6, <1>7, <2>1, <2>4
    <3>2. QED
      BY <1>2, <1>3, <2>1, <2>4, <3>1
  <2>5. j <= place \/ j = place + 1 \/ j > place + 1
    BY <2>1
  <2>6. QED
    BY <2>2, <2>3, <2>4, <2>5, Zenon
<1>9. Len(list) = Len(panels)
  BY <1>2, <1>3, <1>6, <1>7
<1>10. AllMinted(panels)'
  <2>1. \A j \in 1..Len(list) : list[j].id < nextId
    BY <1>8 DEF BoardInv, AllMinted
  <2>2. ASSUME NEW j \in 1..Len(list), NEW l \in 1..Len(list), list[j].id = list[l].id
        PROVE  j = l
    <3>1. At(j) = At(l)
      <4> HIDE DEF At
      <4>1. PICK m \in 1..Len(panels) : m = At(j) /\ list[j] = panels[m]
        BY <1>8
      <4>2. PICK n \in 1..Len(panels) : n = At(l) /\ list[l] = panels[n]
        BY <1>8
      <4>3. QED
        BY <2>2, <4>1, <4>2 DEF BoardInv, AllMinted
    <3>2. QED
      BY <1>2, <1>3, <1>5, <1>9, <3>1
  <2>3. QED
    BY <1>4, <1>7, <2>1, <2>2 DEF AllMinted
<1>11. GoesOn
  <2> HIDE DEF At
  <2>1. QED
    BY <1>4, <1>8 DEF GoesOn
<1>12. QED
  BY <1>4, <1>10, <1>11 DEF StoreStep, BoardInv

LEMMA SetWell ==
  ASSUME BoardInv, NEW id, NEW settings \in BoardSettings, Publishes(WithSettings(id, settings)),
         UNCHANGED nextId
  PROVE  StoreStep
<1> DEFINE list == WithSettings(id, settings)
<1>1. panels \in Seq(BoardPanel) /\ Len(panels) \in Nat /\ DOMAIN panels = 1..Len(panels)
  BY DEF BoardInv, AllMinted
<1>2. ASSUME NEW i \in 1..Len(panels)
      PROVE  /\ list[i] \in BoardPanel /\ list[i].id = panels[i].id
             /\ list[i].kind = panels[i].kind /\ list[i].source = panels[i].source
  <2>1. panels[i] \in BoardPanel
    BY <1>1
  <2>2. list[i] = IF panels[i].id = id THEN [panels[i] EXCEPT !.settings = settings]
                  ELSE panels[i]
    BY <1>1 DEF WithSettings
  <2>3. QED
    BY <2>1, <2>2 DEF BoardPanel
<1>3. list \in Seq(BoardPanel) /\ Len(list) = Len(panels)
  <2>1. list = [i \in 1..Len(panels) |-> list[i]]
    BY <1>1 DEF WithSettings
  <2> HIDE DEF list
  <2>2. QED
    BY <1>1, <1>2, <2>1
<1>4. panels' = list /\ boardSnapshot' = list /\ nextId' = nextId
  BY DEF Publishes, Published
<1> HIDE DEF list
<1>5. AllMinted(panels)'
  BY <1>2, <1>3, <1>4 DEF BoardInv, AllMinted
<1>6. GoesOn
  BY <1>2, <1>3, <1>4 DEF GoesOn
<1>7. QED
  BY <1>4, <1>5, <1>6 DEF StoreStep, BoardInv


(* A batch: every new panel has an id of its own that was nobody's before.    *)
LEMMA AddedWell ==
  ASSUME BoardInv, NEW requests, requests \in Seq(ToSet(requests)),
         \A r \in ToSet(requests) : r.kind \in DOMAIN Catalog /\ r.source \in Catalog[r.kind],
         NEW position \in Nat, AddPanels(requests, position)
  PROVE  /\ StoreStep
         /\ \A made \in ToSet(NewPanels(requests)) :
              /\ made.id \in 0..(nextId' - 1)
              /\ \A i \in 1..Len(panels') : AsTold(panels'[i], made)
<1> DEFINE new == NewPanels(requests)
           place == Clamped(position, Len(panels))
           list == Placed(panels, new, place)
           n == Len(requests)
<1>1. panels \in Seq(BoardPanel) /\ Len(panels) \in Nat /\ nextId \in Nat
  BY DEF BoardInv, AllMinted
<1>2. n \in Nat /\ DOMAIN requests = 1..n
  OBVIOUS
<1>3. ASSUME NEW i \in 1..n PROVE new[i] \in BoardPanel /\ new[i].id = nextId + i - 1
  <2>1. requests[i] \in ToSet(requests)
    BY <1>2 DEF ToSet
  <2>2. new[i] = [id |-> nextId + i - 1, kind |-> requests[i].kind,
                  source |-> requests[i].source, settings |-> Defaults(requests[i].kind)]
    BY <1>2 DEF NewPanels, MintedId
  <2>3. requests[i].kind \in DOMAIN Catalog /\ requests[i].source \in Catalog[requests[i].kind]
    BY <2>1
  <2>4. requests[i].source \in BoardSources
    BY <2>3 DEF BoardSources
  <2>5. Defaults(requests[i].kind) \in BoardSettings
    BY <2>3 DEF Defaults, BoardSettings
  <2>6. nextId + i - 1 \in Nat
    BY <1>1, <1>2
  <2>7. QED
    BY <2>2, <2>3, <2>4, <2>5, <2>6 DEF BoardPanel
<1>4. new \in Seq(BoardPanel) /\ Len(new) = n
  <2>1. new = [i \in 1..n |-> new[i]]
    BY <1>2 DEF NewPanels
  <2> HIDE DEF new
  <2>2. QED
    BY <1>2, <1>3, <2>1
<1>5. panels' = list /\ boardSnapshot' = list /\ nextId' = nextId + n
  BY DEF AddPanels, Publishes, Published
<1>6. place \in 0..Len(panels)
  BY <1>1 DEF Clamped
<1>7. \A made \in ToSet(new) : \E k \in 1..n : made = new[k]
  <2>1. DOMAIN new = 1..n
    BY <1>2 DEF NewPanels
  <2>2. QED
    BY <2>1 DEF ToSet
<1> HIDE DEF new, place, n
<1>8. /\ list \in Seq(BoardPanel)
      /\ Len(list) = Len(panels) + Len(new)
      /\ \A i \in 1..Len(list) :
           list[i] = IF i <= place THEN panels[i]
                     ELSE IF i <= place + Len(new) THEN new[i - place] ELSE panels[i - Len(new)]
  BY <1>1, <1>4, <1>6, PlacedWell
<1> HIDE DEF list
<1> DEFINE Old(i) == i <= place \/ i > place + n
           From(i) == IF i <= place THEN i ELSE i - n
<1>9. ASSUME NEW i \in 1..Len(list)
      PROVE  IF Old(i) THEN From(i) \in 1..Len(panels) /\ list[i] = panels[From(i)]
             ELSE i - place \in 1..n /\ list[i] = new[i - place]
  <2>1. Len(list) = Len(panels) + n /\ i \in 1..(Len(panels) + n)
    BY <1>4, <1>8
  <2>2. CASE i <= place
    BY <1>1, <1>2, <1>6, <1>8, <2>1, <2>2
  <2>3. CASE i > place /\ i <= place + n
    BY <1>1, <1>2, <1>4, <1>6, <1>8, <2>1, <2>3
  <2>4. CASE i > place + n
    BY <1>1, <1>2, <1>4, <1>6, <1>8, <2>1, <2>4
  <2>5. i <= place \/ (i > place /\ i <= place + n) \/ i > place + n
    BY <1>2, <1>6, <2>1
  <2>6. QED
    BY <2>2, <2>3, <2>4, <2>5, Zenon
<1>10. ASSUME NEW i \in 1..Len(list)
       PROVE  \/ /\ Old(i)
                 /\ \E l \in 1..Len(panels) : l = From(i) /\ list[i] = panels[l]
                 /\ list[i].id < nextId
              \/ ~Old(i) /\ list[i].id = nextId + (i - place) - 1 /\ i - place \in 1..n
  <2>1. CASE Old(i)
    <3> HIDE DEF Old, From
    <3>1. PICK l \in 1..Len(panels) : l = From(i) /\ list[i] = panels[l]
      BY <1>9, <2>1
    <3>2. QED
      BY <2>1, <3>1 DEF BoardInv, AllMinted
  <2>2. CASE ~Old(i)
    <3> HIDE DEF Old, From
    <3>1. PICK l \in 1..n : l = i - place /\ list[i] = new[l]
      BY <1>9, <2>2
    <3>2. QED
      BY <1>3, <2>2, <3>1
  <2>3. QED
    BY <2>1, <2>2, Zenon
<1>11. \A i, j \in 1..Len(list) : list[i].id = list[j].id => i = j
  <2> SUFFICES ASSUME NEW i \in 1..Len(list), NEW j \in 1..Len(list), list[i].id = list[j].id
               PROVE  i = j
    OBVIOUS
  <2>1. Len(list) \in Nat
    BY <1>8
  <2>2. CASE Old(i) /\ Old(j)
    <3>1. PICK l \in 1..Len(panels) : l = From(i) /\ list[i] = panels[l]
      BY <1>10, <2>2
    <3>2. PICK m \in 1..Len(panels) : m = From(j) /\ list[j] = panels[m]
      BY <1>10, <2>2
    <3>3. l = m
      <4> HIDE DEF From
      <4>1. QED
        BY <3>1, <3>2 DEF BoardInv, AllMinted
    <3>4. QED
      BY <1>1, <1>2, <1>6, <2>1, <2>2, <3>1, <3>2, <3>3
  <2>3. CASE ~Old(i) /\ ~Old(j)
    <3>1. list[i].id = nextId + (i - place) - 1 /\ list[j].id = nextId + (j - place) - 1
      <4> HIDE DEF Old, From
      <4>1. QED
        BY <1>10, <2>3
    <3>2. nextId + (i - place) - 1 = nextId + (j - place) - 1
      BY <3>1
    <3>3. i \in Int /\ j \in Int /\ place \in Int /\ nextId \in Int
      BY <1>1, <1>6, <2>1
    <3>4. QED
      BY <3>2, <3>3
  <2>4. CASE ~(Old(i) <=> Old(j))
    <3> HIDE DEF Old, From
    <3>1. \/ list[i].id < nextId /\ list[j].id = nextId + (j - place) - 1 /\ j - place \in 1..n
          \/ list[j].id < nextId /\ list[i].id = nextId + (i - place) - 1 /\ i - place \in 1..n
      BY <1>10, <2>4
    <3>2. QED
      BY <1>1, <1>2, <3>1
  <2>5. QED
    BY <2>2, <2>3, <2>4, Zenon
<1>12. \A i \in 1..Len(list) : list[i].id < nextId + n
  <2> SUFFICES ASSUME NEW i \in 1..Len(list) PROVE list[i].id < nextId + n
    OBVIOUS
  <2>1. list[i].id \in Nat
    <3>1. list \in Seq(BoardPanel)
      BY <1>8
    <3>2. list[i] \in BoardPanel
      BY <3>1
    <3>3. QED
      BY <3>2 DEF BoardPanel
  <2> HIDE DEF Old, From
  <2>2. QED
    BY <1>1, <1>2, <1>10, <2>1
<1>13. GoesOn
  <2> SUFFICES ASSUME NEW i \in 1..Len(list)
               PROVE  \/ list[i].id >= nextId
                      \/ \E j \in 1..Len(panels) : list[i] = panels[j]
    BY <1>5 DEF GoesOn
  <2> HIDE DEF Old, From
  <2>1. QED
    BY <1>1, <1>2, <1>10
<1>14. StoreStep
  BY <1>1, <1>2, <1>5, <1>8, <1>11, <1>12, <1>13 DEF StoreStep, AllMinted
<1>15. ASSUME NEW k \in 1..n
       PROVE  /\ new[k].id \in 0..(nextId' - 1)
              /\ \A i \in 1..Len(list) : list[i].id = new[k].id => list[i] = new[k]
  <2>1. new[k].id = nextId + k - 1
    BY <1>3
  <2>2. place + k \in 1..Len(list) /\ list[place + k] = new[k]
    <3>1. place + k \in 1..Len(list) /\ ~Old(place + k) /\ (place + k) - place = k
      BY <1>1, <1>2, <1>4, <1>6, <1>8
    <3> HIDE DEF Old, From
    <3>2. QED
      BY <1>9, <3>1
  <2>3. nextId' = nextId + n /\ nextId \in Nat /\ n \in Nat
    BY <1>1, <1>2, <1>5
  <2>4. new[k].id \in 0..(nextId' - 1)
    BY <2>1, <2>3
  <2>5. ASSUME NEW i \in 1..Len(list), list[i].id = new[k].id PROVE list[i] = new[k]
    <3>1. i = place + k
      BY <1>11, <2>2, <2>5
    <3>2. QED
      BY <2>2, <3>1
  <2>6. QED
    BY <2>4, <2>5
<1>16. QED
  BY <1>5, <1>7, <1>14, <1>15 DEF new, AsTold


(* What an answer kept over the wait says, the page has shown since the call, *)
(* or is about to.                                                          *)
KeptWell(a) ==
  a.pc \in {"waiting", "shown"} /\ a.tells \in {"order", "panel"} =>
    \/ a.wasShown = TRUE
    \/ boardSnapshot # rendered /\ Agrees(a.tells, a.report, boardSnapshot)

KeptInv == \A c \in BoardCalls : KeptWell(ask[c])

(* What the property asks of a call's step, apart from the names it was told. *)
Truly(old, new) ==
  CASE new.pc = "answered" /\ old.tells = "board" -> new.report = IdsOf(rendered)
    [] new.pc = "answered" /\ old.tells \in {"order", "panel"} ->
         new.report = old.report /\ old.wasShown
    [] new.pc = "read" -> new.report = DisclosedAll(rendered)
    [] new.pc = "refused" -> UNCHANGED boardStore
    [] OTHER -> TRUE

AnswersTruly == \A c \in BoardCalls : ask'[c].pc # ask[c].pc => Truly(ask[c], ask'[c])

LEMMA NamesStayTrue == BoardInv => AddressedAsTold
<1> SUFFICES ASSUME BoardInv PROVE AddressedAsTold
  OBVIOUS
<1>1. DOMAIN panels = 1..Len(panels) /\ DOMAIN IdsOf(panels) = 1..Len(panels)
      /\ \A i \in 1..Len(panels) : IdsOf(panels)[i] = panels[i].id
  BY DEF BoardInv, AllMinted, IdsOf
<1>2. IsInjective(IdsOf(panels))
  BY <1>1 DEF BoardInv, AllMinted, IsInjective
<1>3. \A p \in ToSet(panels) : \E i \in 1..Len(panels) : p = panels[i]
  BY <1>1 DEF ToSet
<1>4. QED
  BY <1>2, <1>3 DEF BoardInv, AsTold, AddressedAsTold

(* A step that lists on, and tells a call of panels that are as it says.       *)
LEMMA ToldOn ==
  ASSUME BoardInv, StoreStep, rendered' \in Seq(BoardPanel),
         ask' = [c \in BoardCalls |-> ask'[c]],
         \A c \in BoardCalls :
           /\ Shaped(ask'[c])
           /\ \A made \in ask'[c].made :
                \/ made \in ask[c].made
                \/ made.id \in 0..(nextId' - 1) /\ \A i \in 1..Len(panels') : AsTold(panels'[i], made)
  PROVE  BoardInv'
<1>1. ASSUME NEW c \in BoardCalls, NEW made \in ask[c].made
      PROVE  made.id \in 0..(nextId' - 1) /\ \A i \in 1..Len(panels') : AsTold(panels'[i], made)
  <2>1. made.id \in 0..(nextId - 1) /\ \A i \in 1..Len(panels) : AsTold(panels[i], made)
    BY DEF BoardInv
  <2>2. nextId \in Nat /\ nextId' \in Nat /\ nextId <= nextId'
    BY DEF BoardInv, StoreStep
  <2>3. ASSUME NEW i \in 1..Len(panels') PROVE AsTold(panels'[i], made)
    <3>1. CASE panels'[i].id >= nextId
      <4>1. panels'[i] \in BoardPanel
        BY DEF StoreStep, AllMinted
      <4>2. panels'[i].id \in Nat
        BY <4>1 DEF BoardPanel
      <4>3. panels'[i].id # made.id
        BY <2>1, <2>2, <3>1, <4>2
      <4>4. QED
        BY <4>3 DEF AsTold
    <3>2. CASE \E j \in 1..Len(panels) :
                 /\ panels'[i].id = panels[j].id
                 /\ panels'[i].kind = panels[j].kind /\ panels'[i].source = panels[j].source
      BY <2>1, <3>2 DEF AsTold
    <3>3. \/ panels'[i].id >= nextId
          \/ \E j \in 1..Len(panels) :
               /\ panels'[i].id = panels[j].id
               /\ panels'[i].kind = panels[j].kind /\ panels'[i].source = panels[j].source
      BY DEF StoreStep, GoesOn
    <3>4. QED
      BY <3>1, <3>2, <3>3, Zenon
  <2>4. made.id \in 0..(nextId' - 1)
    BY <2>1, <2>2
  <2>5. QED
    BY <2>3, <2>4
<1>2. ASSUME NEW c \in BoardCalls
      PROVE  /\ Shaped(ask'[c])
             /\ \A made \in ask'[c].made :
                  made.id \in 0..(nextId' - 1) /\ \A i \in 1..Len(panels') : AsTold(panels'[i], made)
  BY <1>1
<1>3. QED
  BY <1>2 DEF BoardInv, StoreStep, AsTold, Shaped

LEMMA StoreStands ==
  ASSUME BoardInv, UNCHANGED boardStore
  PROVE  StoreStep
BY DEF BoardInv, AllMinted, boardStore, StoreStep, GoesOn

(* One call's record is replaced. *)
LEMMA OneCall ==
  ASSUME BoardInv, NEW c \in BoardCalls, NEW r, Shaped(r), ask' = [ask EXCEPT ![c] = r]
  PROVE  /\ ask' = [d \in BoardCalls |-> ask'[d]]
         /\ \A d \in BoardCalls :
              Shaped(ask'[d]) /\ (d = c => ask'[d] = r) /\ (d # c => ask'[d] = ask[d])
<1>1. /\ ask = [d \in BoardCalls |-> ask[d]] /\ \A d \in BoardCalls : Shaped(ask[d])
  BY DEF BoardInv
<1>2. ask' = [d \in BoardCalls |-> IF d = c THEN r ELSE ask[d]]
  BY <1>1
<1>3. QED
  BY <1>1, <1>2

(* A step of one call, which is told of panels that are as it says, keeps an   *)
(* answer that will be shown, and is told nothing but the truth.            *)
LEMMA CallGoesOn ==
  ASSUME BoardInv, KeptInv, Quiet, StoreStep, UNCHANGED rendered,
         NEW c \in BoardCalls, NEW r, Shaped(r), ask' = [ask EXCEPT ![c] = r],
         \A made \in r.made :
           \/ made \in ask[c].made
           \/ made.id \in 0..(nextId' - 1) /\ \A i \in 1..Len(panels') : AsTold(panels'[i], made),
         r.pc \in {"waiting", "shown"} /\ r.tells \in {"order", "panel"} =>
           \/ r.wasShown = TRUE
           \/ boardSnapshot' # rendered /\ Agrees(r.tells, r.report, boardSnapshot'),
         Truly(ask[c], r)
  PROVE  BoardInv' /\ KeptInv' /\ AnswersTruly
<1>1. /\ ask' = [d \in BoardCalls |-> ask'[d]]
      /\ \A d \in BoardCalls :
           Shaped(ask'[d]) /\ (d = c => ask'[d] = r) /\ (d # c => ask'[d] = ask[d])
  BY OneCall
<1>2. ask'[c] = r
  BY <1>1
<1>3. ASSUME NEW d \in BoardCalls
      PROVE  /\ Shaped(ask'[d])
             /\ \A made \in ask'[d].made :
                  \/ made \in ask[d].made
                  \/ /\ made.id \in 0..(nextId' - 1)
                     /\ \A i \in 1..Len(panels') : AsTold(panels'[i], made)
  <2>1. CASE d = c
    BY <1>1, <1>2, <2>1
  <2>2. CASE d # c
    BY <1>1, <2>2
  <2>3. QED
    BY <2>1, <2>2
<1>4. BoardInv'
  <2>1. rendered' \in Seq(BoardPanel)
    BY DEF BoardInv
  <2>2. QED
    BY <1>1, <1>3, <2>1, ToldOn
<1>5. KeptInv'
  <2> SUFFICES ASSUME NEW d \in BoardCalls PROVE KeptWell(ask[d])'
    BY DEF KeptInv
  <2>1. CASE d = c
    BY <1>2, <2>1 DEF KeptWell, Agrees
  <2>2. CASE d # c
    BY <1>1, <2>2 DEF KeptInv, KeptWell, Quiet
  <2>3. QED
    BY <2>1, <2>2
<1>6. AnswersTruly
  <2> SUFFICES ASSUME NEW d \in BoardCalls, ask'[d].pc # ask[d].pc PROVE Truly(ask[d], ask'[d])
    BY DEF AnswersTruly
  <2>1. d = c
    BY <1>1
  <2>2. QED
    BY <1>2, <2>1
<1>7. QED
  BY <1>4, <1>5, <1>6

(* The board is unlike the page, or is the page still, when a call keeps what  *)
(* it will say of it.                                                       *)
LEMMA ChangeKept ==
  ASSUME BoardInv, KeptInv, Quiet, StoreStep, UNCHANGED rendered, NEW c \in BoardCalls,
         NEW id, NEW tells, NEW report, Keeps(c, id, tells, report),
         tells \in {"order", "panel"} => Agrees(tells, report, panels')
  PROVE  BoardInv' /\ KeptInv' /\ AnswersTruly
<1> DEFINE q == ask[c]
           was == boardSnapshot' = rendered /\ Agrees(tells, report, rendered)
           r == [pc |-> "waiting", panel |-> id, made |-> q.made, tells |-> tells,
                 report |-> report, wasShown |-> was]
<1>1. Shaped(ask[c])
  BY DEF BoardInv
<1>2. ask' = [ask EXCEPT ![c] = r]
  <2> DEFINE q1 == [pc |-> "waiting", panel |-> q.panel, made |-> q.made, tells |-> q.tells,
                    report |-> q.report, wasShown |-> q.wasShown]
             q2 == [pc |-> "waiting", panel |-> id, made |-> q.made, tells |-> q.tells,
                    report |-> q.report, wasShown |-> q.wasShown]
             q3 == [pc |-> "waiting", panel |-> id, made |-> q.made, tells |-> tells,
                    report |-> q.report, wasShown |-> q.wasShown]
             q4 == [pc |-> "waiting", panel |-> id, made |-> q.made, tells |-> tells,
                    report |-> report, wasShown |-> q.wasShown]
  <2> HIDE DEF was
  <2>1. [[[[[q EXCEPT !.pc = "waiting"] EXCEPT !.panel = id] EXCEPT !.tells = tells]
            EXCEPT !.report = report] EXCEPT !.wasShown = was] = r
    <3>1. [q EXCEPT !.pc = "waiting"] = q1
      BY <1>1 DEF Shaped
    <3>2. [q1 EXCEPT !.panel = id] = q2 /\ [q2 EXCEPT !.tells = tells] = q3
          /\ [q3 EXCEPT !.report = report] = q4 /\ [q4 EXCEPT !.wasShown = was] = r
      OBVIOUS
    <3>3. QED
      BY <3>1, <3>2, Zenon
  <2>2. ask' = [ask EXCEPT ![c] =
                 [[[[[q EXCEPT !.pc = "waiting"] EXCEPT !.panel = id] EXCEPT !.tells = tells]
                     EXCEPT !.report = report] EXCEPT !.wasShown = was]]
    BY DEF Keeps, was
  <2>3. QED
    BY <2>1, <2>2
<1>3. /\ Shaped(r) /\ r.made = ask[c].made /\ r.pc = "waiting"
      /\ r.tells = tells /\ r.report = report /\ r.wasShown = was
  BY DEF Shaped
<1>4. was <=> boardSnapshot' = rendered /\ Agrees(tells, report, rendered)
  OBVIOUS
<1> HIDE DEF r, was
<1>5. boardSnapshot' = panels'
  BY DEF StoreStep
<1>6. r.tells \in {"order", "panel"} =>
        \/ r.wasShown = TRUE
        \/ boardSnapshot' # rendered /\ Agrees(r.tells, r.report, boardSnapshot')
  BY <1>3, <1>4, <1>5
<1>7. Truly(ask[c], r)
  BY <1>3 DEF Truly
<1>8. QED
  BY <1>2, <1>3, <1>6, <1>7, CallGoesOn

(* A call's change is made, and it waits to be shown: it looks the board up.  *)
LEMMA ChangeWaits ==
  ASSUME BoardInv, KeptInv, Quiet, StoreStep, UNCHANGED rendered, NEW c \in BoardCalls,
         NEW id, NEW made, Waits(c, id, made),
         \A m \in made : m.id \in 0..(nextId' - 1) /\ \A i \in 1..Len(panels') : AsTold(panels'[i], m)
  PROVE  BoardInv' /\ KeptInv' /\ AnswersTruly
<1> DEFINE q == ask[c]
           r == [pc |-> "waiting", panel |-> id, made |-> made, tells |-> "board",
                 report |-> q.report, wasShown |-> q.wasShown]
<1>1. Shaped(ask[c])
  BY DEF BoardInv
<1>2. ask' = [ask EXCEPT ![c] = r]
  <2> DEFINE q1 == [pc |-> "waiting", panel |-> q.panel, made |-> q.made, tells |-> q.tells,
                    report |-> q.report, wasShown |-> q.wasShown]
             q2 == [pc |-> "waiting", panel |-> id, made |-> q.made, tells |-> q.tells,
                    report |-> q.report, wasShown |-> q.wasShown]
             q3 == [pc |-> "waiting", panel |-> id, made |-> made, tells |-> q.tells,
                    report |-> q.report, wasShown |-> q.wasShown]
  <2>1. [[[[q EXCEPT !.pc = "waiting"] EXCEPT !.panel = id] EXCEPT !.made = made]
            EXCEPT !.tells = "board"] = r
    <3>1. [q EXCEPT !.pc = "waiting"] = q1
      BY <1>1 DEF Shaped
    <3>2. [q1 EXCEPT !.panel = id] = q2 /\ [q2 EXCEPT !.made = made] = q3
          /\ [q3 EXCEPT !.tells = "board"] = r
      OBVIOUS
    <3>3. QED
      BY <3>1, <3>2, Zenon
  <2>2. ask' = [ask EXCEPT ![c] =
                 [[[[q EXCEPT !.pc = "waiting"] EXCEPT !.panel = id] EXCEPT !.made = made]
                     EXCEPT !.tells = "board"]]
    BY DEF Waits
  <2>3. QED
    BY <2>1, <2>2
<1>3. Shaped(r) /\ r.made = made /\ r.pc = "waiting" /\ r.tells = "board"
  BY DEF Shaped
<1> HIDE DEF r
<1>4. Truly(ask[c], r)
  BY <1>3 DEF Truly
<1>5. QED
  BY <1>2, <1>3, <1>4, CallGoesOn

(* A call is told something, or refused: it waits no more. *)
LEMMA CallReturns ==
  ASSUME BoardInv, KeptInv, Quiet, UNCHANGED <<boardStore, rendered>>, NEW c \in BoardCalls,
         NEW pc \in {"refused", "read", "answered"}, NEW report,
         \/ ask' = [ask EXCEPT ![c].pc = pc, ![c].report = report]
         \/ report = ask[c].report /\ ask' = [ask EXCEPT ![c].pc = pc],
         pc = "answered" /\ ask[c].tells = "board" => report = IdsOf(rendered),
         pc = "answered" /\ ask[c].tells \in {"order", "panel"} =>
           report = ask[c].report /\ ask[c].wasShown,
         pc = "read" => report = DisclosedAll(rendered)
  PROVE  BoardInv' /\ KeptInv' /\ AnswersTruly
<1> DEFINE q == ask[c]
           r == [pc |-> pc, panel |-> q.panel, made |-> q.made, tells |-> q.tells,
                 report |-> report, wasShown |-> q.wasShown]
<1>1. Shaped(ask[c])
  BY DEF BoardInv
<1>2. ask' = [ask EXCEPT ![c] = r]
  <2> DEFINE q1 == [pc |-> pc, panel |-> q.panel, made |-> q.made, tells |-> q.tells,
                    report |-> q.report, wasShown |-> q.wasShown]
  <2>1. [q EXCEPT !.pc = pc] = q1 /\ [q1 EXCEPT !.report = report] = r
    BY <1>1 DEF Shaped
  <2>2. CASE ask' = [ask EXCEPT ![c].pc = pc, ![c].report = report]
    <3>1. ask' = [ask EXCEPT ![c] = [[q EXCEPT !.pc = pc] EXCEPT !.report = report]]
      BY <2>2
    <3>2. [[q EXCEPT !.pc = pc] EXCEPT !.report = report] = r
      BY <2>1, Zenon
    <3>3. QED
      BY <3>1, <3>2
  <2>3. CASE report = ask[c].report /\ ask' = [ask EXCEPT ![c].pc = pc]
    <3>1. ask' = [ask EXCEPT ![c] = [q EXCEPT !.pc = pc]]
      BY <2>3
    <3>2. [q EXCEPT !.pc = pc] = r
      BY <2>1, <2>3
    <3>3. QED
      BY <3>1, <3>2
  <2>4. QED
    BY <2>2, <2>3
<1>3. Shaped(r) /\ r.made = ask[c].made /\ r.pc = pc /\ r.report = report
  BY DEF Shaped
<1> HIDE DEF r
<1>4. Truly(ask[c], r)
  BY <1>3 DEF Truly
<1>5. StoreStep
  BY StoreStands
<1>6. QED
  BY <1>2, <1>3, <1>4, <1>5, CallGoesOn

(* The step changes no more than the store, and no call is told anything.     *)
LEMMA StoreAlone ==
  ASSUME BoardInv, KeptInv, Quiet, StoreStep, UNCHANGED <<rendered, ask>>
  PROVE  BoardInv' /\ KeptInv' /\ AnswersTruly
<1>1. BoardInv'
  BY ToldOn DEF BoardInv
<1>2. KeptInv'
  BY DEF KeptInv, KeptWell, Quiet
<1>3. QED
  BY <1>1, <1>2 DEF AnswersTruly

LEMMA CallRefused ==
  ASSUME BoardInv, KeptInv, Quiet, NEW c \in BoardCalls, Refused(c), UNCHANGED rendered
  PROVE  BoardInv' /\ KeptInv' /\ AnswersTruly
BY CallReturns DEF Refused


LEMMA SettingsTyped ==
  ASSUME NEW p \in BoardPanel, NEW f, NEW v \in Contents
  PROVE  [p.settings EXCEPT ![f] = v] \in BoardSettings
<1>1. PICK kind \in DOMAIN Catalog : p.settings \in [Fields[kind] -> Contents \cup {Blank}]
  BY DEF BoardPanel, BoardSettings
<1>2. [p.settings EXCEPT ![f] = v] \in [Fields[kind] -> Contents \cup {Blank}]
  BY <1>1
<1>3. QED
  BY <1>2 DEF BoardSettings

(* The form's change: the account, and the form emptied. *)
LEMMA SubmittedWell ==
  ASSUME BoardInv, NEW p, SubmitForm(p)
  PROVE  StoreStep
<1>1. "form" \in DOMAIN Catalog
  BY BoardAssumption
<1>2. Defaults("form") \in BoardSettings
  BY <1>1 DEF Defaults, BoardSettings
<1>3. Publishes(WithSettings(p.id, Defaults("form"))) /\ UNCHANGED nextId
  BY DEF SubmitForm
<1>4. QED
  BY <1>2, <1>3, SetWell

LEMMA PersonStep ==
  ASSUME BoardInv, KeptInv, BoardPerson
  PROVE  BoardInv' /\ KeptInv' /\ AnswersTruly
<1>1. Quiet /\ UNCHANGED <<rendered, ask>> /\ panels = rendered
  BY DEF BoardPerson, BoardInv, Quiet
<1>2. SUFFICES StoreStep
  BY <1>1, StoreAlone
<1>3. ASSUME NEW kind \in DOMAIN Catalog, NEW source \in Catalog[kind],
             PersonAdds([kind |-> kind, source |-> source])
      PROVE  StoreStep
  <2> DEFINE r == [kind |-> kind, source |-> source]
  <2>1. r.kind = kind /\ r.source = source
    OBVIOUS
  <2>2. AddPanels(<<r>>, Len(panels))
    BY <1>3 DEF PersonAdds
  <2> HIDE DEF r
  <2>3. ToSet(<<r>>) = {r}
    BY DEF ToSet
  <2>4. <<r>> \in Seq(ToSet(<<r>>)) /\ Len(panels) \in Nat
    BY <2>3 DEF BoardInv, AllMinted
  <2>5. QED
    BY <2>1, <2>2, <2>3, <2>4, AddedWell
<1>4. ASSUME NEW p \in ToSet(rendered), PersonRemoves(p) PROVE StoreStep
  BY <1>1, <1>4, OnPage, RemovedWell DEF PersonRemoves
<1>5. ASSUME NEW i \in DOMAIN rendered, NEW place \in DOMAIN rendered, PersonMoves(i, place)
      PROVE  StoreStep
  <2>1. rendered[i] \in ToSet(rendered)
    BY DEF ToSet
  <2>2. rendered[i].id \in On(panels)
    BY <1>1, <2>1, OnPage
  <2>3. place - 1 \in Nat
    BY DEF BoardInv
  <2>4. QED
    BY <1>5, <2>2, <2>3, ReorderedWell DEF PersonMoves
<1>6. ASSUME NEW p \in Forms, PersonSubmits(p) PROVE StoreStep
  BY <1>6, SubmittedWell DEF PersonSubmits
<1>7. ASSUME NEW p \in Forms, NEW f, NEW v \in Contents, PersonTypes(p, f, v) PROVE StoreStep
  <2>1. p \in BoardPanel
    BY <1>1, OnPage DEF Forms
  <2>2. [p.settings EXCEPT ![f] = v] \in BoardSettings
    BY <2>1, SettingsTyped
  <2>3. Publishes(WithSettings(p.id, [p.settings EXCEPT ![f] = v])) /\ UNCHANGED nextId
    BY <1>7 DEF PersonTypes, UpdateSettings
  <2>4. QED
    BY <2>2, <2>3, SetWell
<1>8. QED
  BY <1>3, <1>4, <1>5, <1>6, <1>7 DEF BoardPerson

(* A panel that is given settings is on the list still.                      *)
LEMMA KeptOn ==
  ASSUME BoardInv, NEW id \in On(panels), NEW settings, Publishes(WithSettings(id, settings))
  PROVE  PanelOf(panels', id) \in ToSet(panels')
<1>1. DOMAIN panels = 1..Len(panels) /\ panels \in Seq(BoardPanel)
  BY DEF BoardInv, AllMinted
<1>2. PICK i \in 1..Len(panels) : panels[i].id = id
  BY PlacesOn
<1>3. panels' = [j \in DOMAIN panels |->
                   IF panels[j].id = id THEN [panels[j] EXCEPT !.settings = settings] ELSE panels[j]]
  BY DEF Publishes, WithSettings
<1>4. i \in DOMAIN panels' /\ panels'[i].id = id
  <2>1. panels'[i] = [panels[i] EXCEPT !.settings = settings]
    BY <1>1, <1>2, <1>3
  <2>2. panels[i] \in BoardPanel
    BY <1>1
  <2>3. QED
    BY <1>1, <1>2, <1>3, <2>1, <2>2 DEF BoardPanel
<1>5. PlaceOf(panels', id) \in DOMAIN panels'
  BY <1>4 DEF PlaceOf
<1>6. QED
  BY <1>5 DEF PanelOf, ToSet

LEMMA BoardToolsStep ==
  ASSUME BoardInv, KeptInv, BoardTools
  PROVE  BoardInv' /\ KeptInv' /\ AnswersTruly
<1>1. PICK c \in BoardCalls :
        \/ \E requests \in Batches, place \in 0..MaxPanels : Adds(c, requests, place)
        \/ \E id \in 1..MaxMinted : Removes(c, id)
        \/ \E id \in 1..MaxMinted, place \in 0..MaxPanels : Reorders(c, id, place)
        \/ \E p \in ToSet(rendered) : \E f \in Fields[p.kind], v \in Contents : Configures(c, p, f, v)
        \/ \E p \in Forms : Submits(c, p)
        \/ Reads(c) \/ Reports(c)
  BY DEF BoardTools
<1>q. Quiet
  BY <1>1 DEF Adds, Removes, Reorders, Configures, Submits, Reads, Reports, Arrives
<1>2. ASSUME NEW requests \in Batches, NEW place \in 0..MaxPanels, Adds(c, requests, place)
      PROVE  BoardInv' /\ KeptInv' /\ AnswersTruly
  <2>1. CASE Admissible(requests)
    <3>1. AddPanels(requests, place) /\ Waits(c, 0, ToSet(NewPanels(requests))) /\ UNCHANGED rendered
      BY <1>2, <2>1 DEF Adds
    <3>2. /\ requests \in Seq(ToSet(requests)) /\ place \in Nat
          /\ \A r \in ToSet(requests) : r.kind \in DOMAIN Catalog /\ r.source \in Catalog[r.kind]
      BY <2>1, BoardAssumption DEF Admissible
    <3>3. /\ StoreStep
          /\ \A made \in ToSet(NewPanels(requests)) :
               /\ made.id \in 0..(nextId' - 1)
               /\ \A i \in 1..Len(panels') : AsTold(panels'[i], made)
      BY <3>1, <3>2, AddedWell
    <3>4. QED
      BY <1>q, <3>1, <3>3, ChangeWaits
  <2>2. CASE ~Admissible(requests)
    BY <1>2, <2>2, <1>q, CallRefused DEF Adds
  <2>3. QED
    BY <2>1, <2>2
<1>3. ASSUME NEW id, Removes(c, id) PROVE BoardInv' /\ KeptInv' /\ AnswersTruly
  <2>1. CASE id \in On(panels)
    <3>1. RemovePanel(id) /\ Waits(c, 0, {}) /\ UNCHANGED rendered
      BY <1>3, <2>1 DEF Removes
    <3>2. QED
      BY <1>q, <2>1, <3>1, RemovedWell, ChangeWaits
  <2>2. CASE id \notin On(panels)
    BY <1>3, <2>2, <1>q, CallRefused DEF Removes
  <2>3. QED
    BY <2>1, <2>2
<1>4. ASSUME NEW id, NEW place \in 0..MaxPanels, Reorders(c, id, place)
      PROVE  BoardInv' /\ KeptInv' /\ AnswersTruly
  <2>1. CASE id \in On(panels)
    <3>1. /\ ReorderPanel(id, place) /\ Keeps(c, 0, "order", IdsOf(panels'))
          /\ UNCHANGED rendered /\ place \in Nat
      BY <1>4, <2>1 DEF Reorders
    <3>2. StoreStep
      BY <2>1, <3>1, ReorderedWell
    <3>3. Agrees("order", IdsOf(panels'), panels')
      BY DEF Agrees
    <3>4. QED
      BY <1>q, <3>1, <3>2, <3>3, ChangeKept
  <2>2. CASE id \notin On(panels)
    BY <1>4, <2>2, <1>q, CallRefused DEF Reorders
  <2>3. QED
    BY <2>1, <2>2
<1>5. ASSUME NEW p \in ToSet(rendered), NEW f, NEW v \in Contents, Configures(c, p, f, v)
      PROVE  BoardInv' /\ KeptInv' /\ AnswersTruly
  <2>1. Quiet /\ UNCHANGED rendered
    BY <1>5 DEF Configures, Arrives
  <2>2. p \in BoardPanel /\ p.id \in On(panels)
    BY <2>1, OnPage
  <2>3. /\ Publishes(WithSettings(p.id, [p.settings EXCEPT ![f] = v])) /\ UNCHANGED nextId
        /\ Keeps(c, p.id, "panel", OwnAnswer(PanelOf(panels', p.id)))
    BY <1>5, <2>2 DEF Configures, UpdateSettings
  <2>4. [p.settings EXCEPT ![f] = v] \in BoardSettings
    BY <2>2, SettingsTyped
  <2>5. StoreStep
    BY <2>3, <2>4, SetWell
  <2>6. PanelOf(panels', p.id) \in ToSet(panels')
    BY <2>2, <2>3, KeptOn
  <2>7. Agrees("panel", OwnAnswer(PanelOf(panels', p.id)), panels')
    BY <2>6 DEF Agrees
  <2>8. QED
    BY <2>1, <2>3, <2>5, <2>7, ChangeKept
<1>6. ASSUME NEW p \in Forms, Submits(c, p) PROVE BoardInv' /\ KeptInv' /\ AnswersTruly
  <2>1. Quiet /\ UNCHANGED rendered
    BY <1>6 DEF Submits, Arrives
  <2>2. p.id \in On(panels)
    BY <2>1, OnPage DEF Forms
  <2>3. CASE missingRequired(p.settings) # {}
    BY <1>6, <2>1, <2>3, <1>q, CallRefused DEF Submits
  <2>4. CASE missingRequired(p.settings) = {}
    <3>1. SubmitForm(p) /\ Keeps(c, p.id, "account", Disclosed(p))
      BY <1>6, <2>2, <2>4 DEF Submits
    <3>2. QED
      BY <2>1, <3>1, SubmittedWell, ChangeKept
  <2>5. QED
    BY <2>3, <2>4
<1>7. ASSUME Reads(c) PROVE BoardInv' /\ KeptInv' /\ AnswersTruly
  <2>1. /\ UNCHANGED <<boardStore, rendered>>
        /\ ask' = [ask EXCEPT ![c].pc = "read", ![c].report = DisclosedAll(panels)]
    BY <1>7 DEF Reads
  <2>2. panels = rendered
    BY <1>q DEF BoardInv, Quiet
  <2>3. QED
    BY <1>q, <2>1, <2>2, CallReturns
<1>8. ASSUME Reports(c) PROVE BoardInv' /\ KeptInv' /\ AnswersTruly
  <2> DEFINE report == IF ask[c].tells = "board" THEN IdsOf(panels) ELSE ask[c].report
  <2>1. /\ UNCHANGED <<boardStore, rendered>> /\ ask[c].pc = "shown"
        /\ ask' = [ask EXCEPT ![c].pc = "answered", ![c].report = report]
    BY <1>8 DEF Reports
  <2>2. panels = rendered
    BY <1>q DEF BoardInv, Quiet
  <2>3. ask[c].tells \in {"order", "panel"} => report = ask[c].report /\ ask[c].wasShown
    BY <1>q, <2>1 DEF KeptInv, KeptWell, Quiet
  <2>4. ask[c].tells = "board" => report = IdsOf(rendered)
    BY <2>2
  <2> HIDE DEF report
  <2>5. QED
    BY <1>q, <2>1, <2>3, <2>4, CallReturns
<1>9. QED
  BY <1>1, <1>2, <1>3, <1>4, <1>5, <1>6, <1>7, <1>8 DEF Forms

LEMMA BoardReactStep ==
  ASSUME BoardInv, KeptInv, Renders \/ Settles
  PROVE  BoardInv' /\ KeptInv' /\ AnswersTruly
<1>1. UNCHANGED boardStore /\ rendered' \in Seq(BoardPanel) /\ UNCHANGED boardSnapshot
  BY DEF Renders, Settles, BoardInv, AllMinted, boardStore
<1>2. ASSUME NEW c \in BoardCalls
      PROVE  /\ ask'[c] = [pc |-> ask'[c].pc, panel |-> ask[c].panel, made |-> ask[c].made,
                           tells |-> ask[c].tells, report |-> ask[c].report,
                           wasShown |-> ask'[c].wasShown]
             /\ ask'[c].pc \in {ask[c].pc, "abandoned", "shown"}
             /\ KeptWell(ask[c])'
  <2>1. ask[c] = [pc |-> ask[c].pc, panel |-> ask[c].panel, made |-> ask[c].made,
                  tells |-> ask[c].tells, report |-> ask[c].report, wasShown |-> ask[c].wasShown]
    BY DEF BoardInv, Shaped
  <2>2. KeptWell(ask[c])
    BY DEF KeptInv
  <2>3. CASE Renders
    <3> DEFINE now == ask[c].wasShown \/ Agrees(ask[c].tells, ask[c].report, boardSnapshot)
    <3>1. \/ ask'[c] = [ask[c] EXCEPT !.pc = "abandoned"]
          \/ ask'[c] = [ask[c] EXCEPT !.wasShown = now]
      BY <2>3 DEF Renders
    <3>2. rendered' = boardSnapshot
      BY <2>3 DEF Renders
    <3> HIDE DEF now
    <3>3. CASE ask'[c] = [ask[c] EXCEPT !.pc = "abandoned"]
      <4>1. ask'[c] = [pc |-> "abandoned", panel |-> ask[c].panel, made |-> ask[c].made,
                       tells |-> ask[c].tells, report |-> ask[c].report,
                       wasShown |-> ask[c].wasShown]
        BY <2>1, <3>3
      <4>2. QED
        BY <4>1 DEF KeptWell
    <3>4. CASE ask'[c] = [ask[c] EXCEPT !.wasShown = now]
      <4>1. ask'[c] = [pc |-> ask[c].pc, panel |-> ask[c].panel, made |-> ask[c].made,
                       tells |-> ask[c].tells, report |-> ask[c].report, wasShown |-> now]
        BY <2>1, <3>4
      <4>2. /\ ask'[c].pc = ask[c].pc /\ ask'[c].tells = ask[c].tells
            /\ ask'[c].wasShown = now
        BY <4>1
      <4>3. ask[c].pc \in {"waiting", "shown"} /\ ask[c].tells \in {"order", "panel"} => now = TRUE
        BY <2>2 DEF KeptWell, now
      <4>4. KeptWell(ask[c])'
        BY <4>2, <4>3 DEF KeptWell
      <4>5. QED
        BY <4>1, <4>4
    <3>5. QED
      BY <3>1, <3>3, <3>4
  <2>4. CASE Settles
    <3>1. Quiet /\ UNCHANGED rendered
      BY <2>4 DEF Settles
    <3>2. \/ ask'[c] = ask[c]
          \/ ask[c].pc = "waiting" /\ ask'[c] = [ask[c] EXCEPT !.pc = "shown"]
      BY <2>4 DEF Settles
    <3>3. CASE ask'[c] = ask[c]
      <4>1. KeptWell(ask[c])'
        BY <1>1, <2>2, <3>1, <3>3 DEF KeptWell
      <4>2. QED
        BY <2>1, <3>3, <4>1
    <3>4. CASE ask[c].pc = "waiting" /\ ask'[c] = [ask[c] EXCEPT !.pc = "shown"]
      <4>1. ask'[c] = [pc |-> "shown", panel |-> ask[c].panel, made |-> ask[c].made,
                       tells |-> ask[c].tells, report |-> ask[c].report,
                       wasShown |-> ask[c].wasShown]
        BY <2>1, <3>4
      <4>2. ask[c].tells \in {"order", "panel"} => ask[c].wasShown = TRUE
        BY <2>2, <3>1, <3>4 DEF KeptWell, Quiet
      <4>3. KeptWell(ask[c])'
        BY <4>1, <4>2 DEF KeptWell
      <4>4. QED
        BY <4>1, <4>3
    <3>5. QED
      BY <3>2, <3>3, <3>4
  <2>5. QED
    BY <2>3, <2>4
<1>3. ask' = [c \in BoardCalls |-> ask'[c]]
  BY DEF Renders, Settles
<1>4. ASSUME NEW c \in BoardCalls
      PROVE  Shaped(ask'[c]) /\ ask'[c].made = ask[c].made
  <2> DEFINE r == [pc |-> ask'[c].pc, panel |-> ask[c].panel, made |-> ask[c].made,
                   tells |-> ask[c].tells, report |-> ask[c].report,
                   wasShown |-> ask'[c].wasShown]
  <2>1. Shaped(r) /\ r.made = ask[c].made
    BY DEF Shaped
  <2>2. ask'[c] = r
    BY <1>2
  <2> HIDE DEF r
  <2>3. QED
    BY <2>1, <2>2
<1>5. BoardInv'
  BY <1>1, <1>3, <1>4, StoreStands, ToldOn
<1>6. KeptInv'
  BY <1>2 DEF KeptInv
<1>7. AnswersTruly
  BY <1>2 DEF AnswersTruly, Truly
<1>8. QED
  BY <1>5, <1>6, <1>7

LEMMA BoardStep ==
  ASSUME BoardInv, KeptInv, [BoardNext]_boardVars
  PROVE  BoardInv' /\ KeptInv' /\ AnswersTruly
<1>1. CASE UNCHANGED boardVars
  <2>1. UNCHANGED boardStore /\ UNCHANGED <<rendered, ask>> /\ UNCHANGED boardSnapshot
    BY <1>1 DEF boardVars, boardStore
  <2>2. BoardInv' /\ AnswersTruly
    BY <2>1, StoreStands, ToldOn DEF BoardInv, AnswersTruly
  <2>3. KeptInv'
    BY <2>1 DEF KeptInv, KeptWell
  <2>4. QED
    BY <2>2, <2>3
<1>2. QED
  BY <1>1, PersonStep, BoardToolsStep, BoardReactStep DEF BoardNext

(* What an agent is told of the board it can rely on: what is looked up agrees *)
(* with the page when the answer is given, what was kept over the wait the   *)
(* page has shown since the call, a refusal changed nothing, and the names    *)
(* told stay those panels': for every catalog, every batch and any number of *)
(* calls (board.ts, shell-tools.ts, TablePanel.tsx).                         *)
THEOREM BoardIsAsTold == BoardSpec => BoardToldTruly
<1>1. BoardInit => BoardInv /\ KeptInv
  <2> SUFFICES ASSUME BoardInit PROVE BoardInv /\ KeptInv
    OBVIOUS
  <2>1. AllMinted(panels) /\ rendered \in Seq(BoardPanel)
    BY DEF BoardInit, AllMinted
  <2>2. ask = [c \in BoardCalls |-> ask[c]]
        /\ \A c \in BoardCalls : Shaped(ask[c]) /\ ask[c].made = {} /\ ask[c].pc = "idle"
    BY DEF BoardInit, Shaped
  <2>3. BoardInv
    BY <2>1, <2>2 DEF BoardInit, BoardInv
  <2>4. QED
    BY <2>2, <2>3 DEF KeptInv, KeptWell
<1>2. BoardInv /\ KeptInv /\ [BoardNext]_boardVars => BoardInv' /\ KeptInv'
  BY BoardStep
<1>3. BoardInv /\ KeptInv /\ BoardInv' /\ [BoardNext]_boardVars =>
        [/\ AddressedAsTold'
         /\ \A c \in BoardCalls : ask'[c].pc # ask[c].pc =>
              CASE ask'[c].pc = "answered" /\ ask[c].tells = "board" ->
                     ask'[c].report = IdsOf(rendered)
                [] ask'[c].pc = "answered" /\ ask[c].tells \in {"order", "panel"} ->
                     ask'[c].report = ask[c].report /\ ask[c].wasShown
                [] ask'[c].pc = "read" -> ask'[c].report = DisclosedAll(rendered)
                [] ask'[c].pc = "refused" -> UNCHANGED boardStore
                [] OTHER -> TRUE]_boardVars
  <2> SUFFICES ASSUME BoardInv, KeptInv, BoardInv', [BoardNext]_boardVars
               PROVE  AddressedAsTold' /\ AnswersTruly
    BY DEF AnswersTruly, Truly
  <2>1. AddressedAsTold'
    BY NamesStayTrue, PTL
  <2>2. QED
    BY <2>1, BoardStep
<1>4. QED
  BY <1>1, <1>2, <1>3, PTL DEF BoardSpec, BoardToldTruly
-----------------------------------------------------------------------------
(***************************************************************************)
(* MCParts: the parts side by side, one of which moves.                     *)
(***************************************************************************)
LEMMA PartsBegin ==
  ASSUME MCInit
  PROVE  Init /\ BarrierInit /\ BusInit /\ PromptInit /\ GatewayInit /\ ChatInit
BY DEF MCInit

LEMMA PartsMove ==
  ASSUME [MCNext]_<<part, domSide, callSide, agentSide>>
  PROVE  [Next]_vars /\ [BarrierNext]_barrierVars /\ [BusNext]_busVars
         /\ [PromptNext]_promptVars /\ [GatewayNext]_gatewayVars /\ [ChatNext]_chatVars
<1>1. CASE MCNext
  <2>1. CASE DomSide /\ UNCHANGED <<callSide, agentSide>>
    BY <2>1 DEF DomSide, callSide, agentSide
  <2>2. CASE CallSide /\ UNCHANGED <<domSide, agentSide>>
    BY <2>2 DEF CallSide, domSide, agentSide
  <2>3. CASE AgentSide /\ UNCHANGED <<domSide, callSide>>
    BY <2>3 DEF AgentSide, domSide, callSide
  <2>4. QED
    BY <1>1, <2>1, <2>2, <2>3 DEF MCNext
<1>2. CASE UNCHANGED <<part, domSide, callSide, agentSide>>
  BY <1>2 DEF domSide, callSide, agentSide
<1>3. QED
  BY <1>1, <1>2

(* Every part's state is well-formed, whichever moves and whatever the others  *)
(* hold meanwhile.                                                          *)
THEOREM PartsTyped == MCSpec => []TypesOK
<1>1. MCInit => Init /\ BarrierInit /\ BusInit /\ GatewayInit /\ ChatInit
  BY PartsBegin
<1>2. [MCNext]_<<part, domSide, callSide, agentSide>> =>
        [Next]_vars /\ [BarrierNext]_barrierVars /\ [BusNext]_busVars
        /\ [GatewayNext]_gatewayVars /\ [ChatNext]_chatVars
  BY PartsMove
<1>3. TypeOK /\ BarrierTypeOK /\ BusTypeOK /\ GatewayTypeOK /\ ChatTypeOK => TypesOK
  BY DEF TypesOK
<1>4. QED
  BY <1>1, <1>2, <1>3, DomTyped, BarrierTyped, BusTyped, AgentGatewayTyped, ChatTyped, PTL
     DEF MCSpec, Spec, BarrierSpec, BusSpec, GatewaySpec, ChatSpec

(* In every part, whoever waits has what will serve it still to come, whichever *)
(* part moves (the handlers of the render barrier, the subscribers of the bus, *)
(* the calls of the confirmation dialog, the requests of the agent's end).    *)
THEOREM PartsServe == MCSpec => []WaitersAreServed
<1>1. MCInit => BarrierInit /\ BusInit /\ PromptInit /\ GatewayInit
  BY PartsBegin
<1>2. [MCNext]_<<part, domSide, callSide, agentSide>> =>
        [BarrierNext]_barrierVars /\ [BusNext]_busVars
        /\ [PromptNext]_promptVars /\ [GatewayNext]_gatewayVars
  BY PartsMove
<1>3. NobodyMissesTheDrain /\ HeardAtRest /\ EveryOpenCallIsInLine /\ NobodyIsStranded
        => WaitersAreServed
  BY DEF WaitersAreServed
<1>4. QED
  BY <1>1, <1>2, <1>3, DrainReachesEveryone, NobodyIsBehindAtRest, NobodyIsForgotten, NobodyStranded, PTL
     DEF MCSpec, BarrierSpec, BusSpec, PromptSpec, GatewaySpec
=============================================================================
