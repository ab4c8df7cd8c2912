------------------------------- MODULE DomTools -------------------------------
(***************************************************************************)
(* The built-in DOM tools on one document (src/dom/references.ts,           *)
(* snapshot.ts, tools.ts): dom.snapshot describes the page and mints a      *)
(* token for each element it reports; the other tools take a token, resolve *)
(* it in the one live table, and read or operate its element. Around them   *)
(* the application changes the page as it likes.                            *)
(*                                                                         *)
(* A token "e<n>" is its ordinal n, and every string of another form is 0.   *)
(* A tool resolves and acts in one synchronous run; what it awaits after     *)
(* that is the render barrier (RenderBarrier), and changes nothing here.     *)
(***************************************************************************)
EXTENDS SemanticDom

CONSTANTS
  Looks,       \* per node: the records the application renders it as
  Urls,        \* the addresses the page navigates between
  Values,      \* the texts an agent fills in
  Limit,       \* SNAPSHOT_ELEMENT_LIMIT
  MaxCounter   \* bound on the ordinals minted

ASSUME DomAssumption == Limit \in Nat /\ MaxCounter \in Nat

VARIABLES
  page,       \* per node: what it is rendered as
  connected,  \* the nodes in the document
  url,        \* location.href
  counter,    \* state.counter
  live,       \* state.table is defined
  entries,    \* its entries: per token, the witness
  tableUrl,   \* its url
  told,       \* history: what every snapshot answered told of its tokens
  current     \* history: the tokens the agent has every reason to use

document == <<page, connected, url>>
table == <<live, entries, tableUrl>>
vars == <<document, counter, table, told, current>>

Init ==
  /\ page \in {p \in [Nodes -> UNION {Looks[n] : n \in Nodes}] : \A n \in Nodes : p[n] \in Looks[n]}
  /\ connected = Nodes
  /\ url \in Urls
  /\ counter = 0
  /\ live = FALSE
  /\ entries = <<>>
  /\ tableUrl = url
  /\ told = {}
  /\ current = {}

-----------------------------------------------------------------------------
(***************************************************************************)
(* The application.                                                        *)
(***************************************************************************)
(* A node is reused for other content: same object, still connected.        *)
Rerender(n, look) ==
  /\ look # page[n]
  /\ page' = [page EXCEPT ![n] = look]
  /\ UNCHANGED <<connected, url, counter, table, told, current>>

Detach(n) ==
  /\ n \in connected
  /\ connected' = {m \in connected : n \notin Lineage[m]}
  /\ UNCHANGED <<page, url, counter, table, told, current>>

Attach(n) ==
  /\ n \notin connected /\ Parent[n] \in connected \cup {0}
  /\ connected' = connected \cup {n}
  /\ UNCHANGED <<page, url, counter, table, told, current>>

(* A client-side route change: the document stays.                          *)
Navigate(u) ==
  /\ u # url
  /\ url' = u
  /\ UNCHANGED <<page, connected, counter, table, told, current>>

(* Faulty Invalidated: the ordinals start again.                            *)
InvalidatedAfresh == 0

(* Every ordinal minted so far is below the counter an invalidation leaves.  *)
Invalidated == counter + 1

invalidateDomRefs ==
  /\ counter < MaxCounter
  /\ counter' = Invalidated
  /\ live' = FALSE
  /\ current' = {}
  /\ UNCHANGED <<document, entries, tableUrl, told>>

Application ==
  \/ \E n \in Nodes : Detach(n) \/ Attach(n)
  \/ \E n \in Nodes : \E look \in Looks[n] : Rerender(n, look)
  \/ \E u \in Urls : Navigate(u)
  \/ invalidateDomRefs

-----------------------------------------------------------------------------
(***************************************************************************)
(* dom.snapshot. A pass first takes an ordinal for its epoch, then one for   *)
(* each element it reports, up to the limit.                                *)
(***************************************************************************)
described == Described(page, connected)

(* A node's place in document order among those described, from 1. *)
Place(n) == Cardinality({m \in described : m <= n})

Reported == {n \in described : Place(n) <= Limit}

Witness(n) == [node |-> n, role |-> roleOf(page[n]), name |-> nameOf(page[n])]

(* The table a pass installs at its end: whole, and instead of the one before. *)
Minted ==
  [t \in (counter + 2)..(counter + 1 + Cardinality(Reported)) |->
     Witness(CHOOSE n \in Reported : Place(n) = t - counter - 1)]

takeSnapshot ==
  /\ counter + 1 + Cardinality(Reported) <= MaxCounter
  /\ counter' = counter + 1 + Cardinality(Reported)
  /\ live' = TRUE
  /\ entries' = Minted
  /\ tableUrl' = url
  /\ told' = told \cup {[token |-> t, witness |-> Minted[t], url |-> url] : t \in DOMAIN Minted}
  /\ current' = DOMAIN Minted
  /\ UNCHANGED document

(* A pass that throws after k elements has minted their tokens, installed     *)
(* nothing and told nobody.                                                 *)
SnapshotThrows(k) ==
  /\ counter + 1 + k <= MaxCounter /\ k <= Cardinality(Reported)
  /\ counter' = counter + 1 + k
  /\ UNCHANGED <<document, table, told, current>>

-----------------------------------------------------------------------------

(***************************************************************************)
(* The tools that take a token.                                            *)
(***************************************************************************)
(* resolveReference(): "resolved", or the first condition that refuses it.   *)
resolveReference(t) ==
  IF t = 0 \/ t > counter THEN "neverIssued"
  ELSE IF ~live THEN "invalidatedByApplication"
  ELSE IF t \notin DOMAIN entries THEN "supersededBySnapshot"
  ELSE IF entries[t].node \notin connected THEN "elementRemoved"
  ELSE IF url # tableUrl THEN "pageNavigated"
  ELSE IF Witness(entries[t].node) # entries[t] THEN "elementRecycled"
  ELSE "resolved"

(* REFUSAL_REPORT: what a refusal tells the agent to do next.               *)
RefusalReport(because) == IF because = "neverIssued" THEN "domRefNotFound" ELSE "domRefStale"

Target(t) == entries[t].node
Tokens == 0..(MaxCounter + 1)

(* dom.get_text reads, and changes nothing.                                 *)
GetText(t) ==
  /\ resolveReference(t) = "resolved"
  /\ UNCHANGED vars

(* dom.click, dom.press, dom.scroll: the event is dispatched, and the         *)
(* application's handlers run before the dispatch returns, or do nothing.    *)
Operate(t) ==
  /\ resolveReference(t) = "resolved" /\ interactabilityOf(page, Target(t)) = "operable"
  /\ Application \/ UNCHANGED vars

(* dom.fill: through the native setter, then the events.                     *)
Fill(t, v) ==
  /\ resolveReference(t) = "resolved" /\ fillabilityOf(page, Target(t)) = "operable"
  /\ page' = [page EXCEPT ![Target(t)].value = v]
  /\ UNCHANGED <<connected, url, counter, table, told, current>>

(* dom.select: the option of that label.                                    *)
Select(t, option) ==
  /\ resolveReference(t) = "resolved" /\ selectabilityOf(page, Target(t), option) = "operable"
  /\ page' = [page EXCEPT ![Target(t)].value = option]
  /\ UNCHANGED <<connected, url, counter, table, told, current>>

-----------------------------------------------------------------------------
Next ==
  \/ Application
  \/ takeSnapshot
  \/ \E k \in 0..Limit : SnapshotThrows(k)
  \/ \E t \in Tokens : GetText(t) \/ Operate(t)
  \/ \E t \in Tokens, v \in Values : Fill(t, v) \/ Select(t, v)

Spec == Init /\ [][Next]_vars

-----------------------------------------------------------------------------
TypeOK ==
  /\ DOMAIN page = Nodes /\ connected \subseteq Nodes /\ url \in Urls
  /\ counter \in 0..MaxCounter /\ live \in BOOLEAN /\ tableUrl \in Urls
  /\ \A t \in DOMAIN entries : t \in 1..counter /\ entries[t].node \in Nodes
  /\ current \subseteq 1..counter
  /\ \A e \in told : e.token \in 1..counter

(* A token that resolves names the one element some snapshot told of it, as   *)
(* it was told, and belongs to the last snapshot answered, with no            *)
(* invalidation since; and one that the agent was told of is never answered  *)
(* as if it had made it up (references.ts, resolveReference).               *)
ResolvesAsTold ==
  /\ \A t \in Tokens : resolveReference(t) = "resolved" =>
       /\ t \in current
       /\ {e \in told : e.token = t} =
            {[token |-> t, witness |-> Witness(Target(t)), url |-> url]}
       /\ Target(t) \in connected
  /\ \A e \in told : RefusalReport(resolveReference(e.token)) # "domRefNotFound"

=============================================================================
