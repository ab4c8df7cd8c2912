---------------------------- MODULE ComposableBoard ----------------------------
(***************************************************************************)
(* examples/composable-board: the board a person and an agent build          *)
(* together. One store outside React holds the panels (state/board.ts);      *)
(* React renders what the store last published (Board.tsx); the person's     *)
(* controls and the agent's tools (shell-tools.ts, the panels) call the same *)
(* functions, and a tool answers after the render barrier (RenderBarrier).   *)
(*                                                                         *)
(* An action is one task of the page: React renders a published change in    *)
(* the microtasks of the task that made it, before the next one (Quiet). A   *)
(* panel's tools exist while it is rendered, and close over the panel the    *)
(* last render gave it. What they wait for first, the checks of the bridge   *)
(* and a person's confirmation, is BridgeCall.                              *)
(***************************************************************************)
EXTENDS Naturals, FiniteSets, SequencesExt

CONSTANTS
  Catalog,      \* per kind: the sources a panel of it may be bound to
  Fields,       \* per kind: what its settings hold; a form's are its fields
  Secret,       \* the field of a form that is marked secret
  Contents,     \* what a field may be given
  Blank,        \* what each holds at first
  Batches,      \* the requests a call of board.add_panel makes
  BoardCalls,   \* the agent's calls
  MaxPanels,    \* MAX_PANELS
  MaxMinted,    \* bound on the panels ever made
  MaxAccounts   \* bound on the accounts created

ASSUME BoardAssumption ==
  /\ MaxPanels \in Nat /\ MaxMinted \in Nat /\ MaxAccounts \in Nat
  /\ DOMAIN Fields = DOMAIN Catalog /\ "form" \in DOMAIN Fields
  /\ \A requests \in Batches :
       /\ requests \in Seq(ToSet(requests))
       /\ \A r \in ToSet(requests) : r.kind \in DOMAIN Catalog

VARIABLES
  panels,    \* the store's list
  nextId,
  boardSnapshot, \* what getSnapshot() gives
  rendered,  \* what the page shows
  accounts,  \* the accounts forms have created
  ask        \* per call: where it stands, its panel, what it made, what its answer is
             \* about and says; history: the page has shown that since the call

boardStore == <<panels, nextId, boardSnapshot, accounts>>
boardVars == <<boardStore, rendered, ask>>

BoardInit ==
  /\ panels = <<>> /\ boardSnapshot = <<>> /\ rendered = <<>>
  /\ nextId = 1
  /\ accounts = <<>>
  /\ ask = [c \in BoardCalls |-> [pc |-> "idle", panel |-> 0, made |-> {},
                                  tells |-> "nothing", report |-> <<>>, wasShown |-> FALSE]]

IdsOf(list) == [i \in DOMAIN list |-> list[i].id]
On(list) == ToSet(IdsOf(list))
PlaceOf(list, id) == CHOOSE i \in DOMAIN list : list[i].id = id
PanelOf(list, id) == list[PlaceOf(list, id)]

Quiet == rendered = boardSnapshot

-----------------------------------------------------------------------------

(* publish(): a new snapshot, and every subscriber is told.                  *)
Published(list) == list

Publishes(list) == panels' = list /\ boardSnapshot' = Published(list)

(* Faulty MintedId: an id that follows from the position.                     *)
MintedIdByPlace(i) == Len(panels) + i

(* The one counter of the board: no removal gives an id back.               *)
MintedId(i) == nextId + i - 1

(* The whole batch is checked before any of it is applied.                  *)
Admissible(requests) ==
  /\ requests # <<>> /\ Len(panels) + Len(requests) <= MaxPanels
  /\ \A r \in ToSet(requests) : r.source \in Catalog[r.kind]

Defaults(kind) == [f \in Fields[kind] |-> Blank]

NewPanels(requests) ==
  [i \in DOMAIN requests |-> [id |-> MintedId(i), kind |-> requests[i].kind,
                              source |-> requests[i].source,
                              settings |-> Defaults(requests[i].kind)]]

Clamped(place, high) == IF place > high THEN high ELSE place
Placed(list, new, place) == SubSeq(list, 1, place) \o new \o SubSeq(list, place + 1, Len(list))

AddPanels(requests, position) ==
  /\ nextId + Len(requests) <= MaxMinted + 1
  /\ Publishes(Placed(panels, NewPanels(requests), Clamped(position, Len(panels))))
  /\ nextId' = nextId + Len(requests)
  /\ UNCHANGED accounts

(* filter(): one panel goes, since no id is given twice. *)
Dropped(list, id) == RemoveAt(list, PlaceOf(list, id))

RemovePanel(id) ==
  /\ Publishes(Dropped(panels, id))
  /\ UNCHANGED <<nextId, accounts>>

ReorderPanel(id, position) ==
  LET rest == Dropped(panels, id) IN
  /\ Publishes(Placed(rest, <<PanelOf(panels, id)>>, Clamped(position, Len(rest))))
  /\ UNCHANGED <<nextId, accounts>>

WithSettings(id, settings) ==
  [i \in DOMAIN panels |-> IF panels[i].id = id THEN [panels[i] EXCEPT !.settings = settings]
                           ELSE panels[i]]

UpdateSettings(id, settings) ==
  /\ Publishes(WithSettings(id, settings))
  /\ UNCHANGED <<nextId, accounts>>

-----------------------------------------------------------------------------
(***************************************************************************)
(* The form: a person's button and the agent's confirmed action.            *)
(***************************************************************************)
Forms == {p \in ToSet(rendered) : p.kind = "form"}

missingRequired(settings) == {f \in DOMAIN settings : settings[f] = Blank}

(* The account is appended first; the form is emptied after it.              *)
SubmitForm(p) ==
  /\ Len(accounts) < MaxAccounts
  /\ accounts' = Append(accounts, p.settings)
  /\ Publishes(WithSettings(p.id, Defaults("form")))
  /\ UNCHANGED nextId

-----------------------------------------------------------------------------
(***************************************************************************)
(* The person, through the toolbar, the panel controls and the fields.      *)
(***************************************************************************)
PersonAdds(r) ==
  /\ Admissible(<<r>>) /\ AddPanels(<<r>>, Len(panels))

PersonRemoves(p) == RemovePanel(p.id)

(* The buttons move a panel by one; the outermost are disabled.             *)
PersonMoves(i, place) == i # place /\ ReorderPanel(rendered[i].id, place - 1)

PersonTypes(p, f, v) == UpdateSettings(p.id, [p.settings EXCEPT ![f] = v])

PersonSubmits(p) == missingRequired(p.settings) = {} /\ SubmitForm(p)

BoardPerson ==
  /\ Quiet
  /\ \/ \E kind \in DOMAIN Catalog : \E source \in Catalog[kind] :
          PersonAdds([kind |-> kind, source |-> source])
     \/ \E p \in ToSet(rendered) : PersonRemoves(p)
     \/ \E i, place \in DOMAIN rendered : place \in {i - 1, i + 1} /\ PersonMoves(i, place)
     \/ \E p \in Forms :
          PersonSubmits(p) \/ \E f \in Fields["form"], v \in Contents : PersonTypes(p, f, v)
  /\ UNCHANGED <<rendered, ask>>

-----------------------------------------------------------------------------
(***************************************************************************)
(* The agent. A refusal is returned, with nothing changed; otherwise the     *)
(* change is made and the handler waits for it to be shown. What it answers  *)
(* it looks up after the wait, or has kept from before it.                  *)
(***************************************************************************)
Arrives(c) == Quiet /\ ask[c].pc = "idle"

(* describeBoard(): the field marked secret is left out.                    *)
Disclosed(p) == [p EXCEPT !.settings = Restrict(@, DOMAIN @ \ {Secret})]
DisclosedAll(list) == [i \in DOMAIN list |-> Disclosed(list[i])]

(* The board is looked up after the wait. *)
Waits(c, id, made) ==
  ask' = [ask EXCEPT ![c].pc = "waiting", ![c].panel = id, ![c].made = made,
                     ![c].tells = "board"]

(* What a panel's own tool says of the panel it has changed: what it shows by *)
(* its settings; of a form, which fields were filled and no value.           *)
OwnAnswer(p) == IF p.kind = "form" THEN [p EXCEPT !.settings = Restrict(@, {})] ELSE p

(* A page that shows list shows what an answer says.                        *)
Agrees(tells, report, list) ==
  \/ tells = "order" /\ report = IdsOf(list)
  \/ tells = "panel" /\ \E p \in ToSet(list) : report = OwnAnswer(p)

(* The answer is kept over the wait. *)
Keeps(c, id, tells, report) ==
  ask' = [ask EXCEPT ![c].pc = "waiting", ![c].panel = id,
                     ![c].tells = tells, ![c].report = report,
                     ![c].wasShown = boardSnapshot' = rendered /\ Agrees(tells, report, rendered)]

Refused(c) ==
  /\ ask' = [ask EXCEPT ![c].pc = "refused"]
  /\ UNCHANGED boardStore

(* board.add_panel *)
Adds(c, requests, position) ==
  /\ Arrives(c)
  /\ IF Admissible(requests)
     THEN AddPanels(requests, position) /\ Waits(c, 0, ToSet(NewPanels(requests)))
     ELSE Refused(c)
  /\ UNCHANGED rendered

(* board.remove_panel *)
Removes(c, id) ==
  /\ Arrives(c)
  /\ IF id \in On(panels) THEN RemovePanel(id) /\ Waits(c, 0, {}) ELSE Refused(c)
  /\ UNCHANGED rendered

(* board.reorder: the order the change made. *)
Reorders(c, id, position) ==
  /\ Arrives(c)
  /\ IF id \in On(panels) THEN ReorderPanel(id, position) /\ Keeps(c, 0, "order", IdsOf(panels'))
     ELSE Refused(c)
  /\ UNCHANGED rendered

(* A panel's own tool gives one of its settings another value; what it is not *)
(* asked to change it writes back as the last render had it, and what it     *)
(* answers goes by the panel it has so updated.                             *)
Configures(c, p, f, v) ==
  /\ Arrives(c)
  /\ IF p.id \in On(panels)
     THEN /\ UpdateSettings(p.id, [p.settings EXCEPT ![f] = v])
          /\ Keeps(c, p.id, "panel", OwnAnswer(PanelOf(panels', p.id)))
     ELSE Refused(c)
  /\ UNCHANGED rendered

(* panel.<id>.submit, which a person has confirmed: it answers what it has    *)
(* created. A panel that has left the store is found out only when the      *)
(* account is there already.                                                *)
Submits(c, p) ==
  /\ Arrives(c)
  /\ IF missingRequired(p.settings) # {} THEN Refused(c)
     ELSE /\ SubmitForm(p)
          /\ IF p.id \in On(panels) THEN Keeps(c, p.id, "account", Disclosed(p))
             ELSE ask' = [ask EXCEPT ![c].pc = "refused"]
  /\ UNCHANGED rendered

(* board.get_state *)
Reads(c) ==
  /\ Arrives(c)
  /\ ask' = [ask EXCEPT ![c].pc = "read", ![c].report = DisclosedAll(panels)]
  /\ UNCHANGED <<boardStore, rendered>>

(* Past the barrier the handler reports the board as it stands by then, or    *)
(* what it has kept.                                                        *)
Reports(c) ==
  /\ Quiet /\ ask[c].pc = "shown"
  /\ ask' = [ask EXCEPT ![c].pc = "answered",
                        ![c].report = IF ask[c].tells = "board" THEN IdsOf(panels) ELSE @]
  /\ UNCHANGED <<boardStore, rendered>>

BoardTools ==
  \E c \in BoardCalls :
    \/ \E requests \in Batches, place \in 0..MaxPanels : Adds(c, requests, place)
    \/ \E id \in 1..MaxMinted : Removes(c, id)
    \/ \E id \in 1..MaxMinted, place \in 0..MaxPanels : Reorders(c, id, place)
    \/ \E p \in ToSet(rendered) : \E f \in Fields[p.kind], v \in Contents : Configures(c, p, f, v)
    \/ \E p \in Forms : Submits(c, p)
    \/ Reads(c) \/ Reports(c)

-----------------------------------------------------------------------------
(***************************************************************************)
(* React. A panel that leaves the page takes its own calls with it.          *)
(***************************************************************************)
Renders ==
  /\ ~Quiet
  /\ rendered' = boardSnapshot
  /\ ask' = [c \in BoardCalls |->
               IF ask[c].pc \in {"waiting", "shown"} /\ ask[c].panel \notin On(boardSnapshot) \cup {0}
               THEN [ask[c] EXCEPT !.pc = "abandoned"]
               ELSE [ask[c] EXCEPT !.wasShown = @ \/ Agrees(ask[c].tells, ask[c].report, boardSnapshot)]]
  /\ UNCHANGED boardStore

(* The commit the barrier asked for comes with a later task.                *)
Settles ==
  /\ Quiet /\ \E c \in BoardCalls : ask[c].pc = "waiting"
  /\ ask' = [c \in BoardCalls |-> IF ask[c].pc = "waiting" THEN [ask[c] EXCEPT !.pc = "shown"]
                                  ELSE ask[c]]
  /\ UNCHANGED <<boardStore, rendered>>

BoardNext == BoardPerson \/ BoardTools \/ Renders \/ Settles

BoardSpec == BoardInit /\ [][BoardNext]_boardVars

-----------------------------------------------------------------------------
(* Of the panels an agent was told it made, each that is on the board is what *)
(* it was told, whatever was removed, added and moved since: a tool of that   *)
(* name is never another panel's.                                           *)
AddressedAsTold ==
  /\ IsInjective(IdsOf(panels))
  /\ \A c \in BoardCalls : \A made \in ask[c].made : \A p \in ToSet(panels) :
       p.id = made.id => p.kind = made.kind /\ p.source = made.source

(* What the agent is told of the board (board.ts, nextId; shell-tools.ts and *)
(* TablePanel.tsx, afterRender). The names it is told stay true. An answer   *)
(* that looks the board up agrees with the page at the moment it is given,   *)
(* and withholds the secret. One kept over the wait, an order or what a      *)
(* panel shows, is what the page has shown since the call, though a person   *)
(* may have changed it again by then. A refusal, of a batch or of a          *)
(* submission, changed nothing.                                             *)
BoardToldTruly ==
  [][/\ AddressedAsTold'
     /\ \A c \in BoardCalls : ask'[c].pc # ask[c].pc =>
          CASE ask'[c].pc = "answered" /\ ask[c].tells = "board" ->
                 ask'[c].report = IdsOf(rendered)
            [] ask'[c].pc = "answered" /\ ask[c].tells \in {"order", "panel"} ->
                 ask'[c].report = ask[c].report /\ ask[c].wasShown
            [] ask'[c].pc = "read" -> ask'[c].report = DisclosedAll(rendered)
            [] ask'[c].pc = "refused" -> UNCHANGED boardStore
            [] OTHER -> TRUE]_boardVars
=============================================================================
