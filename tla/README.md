# agent-mcp-react: specifications

TLA+ models of the parts of `agent-mcp-react` whose correctness depends on the order in which things
happen, the TLC runs that check them on small instances, and TLAPS proofs of the properties that matter
most. The library lets an agent, over one WebSocket per page, list and call tools that React components
declare in the document's registry (WebMCP, `navigator.modelContext`). The repository also holds the
agent's end of that socket (`tools/mock-agent`) and demonstrators an embedder is meant to copy from; those
with logic of their own are modelled as well. JavaScript runs one turn at a
time, so there are no data races; what there is instead is an `await` in almost every operation, and a
page that rerenders, renames, unmounts, reconnects and changes its mind between any two of them.

Every definition names the source lines it stands for in `PROJECT.json` (`map`); every property's comment
says which behaviour of the code it is about.

- [Inventory](#inventory): components, state, operations, interactions, what is hard, what is correct
- [Modules](#modules-and-how-they-correspond-to-the-code)
- [Runs](#runs), [bounds](#bounds), [fairness](#fairness), [assumptions](#assumptions)
- [Proofs](#proofs)
- [What is only model-checked](#what-is-only-model-checked), [what is not modelled](#what-is-not-modelled)
- [Disagreements with the documentation](#disagreements-between-code-and-documentation)
- [What could come next](#what-could-come-next)

## Inventory

### Tool-list publication (`src/runtime/tool-list-publication.ts`, driven by `server.ts`, derived by `listing.ts`)

- **State.** Whether a window is open (one per connection), an epoch incremented by every close, the token
  of what the agent was last told (`lastReconciled`), a dirty flag and the running drain.
- **Operations.** `open()` (reads the baseline), `close()`, `signal()`, the drain loop: derive, compare,
  notify, again while dirty. A derivation enumerates the registry, awaits, and then reads the ownership
  record, the permissions and the capabilities of a *later* moment.
- **Interaction.** `signal()` is called by the platform's tool-change event, by the ownership record and
  by the provider when capabilities move; `open`/`close` by `connect`/`shutdown`.
- **Hard.** Changes during a derivation or a send; a drain of the previous window still unwinding when the
  next is open; a failed send.
- **Correct when.** No change is lost, no window's answer is written into another, nothing is announced
  twice, and a page that settles ends with the agent told.

### Bridged calls (`src/runtime/invocation.ts`, `cancellation.ts`, `resolution.ts`, `gate-chain.ts`, `security/resolve.ts`, the `tools/call` handler of `server.ts`)

- **State.** Per request: which await it is in, the latched first cancellation, what its gates recorded,
  what it answered. Shared: the tool's registration and entry, the permissions, the granted levels.
- **Operations.** resolve, capability, policy, validate, confirm, invoke, output check; cancellation by the
  agent and abandonment by the declaring component, at any await.
- **Interaction.** Reads the registry, the ownership record and the capability set *live*; runs the
  application's validators, confirmation resolver and handler; reports to the observation bus.
- **Hard.** Authority that changes while a person is deciding; handler and abort settling in one turn;
  applications that answer late or never; an entry replaced under a call.
- **Correct when.** Nothing runs unapproved or under authority that is gone, and the answer is one the
  agent can act on: refused means not run, success means not cancelled, cancelled says whether it ran.

### Registration (`src/react/use-mcp-tool.ts`, `registration.ts`, `src/webmcp/registry.ts`, `src/runtime/ownership.ts`)

- **State.** Per component: the name, permissions and controller of its present registration, and effects
  still due. Per name: a chain of tasks. The document's registry, the ownership record, the gateway's
  availability and epoch.
- **Operations.** Mount, permission refresh, descriptor change and rename, rename into a reserved name,
  unmount; `perform`, `performReplacement`, `performRefresh` from await to await; open and close.
- **Hard.** Effects are synchronous and work is not: a component unmounts or renames again while its task
  is queued, waiting, compiling, resolving the registry or being registered. Two components swap names.
- **Correct when.** The record never claims what the registry does not hold, what is offered is what is
  declared, nothing is left behind, and a name is refused only when somebody really has it.

### Declarations outside React (`src/actions/queue.ts`, `actions/index.ts`, `registerDeclared`/`withdrawDeclared` in `provider.tsx`)

- **State.** The module-scope declarations, what the present provider serves each as, the handles'
  `registered` flags.
- **Operations.** declare, update, remove; a provider adopts all declarations and releases them.
- **Hard.** Declarations outlive providers and registrations do not; continuations run after the fact they
  report has ceased to hold.
- **Correct when.** A provider that goes leaves nothing registered, and the next one offers each
  declaration as last declared.

### Connection lifecycle (`provider.tsx`, `server.ts` connect/shutdown, `src/transport/websocket.ts`, `reconnect.ts`, `react/connection-state.ts`, `webmcp/claim.ts`)

- **State.** The effect (set up, torn), its `start()` awaiting the registry, the document claim, the
  published status, the backoff index, a pending recovery, the current runtime; per attempt its stage, its
  transport's position and socket, its window and its subscriptions.
- **Operations.** start, attempt, `channelEnded`, `scheduleRecovery`, cleanup; per transport `start`, the
  deadline, open, close and error events, `close()`.
- **Hard.** A teardown at any await of an attempt; a channel that ends while `connect()` is still awaiting;
  the deadline racing a late URL; observers that throw.
- **Correct when.** There is one channel at most, nothing outlives a teardown, recovery goes on until it
  succeeds, and what the page shows is what there is.

### Observation bus (`src/runtime/observation.ts`, `call-record.ts`)

- **State.** Subscriptions with the call they attached at, a queue of records, the draining flag.
- **Operations.** subscribe, unsubscribe, `beginIfObserved`, the one terminal, the deferred drain.
- **Hard.** Sinks are application code on the drain's stack, and re-enter the bus or throw.
- **Correct when.** Each subscriber hears a readable story of each call it hears of, once, in order.

### Render barrier (`afterRender` in `provider.tsx`, its callers in `use-mcp-state.ts` and `src/adapters`)

- **State.** A tick counter, the tick of the last commit, the waiters with the tick each waits for, a torn
  flag that strict mode's cleanup sets and its second set-up clears.
- **Operations.** `afterRender()` allocates a tick and asks React for it; an effect settles the waiters a
  commit reached; the cleanup settles all. A bound action acts, or fails, and then waits; a state read
  does not wait.
- **Hard.** Several waiters over commits that may leave out a deferred change; a tree that unmounts before,
  while or after a handler asks.
- **Correct when.** No handler reports success before what it changed is on the screen, and none waits for
  ever.

### Capabilities (`security/normalize.ts`, `vocabulary.ts`; the commit, report and announcement effects of `provider.tsx`)

- **State.** What a render proposed, what the last commit put in force, `hasStarted`, the signature of the
  last render and the one the agent is believed to have been told.
- **Operations.** Normalisation of whatever the application wrote; render, drop, commit, passive effects;
  a connection attempt's baseline; the announcement.
- **Hard.** A render is only a proposal; the baseline of a reconnection is read outside React; what the
  application wrote may inherit, throw or be misspelt.
- **Correct when.** Nothing is in force that was not written, the bridge stands exactly if a usable set has
  committed, and no agent works from a listing of an authority that has gone.

### Built-in DOM tools (`src/dom`)

- **State.** Per document a counter of tokens ever minted and the one live table, from token to node with
  the witness (role and name) the snapshot described it by, and the address it was taken at.
- **Operations.** Snapshot, invalidation, resolution with its five refusals, reading, operating, filling,
  selecting; roles, names, perceivability and interactability of a node.
- **Hard.** The application reuses, moves, renames and removes nodes between a snapshot and the call that
  names one.
- **Correct when.** A token resolves to nothing but what the latest snapshot told of it, and a token the
  page did issue is never reported as invented.

### Inspection channel and devtools (`window.__AGENT_MCP__` in `provider.tsx`, `src/devtools`)

- **State.** The global slot, each provider's channel, the inspector's bounded call log and what it drew.
- **Hard.** Two providers and another script at one slot; a terminal whose start the log has dropped.
- **Correct when.** The panel says what is so, for as long as its channel stands.

### Confirmation dialog (`useConfirmationSurface` of the demonstrators)

- **State.** The prompt on screen, the queue in a ref, updaters React has not evaluated.
- **Hard.** A call that ends while its prompt is shown, queued or being answered.
- **Correct when.** Nobody approves what they were not shown, and every call that asks is answered.

### Composable board (`examples/composable-board`)

- **State.** A store outside React: panels, the counter of their ids, what it last published; accounts.
- **Operations.** Add, remove and reorder panels, configure one, fill and submit a form, read; the same
  functions from the person's controls and from the agent's tools.
- **Hard.** Tools named after panels, while panels come, go and move.
- **Correct when.** A name an agent was told is never another panel's, and an answer agrees with the page
  at the moment it is given.

### The agent's end (`tools/mock-agent`: `tickets.ts`, `gateway.ts`, `client.ts`, `runtime.ts`, `chat.ts`; `examples/agent-chat`)

- **State.** Tickets; sockets and tabs; requests to a tab; a shutdown under way. Per session a conversation
  and the turn being served; per tab a cached tool listing; per chat page a transcript.
- **Hard.** Upgrades, disconnections and a shutdown under requests in flight; a listing that goes stale while
  a turn uses it; a turn that fails part way; events of a turn the page has cleared away.
- **Correct when.** A ticket admits once, nobody is kept waiting, every call the model made has its result in
  the conversation, every turn ends, and the transcript tells what happened.

### Other parts

Registry portability and error conversion (`src/webmcp`), `runtime.evaluate` (`src/evaluate`), the Ajv
adapter, page identity and build mode, the demonstrators' screens, the release scripts: see
[what is not modelled](#what-is-not-modelled).

### How they interact

```
 component --effects--> RegistrationGateway --registerTool/abort--> document registry --toolchange--+
 app shell --declare--> DeclaredTools ------^        |                                              |
                                                     +--> ownership record --changed--> ToolListPublisher
 provider --open/close--> gateway                                    ^                      |
 provider --attempt--> runtime --connect--> WebSocketTransport       |                      v
                          |                                          |      notifications/tools/list_changed
 agent --tools/call------>+--> BridgeCall --live reads---------------+
                           |  |    +--> ObservationBus --> observers, inspection channel --> devtools panel
                           |  +--> ConfirmationSurface --> the person
                           +--> handlers (DOM tools, board, application) --> RenderBarrier --> React

 chat page --message--> AgentChat --listing, calls--> AgentGateway --socket--> the page above
```

## Modules, and how they correspond to the code

| Module | Stands for | State | Actions |
|---|---|---|---|
| `DerivedListing` | `deriveListing` and what it reads | none: operators | none |
| `ToolListAdvertisement` | the promise of publication (abstract) | page, window, what was advertised | Move, OpenWindow, Advertise, Report, CloseWindow |
| `ToolListPublisher` | `createToolListPublisher`, `currentListing` | `open`, `epoch`, `last`, `dirty`, the drain (`pc`, `mine`, `read`), one baseline per window | one per stretch of drain and of `open()` between awaits; the page's changes with and without their event |
| `AgentListing` | the agent's own `tools/list` requests beside the publisher | the publisher's; what was listed last, whether a notification was sent since | Lists, and the publisher's steps as the agent hears them |
| `BridgeCall` | the `tools/call` handler, `invoke`, `run`, `confirm`, `composeCancellation` | a record per call; the tool's phase and offer; grants | one per answer of an awaited party, cancellations, the component's life |
| `RegistrationGateway` | `useMcpTool`'s effects, the gateway, `register`, `replaceRegistration`, the record | `comp`, `task`, `aborted`, `armed`, `registry`, `record`, `open`, `epoch` | one per await of a task, one per effect, open and close, another script |
| `DeclaredTools` | `queue.ts`, handles, `registerDeclared`, `withdrawDeclared` | declarations, what each is served as, flags; the gateway's by `INSTANCE` | Declare, Redeclare, Undeclare, Adopt, Release, Tell, the gateway's work |
| `WebSocketTransport` | one transport | operators on a transport's record | none |
| `AgentLink` | what the documentation promises a page about its connection (abstract) | status, whether there is a channel | Connect, Establish, Lose, Refuse, Leave |
| `ConnectionLifecycle` | the lifecycle effect, `connect`, `shutdown` | effect, claim, status, index, timer, `current`, attempts | one per await of `start()`, `attempt()` and `connect()`, the timer, the teardown, the other end |
| `ObservationBus` | `createObservationBus` | counter, subscriptions, queue, walk | subscribe, unsubscribe, begin, finish, drain, deliver |
| `RenderBarrier` | `afterRender` and its callers | the tree's phase, ticks, waiters, commits and their effects, a phase per call | strict remount, commit, effects, unmount, cleanup; per call act, fail, wait, cancel, report, read |
| `CapabilityAuthority` | normalisation, the commit, report and announcement effects, the mount effect's gate, the baseline | render, commit, effects owed, what is in force, signatures, what the agent listed under | Render, Drop, Commits, PassiveEffects, Unmounts, Attempts, Connects, Disconnects, Lists |
| `SemanticDom` | `roles.ts`, `naming.ts`, `perceivable.ts`, `interact.ts` on one node | none: operators on a finite tree | none |
| `DomTools` | `references.ts`, `snapshot.ts`, `tools.ts` | document, counter, live table | the application's changes, invalidation, snapshot, and the tools that take a token |
| `InspectionChannel` | the slot, channel and removal in `provider.tsx`; `devtools/index.ts`, `call-log.ts`, `panel.ts` | slot, channels, calls, inspector | install, uninstall, a stranger's write, inspect, dispose, calls, status |
| `ConfirmationSurface` | `useConfirmationSurface` | shown prompt, updater queue, answers | Ask, Abort, RenderPrompt, Decide |
| `ComposableBoard` | `board.ts`, `shell-tools.ts`, `Board.tsx`, `FormPanel.tsx`, `TablePanel.tsx` | panels, ids, published and rendered board, accounts, a call's stage | the tools, the person's controls, React's render, the barrier |
| `AgentGateway` | `tickets.ts`, `gateway.ts`, `client.ts`, the routes `/tools` and `/call` of `runtime.ts` | tickets, sockets, tabs, requests, the shutdown | mint, expire, upgrade, handshake, ask, answer, hang up, and each step of `close()` |
| `AgentChat` | `chat.ts`, the routes `/chat` of `runtime.ts`, `agent.ts`, `transcript.ts`, `App.tsx` of the chat | listing, wire, conversation, turns, event streams, transcripts | one per await of a turn, the page's changes, the chat page's reads, a response that breaks off, clear and reset |

Conventions. A step runs from one `await` to the next, as the code does. A task and the controller made
for it have one number; an attempt, its runtime and its transport have one slot. A variable or field
called *history* belongs to the properties only. An operator introduced as *Faulty X* is no part of any
specification: it is a plausible mistake in `X`, kept beside it to show that a property would notice.

Where one module uses another: `DeclaredTools` instantiates `RegistrationGateway` with no component, so
both routes run the same tasks; `ConnectionLifecycle` extends `WebSocketTransport`, and `AgentListing`
`ToolListPublisher`; `MCToolListPublisher` and `ConnectionLifecycle` instantiate their abstract specifications under a refinement mapping
(`window <- open, advertised <- last, failing <- alarm` and `status <- published, channel <- Channel`).
Elsewhere components meet through a stated interface: `ToolListPublisher` sees the gateway and the
component as a page whose registry and record move, in any order, with their events; `BridgeCall` sees
them as one tool that is registered, recorded, refreshed, replaced and withdrawn in the order
`RegistrationGateway` does it, its confirmation as an answer that comes or not (`ConfirmationSurface` is
one that does), and its handler as one that settles or not (`RenderBarrier`, `DomTools` and
`ComposableBoard` are what handlers do); `ConnectionLifecycle` sees the publisher as a window opened by
`connect`; `AgentChat` sees the gateway as one linked page that answers or not.

`MCParts` puts nine modules that share no state side by side: which of them moves is chosen in the initial
state, and the others stay as they begin. Its states are the sum of theirs, its properties are theirs, and
its fairness is the conjunction of that of the parts whose liveness is checked, since what each asks for is
disabled where its part stands still. `MCProvider` does the same with the provider's connection and the
gateway of its components' tools.

## Runs

States are distinct states.

| Run | Configuration | States | What it shows |
|---|---|---|---|
| `publisher` | `MCToolListPublisher.cfg` | 423 892 | `NoLostSignal`: an open publisher at rest has told the agent the page's set, or reported that it could not. `TokenOfThisWindow`: no answer crosses a reconnection. `TokenCatchesUp`: a page that settles ends with the agent told. `ImplementsAdvertisement`: the drain, dirty bit and epoch amount to the abstract promise. |
| `bridge` | `MCBridgeCall.cfg` | 462 808 | `ApprovedUnlessWindow`, `EnteredUnderLiveAuthority`: whom a handler may run for, at the moment it is entered. `RefusalMeansNotRun`, `NoStaleSuccess`, `CancelledAnswerIsHonest`: what each answer lets the agent conclude. `RecordMatchesAnswer`: observation and answer tell one story. `CancelledCallSettles`: no application code holds a cancelled call open. Deadlock is checked: the page can always move. |
| `registration` | `MCRegistrationGateway.cfg` | 1 158 568 | `RecordNeverDiverges`: the record claims nothing the registry does not hold. `NothingLeftBehind`, `Converges`: at rest, what is held is declared, and what is declared is held under its latest permissions. `RefusalIsGenuine`: the gateway's ordering never refuses a name that earlier work was to free. |
| `declared` | `MCDeclaredTools.cfg` | 1 043 642 | `NothingServedIsLeft`: a removed declaration and a provider that has gone leave nothing. `DeclarationsConverge`: what is offered at rest is what was last declared, whichever provider serves it. |
| `provider` | `MCProvider.cfg` | 156 874 | *Connection* (16 908): `NothingOutlivesTeardown`, `RecoveryNeverGivesUp`: an attempt overtaken at any await leaves nothing, and a page that reconnects has somebody at it. `RecoveryReachesTheAgent`: it comes back, if its URLs and its gateway do. `DialedAttemptSettles`: an attempt that has its URL ends, whatever the gateway does. `ImplementsLink`: *connected* is shown exactly while there is a channel. *Registration* (139 966), with a reserved name, another script and a provider that closes and opens: work queued for an ended provider settles (`EndedProviderOwesNothing`), and while anything is owed some task at the head of its chains can go on (`SomeTaskCanGo`). |
| `parts` | `MCParts.cfg` | 545 529 | See the next table. |
| `agent_listing` | `MCAgentListing.cfg` | | `AgentStaysUpToDate` is violated: see [below](#disagreements-between-code-and-documentation). |
| `bridge_unapproved` | `MCBridgeCallUnapproved.cfg` | | `ApprovedBeforeRun` is violated. |
| `registration_unmount` | `MCRegistrationGoneAtUnmount.cfg` | | `GoneAtUnmount` is violated. |
| `connection_sendable` | `MCConnectionSendable.cfg` | | `ResolvingMeansSendable` is violated. |
| `connection_silent` | `MCConnectionSilent.cfg` | | `DeadlineCoversTheAttempt` is violated. |
| `authority_baseline` | `MCAuthorityBaseline.cfg` | | `AgentTold` is violated. |

| Part of `parts` | States | What it shows |
|---|---|---|
| `dom` | 38 592 | `ResolvesAsTold`: a token resolves only to a connected node that is still what the latest snapshot, taken at this address, told of it; a token the page issued is never answered as one it never did. |
| `authority` | 24 830 | `AuthorityAsWritten`: nothing is in force that the last commit's set does not say, as an own member that reads true. `SettlesAsWritten`: at rest the bridge stands if and only if a usable set has committed, the operator knows what is wrong with an unusable one, and the agent what is in force, if its connection's baseline was what was in force. |
| `channel` | 49 954 | `PanelTellsTheTruth`: status, calls and truncation as drawn are as they are; a call the log has dropped does not come back with its end; and a provider refused the slot never costs the one that has it its channel. |
| `barrier` | 52 106 | `ReportedIsShown`: no success before the commit that shows it. `NobodyMissesTheDrain`: whoever waits is recorded in a tree still to be torn down, with the commit or the drain that answers it still to come. `EveryWaiterSettles`. |
| `bus` | 83 379 | `WellPaired`, `ExactlyOnceInOrder`, `HeardAtRest`: whatever sinks throw or do to the bus, the others hear everything, once, in order. |
| `prompts` | 5 528 | `ApprovedAsShown`: a decision is about what was on the screen. `EveryOpenCallIsInLine`: nobody waits for a prompt that will not come. |
| `gateway` | 25 896 | `NobodyIsStranded`: a request waits only for a page whose close event is still to come. `NobodyKeptWaiting`: requests end and a shutdown completes. |
| `chat` | 237 958 | `EveryCallAnswered`: what the model is sent has a result for every call. `TranscriptTellsTheTurn`: once a turn is over nothing is shown as in progress, unless the failure that cut it short stands right below. `EveryTurnEnds`: the composer is given back. |
| `board` | 27 286 | `BoardToldTruly`: names stay those of the panels they were given for; an answer looked up after the wait agrees with the page when it is given, one kept over the wait is what the page has shown since the call; refusals change nothing. |

`WaitersAreServed` is the conjunction of `NobodyMissesTheDrain`, `HeardAtRest`, `EveryOpenCallIsInLine` and
`NobodyIsStranded`: in each part that keeps somebody waiting, whoever waits has something coming. Together
with the fairness of the next section they are what the liveness properties of these parts rest on.

`TypesOK` is the conjunction of the type invariants of five of the modules in `parts`; in the other four,
what the arguments need of the types is part of the invariants proved. The type invariants of the modules
outside `parts` are proved ([Proofs](#proofs)) and not run, and so are `OneChannel`,
`StatusTellsTheChannel`, `BackoffNeverRestarts`, `OwnedOnceRegistered`, `AdmittedOnce` and
`FirstCauseStands`.

`CHECK_DEADLOCK FALSE` is said where the system may come to rest: every bounded counter spent and nothing
pending. Symmetry is used in `registration` and `declared` only, which check no liveness.

### Bounds

- `publisher`: one application tool and one built-in, one description and one output schema (present or
  absent), `MaxEpoch` 1: two windows. A difference between two listings is a difference in one of these
  components; what crosses a reconnection crosses one close. `agent_listing` has the same.
- `bridge`: one application call and one built-in call. Calls share the tool, the capability set and the
  agent and nothing else; any two of them meet there as these two do.
- `registration`: two components, two names, two permission values, four tasks, so a swap of names by two
  mounted components (two mounts, two renames) with everything else in between; nobody contests names, none
  is reserved and the provider stays (`StayingSpec` leaves out the steps this disables, which `provider` has).
- `declared`: two declarations, two names, two permission values, three tasks, one rebuild of the effect.
- `provider`. *Registration*: one component, a name it may use, a reserved one, three tasks, one close, and
  a script that takes and leaves the name. *Connection*: two slots (`MaxSlots`), since an attempt of a torn
  effect can linger beside the present one; three set-ups, so that what the first leaves meets the third; a schedule of four intervals
  (`LastInterval` 3), so that its end is reached and exceeded. With two slots, while two torn attempts
  linger a third begins only once one of them has ended; the safety theorems hold for any number. `connection_sendable` and `connection_silent` have two set-ups and three intervals.
- `parts`. *dom*: a fieldset and one control in it that the application re-renders as six things, two
  addresses, four tokens: a token can be superseded, invalidated and outlived by its node. *authority*: five
  things an application may write, six renders, two attempts: a dropped render between two committed ones,
  on both sides of a reconnection. *channel*: two providers and a stranger at the slot, two calls and a log
  of one. *barrier*: three calls, one of which defers its change, so that a commit can show a later change
  and hold an earlier one. *bus*: three calls, two subscriptions. *prompts*: three calls, one shown and two
  held. *gateway*: two tickets, two sockets of one or no tab identifier, one caller. *chat*: two turns
  over a page to which a tool with a clashing name is added; a turn asks the model once and meets its limit
  when it would ask again; the response of the first may break off, so that its turn goes on for nobody beside
  the second (`MaxBroken` 1); one reset, which may fail, at any moment of either (`ResetsAgain` false). *board*: two panels at a time of
  three ever made, so that one goes and its place is taken, and one form.
- `authority_baseline`: two sets, five renders, one attempt.

Counters are bounded in guards only: `MaxEpoch`, `MaxTasks`, `MaxDeclared`, `MaxMounts`, `MaxSlots`,
`MaxCalls`, `MaxSubs`, `MaxCounter`, `MaxRenders`,
`MaxAttempts`, `MaxChannels`, `CallsBound`, `MaxConns`, `MaxTickets`, `MaxTurns`, `MaxBroken`, `CallsPerReply`,
`MaxMinted`, `MaxAccounts`. None of them occurs in a guard the code has (`MaxPanels`, `MaxRounds`, `Limit`
and `RetainedCalls` do: they are the code's own). The proofs hold for every value.

### Fairness

Weak fairness is asked of what the event loop owes to code whose promise has settled or whose timer is
due, and of nothing the application or the other end decides.

- `publisher`: an event on its way arrives; the running drain and baseline go on (their awaits are the
  registry's `getTools()` and a send, which settle, with an answer or an error). No fairness for changes.
- `bridge`: resolution, and `bounded`'s race once cancelled. None for validators, resolvers and handlers.
- `provider`. Registration: the continuation of a task whose await has settled; schemas need never compile,
  and the property says so. Connection, and `connection_silent`: the deadline's timer, a subscription's
  answer, the resolution of `start()` and the recovery timer (`Scheduling`), and nothing else. That `getUrl()`
  settles (`Supplier`) and that a step which could succeed over and over does not fail every time (`Gateway`,
  which is what *a gateway that comes back* means) are not assumed of any behaviour: they are the antecedent
  of `RecoveryReachesTheAgent`, the one property that is about such an application and such a gateway.
- `parts`. Barrier: React commits what is scheduled and runs the
  effects of what it committed; a handler's own code goes on. Gateway: a socket this end has closed reports so, a body ends, a request to a page
  ends by the client's deadline, and the shutdown's own awaits settle. Chat: frames arrive, every await of a
  turn settles (the model's by its failure, the page's by the deadline), and the chat page reads its stream;
  nothing is said of a stream that breaks, nor of a reset.
  None for pages, agents, callers, and the application. What is checked of the other parts is safety.

### Assumptions

- Derivations of one window settle in the order they were issued: one `getTools()` queue and equal chains
  of awaits. This orders a window's baseline before its drains.
- A recovery's timer does not fire after the provider threw at a render (`failed`): React unmounts it.
- React runs a component's effects in the order it documents: layout effects of a render before its passive
  ones, pending passive effects before a later render's, cleanups before set-ups.
- `ComposableBoard` moves by whole tasks of the page: React has rendered what a task published before the
  next one begins. Two tools called from one task of a page script are outside that granularity.
- The confirmation dialog and the providers run in a production build, except where a module says otherwise
  (`CapabilityAuthority` has both builds, `RenderBarrier` and the registration have strict mode's remount).
- One document, one copy of the library; other providers appear only as holders of the document claim and
  as other users of the call counter.

## Proofs

TLAPS proves, for every value of the constants, under the named assumptions of each module
(`PublisherAssumption`, `CallAssumption`, `GatewayAssumption`, `DeclarationAssumption`,
`LifecycleAssumption`, `DeferredAssumption`, `TreeAssumption`, `DomAssumption`, `AgentAssumption`,
`WrittenAssumption`, `ChannelAssumption`, `BusAssumption`, `NobodyAssumption`, `ChatAssumption`,
`BoardAssumption`, `ListingAssumption`). They say
that bounds are natural numbers, that reserved and contested names are names, that markers such as `None`,
`NoChannel`, `Nobody` and `Stranger` are no values, that only an object has members, that the instrumented page has
some tool set at every moment and every tool name a translation, and that a call of `board.add_panel` asks
for a finite list of panels of kinds the catalogue has. Every invariant and every action property that a
passing run checks is proved, and so is the refinement of the abstract link; what is left to TLC is liveness.

**`ToolListPublisherProofs`**: `PublisherTyped`, `TokenIsOfThisWindow`, `SignalsAreNotLost`,
`PublisherRefinesAdvertisement`. None of the properties is inductive alone. *WindowInv*: an epoch is
opened at most once, and a drain that carries the current epoch is a drain of the open window; without it
an old pass could pass the epoch test. *HeldInv*: whatever this window's drain and baseline carry was
enumerated or composed in it. *FreshInv*: every value on its way into the token is the page's own, or
something already scheduled will derive it again (an event on its way, the dirty flag, a report, a
baseline that has not enumerated yet). *SpeaksInv*, for the refinement: nothing is said before the
baseline and nothing twice running.

**`BridgeCallProofs`**: `CallsTyped`, `RefusedCallsNeverRan`, `SuccessIsNotStale`,
`CancellationsAreHonest`, `NobodyIsBypassed`, `EntryIsAuthorised`, `OneStory`, `CauseIsFirst`. The code between two awaits is a map
from records to records, so the invariant (*RecordsInv*) speaks of one record at a time and each map has a
lemma that it keeps it; *ConsentInv* adds what is owed to a tool that asks for confirmation, which is what
relates a record to the tool's present offer. *StoriesInv* says of every record which gates its place in
the pipeline implies have passed, so that the gate an answer blames is the only one that refused.
`CauseIsFirst` (`FirstCauseStands`: the cause latched first stays, and names the answer) is proved and not
run.

**`RegistrationGatewayProofs`**: `GatewayTyped`, `NoDivergence`, `OwnToolsAreOwned`, `OneAtATime`,
`NobodyLeftBehind`, `DeclaredIsOffered`, `NoSpuriousRefusal`, `ChainsDoNotBlock`. Neither agreement of record and registry is
inductive: the abort listener that keeps them together exists only once armed, and a registration can be
withdrawn between the platform's acceptance and its arming. *HolderInv*, *EntryInv*, *ArmedInv* and
*SettlingInv* say what holds in each of these phases, and *ChainInv* (whatever left the queue left it after
every earlier task on its names had settled) is what makes a settling registration the only one on its name.

`NobodyLeftBehind`, `DeclaredIsOffered` and `NoSpuriousRefusal` are about components, which tasks and record do
not mention. *OwnersInv* says who a
controller belongs to: a component that holds one holds the last that was made for it (*HeldInv*), each
controller nobody holds has a task queued that will end it (*LeavingInv*), unless its task was itself
withdrawn while it could still abort what it replaces (*Stranded*, the disagreement
`registration_unmount`), and what a replacement takes over is its own component's (*KindInv*, *OwnedInv*).
At rest no task is queued, so whatever stands is held. *PermissionsInv* does the same for permissions: the
tasks that carry one registration carry the permissions the component asked for last (*AskedInv*), and an
entry has those of the last that was carried out (*WrittenInv*).

`ChainsDoNotBlock` is the safety that `EndedProviderOwesNothing` rests on. *WaitInv*: tasks are issued under
epochs that only grow, and one that waits for a provider waits for the present one, which has not opened.
Among the tasks that are not settled take the one with the least number: everything before it in its chains
has settled, so it is ready, and it cannot be waiting, since it was issued no later than the task one began
with, whose provider is there or has gone.

**`DeclaredToolsProofs`**: `DeclaredTyped`, `NoDeclarationLeftBehind`, `DeclarationsSurvive`. To the gateway
a declaration that is served is what a mounted component is: it holds a controller under a name and
permissions. The module instantiates the gateway's *proofs* with declarations for components and a function
of `served` for what they hold, so *PageInv*, proved once, carries over to every step that does one task's
work. What is left is what a provider does to all declarations at once: adoption issues a task for each, in
an order that a function from ranks to declarations makes explicit, and a release aborts and forgets them
all. *ServingInv* ties what is served to what was declared.

**`ConnectionLifecycleProofs`**: `TypeCorrect`, `TeardownIsFinal`, `AtMostOneChannel`, `StatusTold`,
`BackoffHolds`; and, for observers that do not throw, `NeverGivesUp` and `LinkImplemented`. *LifecycleInv*:
each attempt's record is consistent with its stage (*AttemptWell*), the one attempt that is not torn is the
one `runtimeRef` names (*CurrentWell*), and what the effect holds is held only while it is set up
(*EffectWell*). *StatusInv* relates what is published to what is going on, and to whether recovery goes on.
An observer may throw out of any report, which leaves what the interrupted code was still to do undone
(`Failing`): the first five theorems hold all the same, and so cover more than the runs, whose observers
never throw. The last two do not, which is the disagreement about recovery told
[below](#disagreements-between-code-and-documentation).

**`PageProofs`**, of the page an agent works on, and of `MCParts` as a whole (it extends `MCParts` and the two
modules below).

`BarrierTyped`, `NoReportBeforeCommit`, `DrainReachesEveryone`, for any number of calls. The invariant of
`RenderBarrier` relates a waiter's tick to what React still has scheduled: a change that is not deferred and
not yet shown is scheduled together with a tick no commit has reached, so that the effect that settles a
waiter can only follow the commit that showed its change. The same ticks say that a waiter whose tick has
been reached still has its drain before it: nobody is recorded behind the drain that would have answered.

`ReferencesSound`, for any document tree, looks,
addresses and limit: tokens in the table were minted and told once, with the witness the table keeps, and
the counter is above them all. `DomTyped`: a token's entry is a node of the page, because the places of what
a snapshot reports are exactly the numbers up to their count (*PlacesAreNumbers*).

`BoardIsAsTold`, for any
catalogue of panels, any batches and any number of calls: *BoardInv* says that the panels of the store have
ids below the next one and no two the same, that what is published is what the store holds, and that the
panels a call has made had minted ids too: a panel on the board that bears one of them has the kind and the
source it was made with. *KeptInv* is about the answers kept over the wait, of which `board.reorder`'s order
and what a table's own tools say are two: while such a call waits, either the page has shown what its answer
says, or the commit that shows it is still due and nothing has been published since.

`PartsTyped`, `PartsServe`: `TypesOK` and `WaitersAreServed`, for the composition. A part that moves does so by
its own next-state relation and the others keep their variables, so each part's inductive invariant is one
of the composition (*PartsBegin*, *PartsMove*), and the conjunction of them implies the two properties.

**`OperatorProofs`**, of what the operator of a page decides and is shown.

- `InForceAsWritten`, `AuthoritySettles`, for any values an application may write and any number of renders.
  *AuthorityInv*: what is in force is what the last commit's set grants, whatever was rendered and dropped
  since; a lemma about the normalisation shows that a set grants only what it says with a `true` of its own.
  *SettlingInv*: what a commit changed and has not yet told is owed by an effect of that commit (report,
  runtime, announcement), and an agent that owes no listing listed under the authority in force, or its
  announcement is among those effects.
- `PanelIsTrue`, for any number of providers, calls and channels. *InstalledInv*: the slot, the channels'
  owners and what each provider removes agree, strangers included. *PanelInv*: the panel's log tells of every
  call its provider began since it subscribed, with the end of those that ended, except the oldest ones once
  the log was full, and then it says so; a dropped call is never entered again, since its end finds no entry
  to complete (*NoneComesBack*). Unless another script writes the slot, whoever installed a channel finds it
  there, however many providers are refused meanwhile.
- `BusTyped`, `EndingsFollowBeginnings`, `OncePerSubscriber`, `NobodyIsBehindAtRest`, for any number of calls and subscriptions,
  whatever a sink does to the bus while it is served. *LogInv*: what is queued, and what the running walk has
  in hand, is the end of the log. *HearingInv*: what a subscription was given is what it is to hear of a
  beginning of the log, the same for all live ones but for the present item; at rest nothing is queued, so the
  beginning is the whole log.
- `ApprovedIsSeen`, `NobodyIsForgotten`, for any number of calls and any queue of updaters. *PromptInv*: every updater that waits
  asks for a prompt or takes back that of a call that has ended, and what the person looks at is the top of
  the surface. Neither kind of updater displaces the top of a call that has not ended, so it is also what the
  whole queue leaves (*EvaluatedKeeps*, over the number of updaters already evaluated). *LineInv*, for
  `EveryOpenCallIsInLine`: a call that waits has not ended and is in line or has the updater that puts it there
  still to be evaluated, and nobody is held behind an empty screen; no updater takes an open call out of line.

**`AgentProofs`**, for any number of connections, pages, turns, rounds and calls per reply.

- `AgentGatewayTyped`, `TicketsAdmitOnce`, `NobodyStranded`. What a request is served from is a tab there is, or a refusal
  with its status, and a shutdown's cursor stops at a socket or at none. A ticket some connection redeemed is
  spent (*Spent*), and a spent ticket is not redeemed. *StrandInv*: what is open is among the connections,
  every connection and tab the gateway holds has its close event still to come, and so has the page that a
  waiting request was forwarded to; once a shutdown has closed the tabs there are none, and no socket is open.
- `ChatTyped`, `CallsAreAnswered`. In the middle of a round the last thing said is a reply whose calls are
  not all answered, and a turn in that state can neither end nor go back to the model. *TalkInv* says what a
  turn has in hand at each of its awaits: before a reply, a conversation all of whose calls are answered; in
  a round, one more reply, and results for its first calls in their order (*MidRound*).
- `TranscriptsAreTrue`. A page reads what a turn emits later, an event at a time, while other turns and
  pages go on and transcripts are emptied. *StreamInv* says what an unread stream is: a call that is not its
  last event is followed at once by its own result, a turn waits for the call it emitted last, and *done*
  ends it. *ReaderInv* relates it to a transcript: an entry without its result is the last one, and the next
  event is its result, or the turn still waits for it; and no call still to be read has an entry already,
  since identifiers are never used again (*Past*), whatever transcripts have kept. A response may break off
  at any point: the failure that is told then stands right below the call it left without a result (at most
  one is), nothing is ever put between the two, and what the turn goes on to emit reaches nobody
  (*EmptyStream*), so no later result can be mistaken for it.

## What is only model-checked

Every liveness property: `TokenCatchesUp`, `CancelledCallSettles`, `EndedProviderOwesNothing`,
`RecoveryReachesTheAgent`, `DialedAttemptSettles`, `EveryWaiterSettles`, `NobodyKeptWaiting`, `EveryTurnEnds`,
and the liveness part of `ImplementsAdvertisement`. The prover has neither fairness nor `ENABLED`. What several
of them rest on is proved as safety: `PublisherRefinesAdvertisement` for `ImplementsAdvertisement`,
`SignalsAreNotLost` for `TokenCatchesUp`, `ChainsDoNotBlock` for `EndedProviderOwesNothing`,
`DrainReachesEveryone` for `EveryWaiterSettles`, `NobodyStranded` for `NobodyKeptWaiting`, `NeverGivesUp` for
`RecoveryReachesTheAgent`. (`ImplementsLink` has no fairness and is proved whole.)

The violated properties of the six runs that show a disagreement are counterexamples and have nothing to
prove.

## What is not modelled

- *In the modelled components.* Publisher: which token algorithm is used (a token is the listing it stands
  for), and a `tools/list` that is answered over several steps. Calls: progress, arguments and results as data;
  the wording of failures. Registration: the churn counter, `onCompiled` and compiled validators, the
  handler cells that let a handler change without a cycle. Declarations: the same, and the lifetime
  controller of running calls. Lifecycle: interval lengths and jitter, a claim marker another script removes
  or garbles. Transport: frames, which change no state of it. Bus: snapshots, redaction and freezing. DOM
  tools: key sequences and pointer events in detail, the text walk of `dom.get_text`, shadow trees. Board:
  advancing a deal, what the panels draw. Chat: prose, and the framing of server-sent events.
- *Synchronous steps with no other actor*, left to their unit tests: descriptor and error conversion in
  `src/webmcp`, the Ajv adapter, page identity, build mode.
- *JavaScript itself*: `runtime.evaluate` has at the bridge its level and its mandatory confirmation, which
  are in `BridgeCall`; what the evaluated program does is outside.
- *Screens and scripts*: what the demonstrators draw and their fixtures, and the release scripts, which run
  once from start to end.
- *Strict mode's double evaluation of updaters* in the confirmation dialog.
- *An agent that stops while it serves a turn*: its conversations are in memory and go with it. To the chat
  page it is a response that breaks off, which is modelled.

## Disagreements between code and documentation

With a run of their own:

1. `agent_listing`. `server.ts:550`: an agent that lists between the baseline and the subscriptions stays stale
   for the rest of the connection, and subscribing first closes that gap (`server.ts:581`). But `tools/list`
   is served from `server.ts:523` on. An agent that lists there, and a tool withdrawn before the window is
   open: the signal meets a shut window, the baseline is derived from the page as it has become, every later
   pass compares equal to it, and nothing is said until the set moves again.
2. `bridge_unapproved`. `docs/reference-capabilities.md:83`: a person answers before the handler of a tool
   with `confirmation: 'required'` runs. While the tool's entry is being replaced its permissions, read
   live by name (`server.ts:504`), are undefined, and a call past resolve runs unasked.
3. `registration_unmount`. `docs/design.md:204`, `registration.ts:465`: a tool is gone at unmount. A
   replacement withdrawn while it awaits `ensureRegistry()` (`webmcp/registry.ts:295`) leaves the
   registration it was to replace standing. `NothingLeftBehind`, `RefusalIsGenuine` and
   `NothingServedIsLeft` excuse exactly that (`Stranded`).
4. `connection_sendable`. `websocket.ts:210`: resolving means sendable. `start()` does not ask, after
   `getUrl()`, whether `close()` ended it meanwhile (`websocket.ts:252`): it dials, and resolves on an
   ended channel that nothing closes.
5. `connection_silent`. `websocket.ts:235`: the deadline covers the whole attempt, obtaining the URL as well
   as opening the socket. The promise the deadline settles is awaited only after `getUrl()` has settled
   (`websocket.ts:252`), so an attempt whose URL never comes is in flight for good, and recovery with it.
6. `authority_baseline`. `provider.tsx:1261`: what an agent sees on its first listing is what the provider
   now believes it has been told. The baseline is read from a ref every render writes
   (`provider.tsx:737`, `:1264`), a render that has not committed included; the commit's announcement then
   compares equal, and the agent keeps the listing it made in between. `SettlesAsWritten` excuses exactly
   that (`honest`).

Met while modelling, part of the models, without a run of their own:

- An agent stays stale in a second way: a drain that derives after two changes, of which the second undoes
  the first, compares equal and says nothing (`tool-list-publication.ts:148`), though the agent may have
  listed between the two.
- `actions/index.ts:56`: `registered` tells whether a provider is currently serving the declaration. The
  promise that sets it (`provider.tsx:469`) resolves for withdrawn and skipped work too, after `remove()` or
  the release cleared it (`Tell`).
- `ConfirmationDialog.tsx:105`: the person stops being asked about something that is over. A call that asks
  while an updater is pending is put in line when the updater runs (`:121`), at the next render; aborted
  before, it is looked for in a line it is not yet in (`:113`), and is shown later, to no effect.
- `docs/design.md:379`: the outcome is irrevocable when the handler completes. A cancellation during the
  output check (`invocation.ts:576`) turns it into a cancelled one, and says that the tool had run
  (`CancelledAnswerIsHonest`).
- A first attempt whose channel ends while `connect()` is awaiting is reported `reconnecting` from
  `connecting`, which the transition table does not declare; the page then stays `connecting` while
  recovery goes on (`ConnectedDead`).
- `connection-state.ts:84`: recovery does not give up. An observer that throws out of `report(reconnecting)` keeps `scheduleRecovery()` from setting its timer
  (`provider.tsx:1163`): recovery stops. `NeverGivesUp` assumes observers that do not throw.
- Work a component queued for a provider whose effect is rebuilt is skipped and not queued again; for
  declarations outside React the next adoption does queue it again.
- `docs/dom-inspection.md:200`: a write tool refuses a target that is disabled. `interact.ts:84-124` reads
  the element's own `disabled` property, which a disabled fieldset does not set on the controls in it, so
  such a control is operated. `SemanticDom` reads what the code reads.
- `references.ts:153-155`: a snapshot that throws leaves every earlier token superseded. The table is only
  replaced at its end, so after a throw the earlier tokens resolve as before (`SnapshotThrows`).
- `runtime.ts:54`: the change notification is what invalidates a tab's cached listing. One that arrives while
  a listing is in flight is forgotten: the flag is cleared after the await (`runtime.ts:172`).
- `transcript.ts:34`: a call whose result is undefined is still running. When the response breaks off under a
  call, the page tells the failure and gives the composer back (`App.tsx:114-119`) and leaves the status line
  and the call as they are: they show as in progress for good, though no event will follow.
  `TranscriptTellsTheTurn` demands the failure right below them.
- `transcript.ts:103`: a result whose call is not in the transcript means that the two streams disagree. They
  need not: `clear()` empties the transcript once its request is answered, and the composer is not disabled
  meanwhile, so that it may empty a turn just begun and that turn's results find no call. The same property
  excuses such a result in a transcript emptied under a turn (`wiped`), and nothing else there.
- `TablePanel.tsx:69`: the tool returns how many rows are showing afterwards. The count is of the panel as the
  call has updated it, before its wait (`:91-100`, `:121-126`), and `board.reorder` returns the order it made
  (`shell-tools.ts:258-260`): a person who changes the board meanwhile makes the answer one the page has
  shown and no longer shows.
- A session that is reset under a turn comes back: the turn stores its messages when it ends
  (`chat.ts:314`).
- The confirmation dialog's updater settles whatever prompt it finds: an answer given while the abort of the
  shown prompt waits for its render goes to the next in line, which is what `ApprovedAsShown` excuses.

## What could come next

1. *An abstract registration*: the set of offered tools as a function of what is declared, implemented by
   `RegistrationGateway` and by `DeclaredTools` at rest.
2. *An action property for a transcript*: no entry of a turn that is over ever changes.
3. *A listing that takes time*: in `AgentListing`, a `tools/list` request that reads the registry in one step
   and the record in another.
4. *Strict mode* in the confirmation dialog and the board.
