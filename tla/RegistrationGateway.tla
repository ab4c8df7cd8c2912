------------------------ MODULE RegistrationGateway ------------------------
(***************************************************************************)
(* From a mounted component to a callable tool: the effects of useMcpTool   *)
(* (src/react/use-mcp-tool.ts), the registration gateway that orders their  *)
(* work per tool name (src/react/registration.ts), register and             *)
(* replaceRegistration (src/webmcp/registry.ts), the document's registry    *)
(* and the ownership record (src/runtime/ownership.ts), under a provider    *)
(* that opens the gateway, closes it and opens it again.                    *)
(*                                                                         *)
(* Work is asynchronous and effects are not: a component can rerender,      *)
(* rename its tool or unmount between any two awaits of a task it issued.   *)
(* A task and the AbortController made for it have one identity, a number   *)
(* in the order of issue.                                                   *)
(***************************************************************************)
EXTENDS Naturals

CONSTANTS
  Components,   \* useMcpTool call sites
  Names,        \* tool names
  Reserved,     \* those under a reserved prefix
  Permissions,  \* what a component may declare about reaching its tool
  None,         \* undefined
  Foreign,      \* another script of the page, as the holder of a name
  Contested,    \* the names it uses
  MaxTasks,     \* bound on the tasks issued
  MaxEpoch      \* bound on the gateway's epochs (times it is closed)

ASSUME GatewayAssumption ==
  /\ Reserved \subseteq Names /\ Contested \subseteq Names \ Reserved /\ None \notin Names
  /\ Foreign \notin Nat /\ MaxTasks \in Nat /\ MaxEpoch \in Nat

Tasks == 1..MaxTasks

(* The holder of a free name, and a controller that never registers.        *)
Nobody == 0

VARIABLES
  comp,      \* per component: the name in its registeredRef, its permissions,
             \* its controllerRef, and the name in a descriptor change of its
             \* last render whose effect is still due; NotMounted otherwise
  issued,    \* tasks issued so far
  task,      \* the tasks, chained per name in the order of issue
  aborted,   \* controllers that aborted
  armed,     \* controllers whose abort listener clears the record
  registry,  \* the document's registry: who holds each name
  record,    \* the ownership record: the entry of each name
  open,      \* availability() answers
  epoch      \* closes so far

tools == <<aborted, armed, registry, record>>
vars  == <<comp, issued, task, aborted, armed, registry, record, open, epoch>>

Controllers == Tasks \cup {Nobody}

Stages == {"queued", "waiting", "released", "admitted", "compiling", "resolving", "registering"}

(* overtaken: a replacement withdrawn while it resolved the registry, which *)
(* leaves the registration it was to replace standing.                      *)
Settlements == {"done", "withdrawn", "skipped", "failed", "refused", "overtaken"}

(* What a component holds, its controller one of C.                         *)
CompRecord(C) ==
  [name : Names \cup {None}, permissions : Permissions \cup {None},
   controller : C, due : Names \cup {None}]

TaskRecord ==
  [kind : {"enqueue", "replace", "refresh"},
   name : Names,
   held : SUBSET Names,     \* the names whose chains it was put on
   of   : Controllers,      \* the controller it replaces, or refreshes for
   permissions : Permissions \cup {None},
   at   : 0..MaxEpoch,      \* the epoch it was issued in
   pc   : Stages \cup Settlements]

Entry == [controller : Controllers, permissions : Permissions \cup {None}]

TypeOK ==
  /\ comp \in [Components -> CompRecord(Controllers)]
  /\ issued \in 0..MaxTasks
  /\ task \in [1..issued -> TaskRecord]
  /\ \A t \in 1..issued : task[t].of < t
  /\ aborted \subseteq Tasks
  /\ armed \subseteq Tasks
  /\ registry \in [Names -> Controllers \cup {Foreign}]
  /\ record \in [Names -> Entry]
  /\ open \in BOOLEAN
  /\ epoch \in 0..MaxEpoch

NoEntry == [controller |-> Nobody, permissions |-> None]

NotMounted == [name |-> None, permissions |-> None, controller |-> Nobody, due |-> None]

Mounted(i) == comp[i].name # None

Init ==
  /\ comp = [i \in Components |-> NotMounted]
  /\ issued = 0
  /\ task = [t \in 1..0 |-> 0]
  /\ aborted = {}
  /\ armed = {}
  /\ registry = [n \in Names |-> Nobody]
  /\ record = [n \in Names |-> NoEntry]
  /\ open = FALSE
  /\ epoch = 0

Settled(t) == task[t].pc \in Settlements

-----------------------------------------------------------------------------
(***************************************************************************)
(* Withdrawal is an abort.                                                 *)
(***************************************************************************)

Without(c) == [n \in Names |-> IF registry[n] = c THEN Nobody ELSE registry[n]]

(* What aborting c does to the record, through the listener it armed.       *)
Cleared(c) ==
  IF c \in armed \ aborted THEN [record EXCEPT ![task[c].name] = NoEntry] ELSE record

(* controller.abort(): the platform withdraws, the listener clears. *)
Abort(c) ==
  /\ IF c = Nobody THEN UNCHANGED <<aborted, registry>>
     ELSE aborted' = aborted \cup {c} /\ registry' = Without(c)
  /\ record' = Cleared(c)
  /\ UNCHANGED armed

(* The controller a task asks about: its own, or the refreshed one's.       *)
Own(t) == IF task[t].kind = "refresh" THEN task[t].of ELSE t

Withdrawn(t) == Own(t) \in aborted

-----------------------------------------------------------------------------
(***************************************************************************)
(* perform, performReplacement and performRefresh, from await to await.    *)
(***************************************************************************)
Goes(t, pc) == task' = [task EXCEPT ![t].pc = pc]

(* Faulty GiveUp: returns, as an enqueue does, whatever was to be replaced. *)
GiveUpReturning(t, outcome) ==
  Goes(t, outcome) /\ UNCHANGED tools

(* An early return; a replacement takes what it was replacing with it.      *)
GiveUp(t, outcome) ==
  /\ Goes(t, outcome)
  /\ IF task[t].kind = "replace" THEN Abort(task[t].of) ELSE UNCHANGED tools

(* The chains: every earlier task on a name of t's has settled. *)
Ready(t) ==
  \A s \in 1..(t - 1) : task[s].held \cap task[t].held # {} => Settled(s)

(* Reached the head of its chains: still wanted, and by this provider? *)
Start(t) ==
  /\ task[t].pc = "queued" /\ Ready(t)
  /\ \/ Withdrawn(t) /\ GiveUp(t, "withdrawn")
     \/ ~Withdrawn(t) /\ task[t].at # epoch /\ GiveUp(t, "skipped")
     \/ /\ ~Withdrawn(t) /\ task[t].at = epoch
        /\ Goes(t, IF open THEN "admitted" ELSE "waiting")
        /\ UNCHANGED tools
  /\ UNCHANGED <<comp, issued, open, epoch>>

(* availability() answered that the gateway closed. *)
Released(t) ==
  /\ task[t].pc = "released"
  /\ GiveUp(t, "skipped")
  /\ UNCHANGED <<comp, issued, open, epoch>>

(* Faulty Rewrite: not "held by this registration" but "held".              *)
RewriteAnyHolder(t) ==
  record' = IF record[task[t].name].controller # Nobody
            THEN [record EXCEPT ![task[t].name].permissions = task[t].permissions]
            ELSE record

(* The refresh writes on the entry of its own registration only. *)
Rewrite(t) ==
  record' = IF /\ record[task[t].name].controller # Nobody
               /\ record[task[t].name].controller = task[t].of
            THEN [record EXCEPT ![task[t].name].permissions = task[t].permissions]
            ELSE record

(* availability() answered that it may go on. *)
Admitted(t) ==
  /\ task[t].pc = "admitted"
  /\ \/ /\ task[t].kind = "enqueue"
        /\ Goes(t, "compiling")
        /\ UNCHANGED tools
     \/ /\ task[t].kind = "replace"
        /\ IF Withdrawn(t) THEN GiveUp(t, "withdrawn")
           ELSE Goes(t, "compiling") /\ UNCHANGED tools
     \/ /\ task[t].kind = "refresh"
        /\ IF Withdrawn(t) \/ task[t].at # epoch
           THEN GiveUp(t, IF Withdrawn(t) THEN "withdrawn" ELSE "skipped")
           ELSE Goes(t, "done") /\ Rewrite(t) /\ UNCHANGED <<aborted, armed, registry>>
  /\ UNCHANGED <<comp, issued, open, epoch>>

(* compileSchemas rejected: reported, and the tool is not offered. *)
CompileFails(t) ==
  /\ task[t].pc = "compiling"
  /\ GiveUp(t, "failed")
  /\ UNCHANGED <<comp, issued, open, epoch>>

(* It resolved.  Only an enqueue asks about the provider again. *)
Compiled(t) ==
  /\ task[t].pc = "compiling"
  /\ \/ Withdrawn(t) /\ GiveUp(t, "withdrawn")
     \/ /\ ~Withdrawn(t) /\ task[t].kind = "enqueue" /\ task[t].at # epoch
        /\ GiveUp(t, "skipped")
     \/ /\ ~Withdrawn(t) /\ (task[t].kind = "replace" \/ task[t].at = epoch)
        /\ Goes(t, "resolving") /\ UNCHANGED tools
  /\ UNCHANGED <<comp, issued, open, epoch>>

(* registry.registerTool, on a registry that looks like r. *)
RegisterTool(t, r) ==
  IF r[task[t].name] = Nobody
  THEN Goes(t, "registering") /\ registry' = [r EXCEPT ![task[t].name] = t]
  ELSE Goes(t, "refused") /\ registry' = r

(* register: the registry is resolved, the name is taken or refused. *)
Register(t) ==
  /\ task[t].pc = "resolving" /\ task[t].kind = "enqueue"
  /\ IF Withdrawn(t) THEN Goes(t, "withdrawn") /\ UNCHANGED registry
     ELSE RegisterTool(t, registry)
  /\ UNCHANGED <<comp, issued, aborted, armed, record, open, epoch>>

(* replaceRegistration: the abort of the previous controller and the        *)
(* registration happen in one turn, unless the replacement is withdrawn.    *)
Replace(t) ==
  /\ task[t].pc = "resolving" /\ task[t].kind = "replace"
  /\ IF Withdrawn(t) THEN Goes(t, "overtaken") /\ UNCHANGED tools
     ELSE /\ aborted' = aborted \cup ({task[t].of} \ {Nobody})
          /\ record' = Cleared(task[t].of)
          /\ RegisterTool(t, IF task[t].of = Nobody THEN registry ELSE Without(task[t].of))
          /\ UNCHANGED armed
  /\ UNCHANGED <<comp, issued, open, epoch>>

OwnEntry(t) == [controller |-> t, permissions |-> task[t].permissions]

(* Faulty Record: does not ask whether the registration was withdrawn.      *)
RecordUnasked(t) ==
  /\ task[t].pc = "registering"
  /\ record' = [record EXCEPT ![task[t].name] = OwnEntry(t)]
  /\ armed' = armed \cup {t}
  /\ Goes(t, "done")
  /\ UNCHANGED <<comp, issued, aborted, registry, open, epoch>>

(* registerTool resolved: the entry is added, and removed again at once if  *)
(* the registration was withdrawn meanwhile.                                *)
Record(t) ==
  /\ task[t].pc = "registering"
  /\ IF t \in aborted
     THEN record' = [record EXCEPT ![task[t].name] = NoEntry]
          /\ Goes(t, "withdrawn") /\ UNCHANGED armed
     ELSE record' = [record EXCEPT ![task[t].name] = OwnEntry(t)]
          /\ Goes(t, "done") /\ armed' = armed \cup {t}
  /\ UNCHANGED <<comp, issued, aborted, registry, open, epoch>>

-----------------------------------------------------------------------------
(***************************************************************************)
(* The components.                                                         *)
(***************************************************************************)
NewTask(kind, n, held, of, p) ==
  [kind |-> kind, name |-> n, held |-> held, of |-> of, permissions |-> p,
   at |-> epoch, pc |-> "queued"]

Issue(new) ==
  /\ issued < MaxTasks
  /\ issued' = issued + 1
  /\ task' = [t \in 1..(issued + 1) |-> IF t = issued + 1 THEN new ELSE task[t]]

(* The mounting effect.  A reserved name is refused before anything is queued. *)
Mount(i, n, p) ==
  /\ ~Mounted(i)
  /\ IF n \in Reserved THEN UNCHANGED <<issued, task>>
     ELSE Issue(NewTask("enqueue", n, {n}, Nobody, p))
  /\ comp' = [comp EXCEPT ![i] = [name |-> n, permissions |-> p, due |-> None,
                                  controller |-> IF n \in Reserved THEN Nobody ELSE issued + 1]]
  /\ UNCHANGED <<tools, open, epoch>>

(* The refresh effect, a layout effect: the permissions moved in a render   *)
(* that says n, and the descriptor (d = n) or nothing else (d = None) did.  *)
Permit(i, n, d, p) ==
  /\ Mounted(i) /\ comp[i].due = None /\ p # comp[i].permissions
  /\ d = n \/ (d = None /\ n = comp[i].name)
  /\ Issue(NewTask("refresh", n, {n}, comp[i].controller, p))
  /\ comp' = [comp EXCEPT ![i].permissions = p, ![i].due = d]
  /\ UNCHANGED <<tools, open, epoch>>

(* A render that says n has moved the descriptor, maybe to another name.    *)
Moved(i, n) == Mounted(i) /\ comp[i].due \in {None, n}

Declares(i, n) ==
  comp' = [comp EXCEPT ![i].name = n, ![i].controller = issued + 1, ![i].due = None]

(* Faulty Change: a rename is chained on its new name only.                 *)
ChangeHoldingNewName(i, n) ==
  /\ Moved(i, n) /\ n \notin Reserved
  /\ Issue(NewTask("replace", n, {n}, comp[i].controller, comp[i].permissions))
  /\ Declares(i, n)
  /\ UNCHANGED <<tools, open, epoch>>

(* The change effect, a passive one, so after the same render's refresh.    *)
Change(i, n) ==
  /\ Moved(i, n) /\ n \notin Reserved
  /\ Issue(NewTask("replace", n, {n, comp[i].name}, comp[i].controller, comp[i].permissions))
  /\ Declares(i, n)
  /\ UNCHANGED <<tools, open, epoch>>

(* The same into a reserved name: refused, and the old tool withdrawn now.  *)
ChangeToReserved(i, n) ==
  /\ Moved(i, n) /\ n \in Reserved
  /\ Abort(comp[i].controller)
  /\ comp' = [comp EXCEPT ![i].name = n, ![i].controller = Nobody, ![i].due = None]
  /\ UNCHANGED <<issued, task, open, epoch>>

(* The mounting effect's cleanup; React flushes the effects due before.     *)
Unmount(i) ==
  /\ Mounted(i) /\ comp[i].due = None
  /\ Abort(comp[i].controller)
  /\ comp' = [comp EXCEPT ![i] = NotMounted]
  /\ UNCHANGED <<issued, task, open, epoch>>

-----------------------------------------------------------------------------
(***************************************************************************)
(* The provider, and the other scripts of the page.                        *)
(***************************************************************************)

(* Those waiting for availability(), told how it turned out. *)
Woken(pc) ==
  [t \in 1..issued |-> IF task[t].pc = "waiting" THEN [task[t] EXCEPT !.pc = pc] ELSE task[t]]

Open ==
  /\ ~open
  /\ open' = TRUE
  /\ task' = Woken("admitted")
  /\ UNCHANGED <<comp, issued, tools, epoch>>

(* Faulty Close: those already waiting are left to the next open.           *)
CloseKeepingWaiters ==
  /\ epoch < MaxEpoch
  /\ epoch' = epoch + 1
  /\ open' = FALSE
  /\ UNCHANGED <<comp, issued, task, tools>>

(* The provider's cleanup: on unmount, and when its server metadata change. *)
Close ==
  /\ epoch < MaxEpoch
  /\ epoch' = epoch + 1
  /\ open' = FALSE
  /\ task' = Woken("released")
  /\ UNCHANGED <<comp, issued, tools>>

(* Of reserved names nothing is asked of the registry, so none is contested. *)
ForeignTakes(n) ==
  /\ n \in Contested /\ registry[n] = Nobody
  /\ registry' = [registry EXCEPT ![n] = Foreign]
  /\ UNCHANGED <<comp, issued, task, aborted, armed, record, open, epoch>>

ForeignLeaves(n) ==
  /\ registry[n] = Foreign
  /\ registry' = [registry EXCEPT ![n] = Nobody]
  /\ UNCHANGED <<comp, issued, task, aborted, armed, record, open, epoch>>

-----------------------------------------------------------------------------
(* What the library continues by itself; a validator may never answer.      *)
Continue(t) ==
  Start(t) \/ Released(t) \/ Admitted(t) \/ Register(t) \/ Replace(t) \/ Record(t)

Work(t) == Continue(t) \/ CompileFails(t) \/ Compiled(t)

Render(i) ==
  \/ \E n \in Names, p \in Permissions : Mount(i, n, p)
  \/ \E n \in Names, d \in Names \cup {None}, p \in Permissions : Permit(i, n, d, p)
  \/ \E n \in Names : Change(i, n) \/ ChangeToReserved(i, n)
  \/ Unmount(i)

Next ==
  \/ \E t \in 1..issued : Work(t)
  \/ \E i \in Components : Render(i)
  \/ Open \/ Close
  \/ \E n \in Names : ForeignTakes(n) \/ ForeignLeaves(n)

(* The event loop continues every task whose promise has settled.  Nobody   *)
(* is obliged to mount, to open the gateway or to compile a schema.         *)
Fairness == \A t \in Tasks : WF_vars(t <= issued /\ Continue(t))

Spec == Init /\ [][Next]_vars /\ Fairness
-----------------------------------------------------------------------------
(***************************************************************************)
(* Properties                                                              *)
(***************************************************************************)

AtRest ==
  (\A t \in 1..issued : Settled(t)) /\ \A i \in Components : comp[i].due = None

(* The record never claims a name the registry does not hold for that very  *)
(* registration: the state the runtime reports as                           *)
(* MCP_REGISTRY_OWNERSHIP_DIVERGED is never one this library manufactures   *)
(* (one abort both withdraws the registration and clears the entry).        *)
RecordNeverDiverges ==
  \A n \in Names :
    record[n].controller # Nobody => registry[n] = record[n].controller

(* A registration of ours is never taken for another script's, except while *)
(* registerTool itself is settling: later the record holds its name too.    *)
OwnedOnceRegistered ==
  \A n \in Names :
    registry[n] \in Tasks =>
      record[n].controller = registry[n] \/ task[registry[n]].pc = "registering"

(* Work on one name is done one task at a time. *)
Active(t) == task[t].pc \in Stages \ {"queued"}

OneTaskPerName ==
  \A s, t \in 1..issued :
    (s # t /\ Active(s) /\ Active(t)) => task[s].held \cap task[t].held = {}

(* What an overtaken replacement left standing.                             *)
Stranded(c) == \E t \in 1..issued : task[t].pc = "overtaken" /\ task[t].of = c

(* Nothing is left behind: with no work pending, every name this library    *)
(* holds belongs to a mounted component that declares it now, or was        *)
(* stranded by an overtaken replacement (see GoneAtUnmount).                *)
NothingLeftBehind ==
  AtRest =>
    \A n \in Names :
      registry[n] \in Tasks =>
        \/ \E i \in Components :
             comp[i].name = n /\ comp[i].controller = registry[n]
        \/ Stranded(registry[n])

(* The tasks a component's present declaration depends on. *)
Mine(i) == {t \in 1..issued : Own(t) = comp[i].controller}

(* What was asked for is what is offered: with no work pending, a component *)
(* whose present declaration and later permissions were all carried out is  *)
(* in the registry and in the record, under the permissions it declares.    *)
Converges ==
  AtRest =>
    \A i \in Components :
      (Mounted(i) /\ comp[i].controller # Nobody
         /\ \A t \in Mine(i) : task[t].pc = "done")
      => /\ registry[comp[i].name] = comp[i].controller
         /\ record[comp[i].name] = [controller  |-> comp[i].controller,
                                    permissions |-> comp[i].permissions]

(* No spurious refusal: a name is refused only while another script or a    *)
(* live registration holds it that no earlier task was to withdraw (the     *)
(* strict-mode trap the gateway exists for), unless it was stranded.        *)
RefusalIsGenuine ==
  [][\A t \in 1..issued :
       (task[t].pc # "refused" /\ task'[t].pc = "refused") =>
         LET holder == registry'[task[t].name] IN
         \/ holder = Foreign
         \/ Stranded(holder)
         \/ holder \notin aborted /\ ~\E s \in 1..(t - 1) : task[s].kind = "replace" /\ task[s].of = holder]_vars

(* The chains do not block: whatever is owed while a provider is there, or to  *)
(* one that has gone, has at the head of its chains a task that can go on,     *)
(* waiting neither for a provider nor for another task, where it would hold    *)
(* the name's chain "for the life of the page" (registration.ts).             *)
SomeTaskCanGo ==
  \A t \in 1..issued : (~Settled(t) /\ (open \/ task[t].at # epoch)) =>
    \E s \in 1..t : ~Settled(s) /\ Ready(s) /\ task[s].pc # "waiting"

(* Work queued for a provider that has gone is over, and waits for no later *)
(* provider: it settles, unless a validator is holding up its chain.        *)
EndedProviderOwesNothing ==
  \A t \in Tasks :
    (t <= issued /\ task[t].at # epoch)
      ~> (t <= issued /\ (Settled(t) \/ \E s \in 1..issued : task[s].pc = "compiling"))

(* docs/design.md: a tool stops being callable at unmount; the tool set     *)
(* always describes the mounted application.                                *)
GoneAtUnmount ==
  AtRest =>
    \A n \in Names :
      registry[n] \in Tasks => \E i \in Components :
        Mounted(i) /\ comp[i].controller = registry[n]

=============================================================================
