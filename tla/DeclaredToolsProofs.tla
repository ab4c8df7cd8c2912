------------------------ MODULE DeclaredToolsProofs -------------------------
(***************************************************************************)
(* DeclaredTools for any number of declarations, names and tasks.           *)
(*                                                                         *)
(* A declaration that is served is to the gateway what a mounted component   *)
(* is: it holds a controller, under a name and permissions. Page is the      *)
(* gateway with the declarations for components, and its invariant, proved   *)
(* in RegistrationGatewayProofs, carries over task by task; what is left is  *)
(* what a provider does to all of them at once when it comes and goes.       *)
(***************************************************************************)
EXTENDS DeclaredTools, FiniteSetTheorems, TLAPS

Holding ==
  [d \in Declarations |->
     IF served[d] = None
     THEN [name |-> None, permissions |-> None, controller |-> Gateway!Nobody, due |-> None]
     ELSE [name |-> served[d].name, permissions |-> served[d].permissions,
           controller |-> served[d].controller, due |-> None]]

Page ==
  INSTANCE RegistrationGatewayProofs WITH
    Components <- Declarations, Reserved <- {}, Foreign <- None, Contested <- {}, comp <- Holding

(* A declaration is served as it was last declared, by a task of its own;    *)
(* and once that task is known to have ended its handle says so.            *)
ServingInv ==
  /\ \A d \in declared : definition[d] \in Definition
  /\ \A d \in Declarations : served[d] # None =>
       /\ served[d].name = definition[d].name /\ served[d].permissions = definition[d].permissions
       /\ issuer[served[d].controller] = d
       /\ served[d].controller \in told => d \in registered

DeclaredInv == TypeOK /\ ServingInv /\ Page!PageInv

-----------------------------------------------------------------------------
(* The gateway of DeclaredTools is that of Page.                            *)
LEMMA SameWork ==
  ASSUME NEW t, Gateway!Work(t), UNCHANGED served
  PROVE  Page!Work(t)
<1>1. UNCHANGED Holding
      BY DEF Holding, Gateway!Nobody
<1> USE DEF Gateway!Goes, Page!Goes, Gateway!Nobody, Page!Nobody, Gateway!tools, Page!tools,
            Gateway!GiveUp, Page!GiveUp, Gateway!Abort, Page!Abort, Gateway!Cleared, Page!Cleared,
            Gateway!Without, Page!Without, Gateway!NoEntry, Page!NoEntry,
            Gateway!Own, Page!Own, Gateway!Withdrawn, Page!Withdrawn
<1>2. CASE Gateway!Start(t)
      BY <1>1, <1>2 DEF Gateway!Start, Page!Start, Gateway!Ready, Page!Ready, Gateway!Settled, Page!Settled,
                   Gateway!Settlements, Page!Settlements, Page!Work, Page!Continue
<1>3. CASE Gateway!Released(t)
      BY <1>1, <1>3 DEF Gateway!Released, Page!Released, Page!Work, Page!Continue
<1>4. CASE Gateway!Admitted(t)
      BY <1>1, <1>4 DEF Gateway!Admitted, Page!Admitted, Gateway!Rewrite, Page!Rewrite,
                   Page!Work, Page!Continue
<1>5. CASE Gateway!Register(t)
      BY <1>1, <1>5 DEF Gateway!Register, Page!Register, Gateway!RegisterTool, Page!RegisterTool,
                   Page!Work, Page!Continue
<1>6. CASE Gateway!Replace(t)
      BY <1>1, <1>6 DEF Gateway!Replace, Page!Replace, Gateway!RegisterTool, Page!RegisterTool,
                   Page!Work, Page!Continue
<1>7. CASE Gateway!Record(t)
      BY <1>1, <1>7 DEF Gateway!Record, Page!Record, Gateway!OwnEntry, Page!OwnEntry,
                   Page!Work, Page!Continue
<1>8. CASE Gateway!CompileFails(t)
      BY <1>1, <1>8 DEF Gateway!CompileFails, Page!CompileFails, Page!Work
<1>9. CASE Gateway!Compiled(t)
      BY <1>1, <1>9 DEF Gateway!Compiled, Page!Compiled, Page!Work
<1> QED
    BY <1>2, <1>3, <1>4, <1>5, <1>6, <1>7, <1>8, <1>9 DEF Gateway!Work, Gateway!Continue

(* What a declaration holds, in the terms of its gateway.                   *)
LEMMA HoldingIs ==
  ASSUME TypeOK
  PROVE  /\ Holding \in [Declarations -> Page!CompRecord(Page!Controllers)]
         /\ \A d \in Declarations :
              /\ Holding[d].due = None
              /\ served[d] = None => Holding[d].name = None /\ Holding[d].controller = 0
              /\ served[d] # None => /\ Holding[d].name = served[d].name
                                     /\ Holding[d].permissions = served[d].permissions
                                     /\ Holding[d].controller = served[d].controller
                                     /\ served[d] \in Served /\ served[d].controller # 0
<1>1. \A d \in Declarations : served[d] # None => served[d] \in Served
      BY DEF TypeOK
<1> QED
    BY <1>1 DEF Holding, Served, Gateway!Nobody, Page!CompRecord, Page!Controllers, Page!Nobody, Page!Tasks

(* While a provider serves, a declaration that is not removed is served.     *)
LEMMA ServedWhileOpen ==
  ASSUME TypeOK, NEW d \in declared
  PROVE  /\ d \in Declarations
         /\ open <=> served[d] # None
         /\ open => served[d] \in Served
<1>1. d \in 1..made /\ made \in 0..MaxDeclared /\ MaxDeclared \in Nat
      BY DeclarationAssumption DEF TypeOK
<1> QED
    BY <1>1 DEF TypeOK, Declarations

(* A step of the gateway is one of Page.                                    *)
LEMMA PageKeeps ==
  ASSUME Page!PageInv,
         \/ \E t \in 1..issued : Page!Work(t)
         \/ \E d \in Declarations : Page!Render(d)
         \/ UNCHANGED <<Holding, gateway>>
  PROVE  Page!PageInv'
<1>1. [Page!Next]_(Page!vars)
      BY DEF Page!Next, Page!vars, gateway, tools
<1>2. Page!GatewayAssumption
      BY DeclarationAssumption DEF Page!GatewayAssumption
<1>3. Page!PageInv /\ [Page!Next]_(Page!vars) => Page!PageInv'
      BY <1>2, Page!PageStep
<1> QED
    BY <1>1, <1>3

LEMMA WorkKeepsPage ==
  ASSUME Page!PageInv, NEW t \in 1..issued, Work(t)
  PROVE  Page!PageInv'
<1>1. Page!Work(t)
      BY SameWork DEF Work, queue
<1> QED
    BY <1>1, PageKeeps

-----------------------------------------------------------------------------
(* One declaration at a time, the page is told as by a component.           *)
LEMMA DeclareKeepsPage ==
  ASSUME DeclaredInv, NEW f \in Definition, Declare(f)
  PROVE  Page!PageInv'
<1> DEFINE d == made + 1
<1>1. /\ Page!PageInv /\ TypeOK /\ d \in Declarations /\ served[d] = None
      BY DeclarationAssumption DEF DeclaredInv, Declare, TypeOK, Declarations
<1>2. CASE ~open
  <2>1. UNCHANGED <<served, gateway>>
        BY <1>2 DEF Declare
  <2>2. UNCHANGED Holding
        BY <2>1 DEF Holding, Gateway!Nobody
  <2> QED
      BY <1>1, <2>1, <2>2, PageKeeps
<1>3. CASE open
  <2> DEFINE s == ServedAs(f, issued + 1)
  <2>1. /\ Issues(d, Enqueued(f)) /\ served' = [served EXCEPT ![d] = s]
        /\ served \in [Declarations -> Served \cup {None}]
        BY <1>1, <1>3 DEF Declare, TypeOK
  <2>2. s # None /\ f.name \in Names /\ f.permissions \in Permissions
    <3>1. issued + 1 \in 1..MaxTasks /\ f.name \in Names /\ f.permissions \in Permissions
          BY <2>1, DeclarationAssumption
             DEF Issues, Gateway!Issue, Definition, DeclaredInv, Page!PageInv, Page!GatewayInv, Page!TypeOK
    <3>2. s \in Served
          BY <3>1 DEF ServedAs, Served
    <3> QED
        BY <3>1, <3>2, DeclarationAssumption
  <2>3. Holding' = [Holding EXCEPT ![d] = [name |-> f.name, permissions |-> f.permissions,
                                           due |-> None, controller |-> issued + 1]]
        BY <1>1, <2>1, <2>2 DEF Holding, ServedAs
  <2>4. Page!Mount(d, f.name, f.permissions)
        BY <1>1, <2>1, <2>3, HoldingIs
           DEF Page!Mount, Page!Mounted, Issues, Enqueued, Page!Issue, Gateway!Issue, Page!NewTask,
               Gateway!NewTask, Page!Nobody, Gateway!Nobody, tools, Page!tools
  <2> QED
      BY <1>1, <2>2, <2>4, PageKeeps DEF Page!Render
<1> QED
    BY <1>2, <1>3

(* A controller aborted by itself is aborted as Abort does it.              *)
LEMMA WithdrawsOne ==
  ASSUME TypeOK, Page!TypeOK, NEW c \in Page!Tasks, Withdraws({c})
  PROVE  Page!Abort(c)
<1>1. c # 0 /\ record \in [Names -> Page!Entry]
      BY DeclarationAssumption DEF Page!Tasks, Page!TypeOK
<1>2. registry' = Page!Without(c)
      BY DEF Withdraws, Page!Without, Gateway!Nobody, Page!Nobody
<1>3. record' = Page!Cleared(c)
      BY <1>1 DEF Withdraws, Page!Cleared, Gateway!NoEntry, Page!NoEntry, Gateway!Nobody, Page!Nobody
<1> QED
    BY <1>1, <1>2, <1>3 DEF Withdraws, Page!Abort, Page!Nobody

LEMMA UndeclareKeepsPage ==
  ASSUME DeclaredInv, NEW d \in Declarations, Undeclare(d)
  PROVE  Page!PageInv'
<1>1. /\ Page!PageInv /\ Page!TypeOK /\ TypeOK
      BY DEF DeclaredInv, Page!PageInv, Page!GatewayInv
<1>2. Holding' = [Holding EXCEPT ![d] = Page!NotMounted]
      BY <1>1 DEF Undeclare, TypeOK, Holding, Page!NotMounted, Gateway!Nobody, Page!Nobody
<1>3. CASE ~open
  <2>1. served[d] = None
        BY <1>1, <1>3 DEF TypeOK
  <2>2. UNCHANGED Holding
        BY <1>1, <1>2, <2>1 DEF Holding, Page!NotMounted, Gateway!Nobody, Page!Nobody
  <2> QED
      BY <1>1, <1>3, <2>2, PageKeeps DEF Undeclare, gateway, tools
<1>4. CASE open
  <2>1. /\ served[d] \in Served /\ served[d] # None /\ Withdraws({served[d].controller})
        BY <1>1, <1>4, HoldingIs DEF Undeclare, TypeOK
  <2>2. /\ served[d].controller \in Page!Tasks /\ Holding[d].controller = served[d].controller
        /\ Holding[d].name # None /\ Holding[d].due = None
        BY <1>1, <2>1, HoldingIs, DeclarationAssumption DEF Served, Page!Tasks
  <2>3. Page!Unmount(d)
        BY <1>1, <1>2, <2>1, <2>2, WithdrawsOne DEF Page!Unmount, Page!Mounted, Undeclare
  <2> QED
      BY <1>1, <2>3, PageKeeps DEF Page!Render
<1> QED
    BY <1>3, <1>4

(* A registration that another one replaces, under other permissions too.   *)
LEMMA ReplacingKeepsPage ==
  ASSUME DeclaredInv, open, NEW d \in declared, NEW f \in Definition, Replaces(d, f)
  PROVE  Page!PageInv'
<1> DEFINE new == Page!NewTask("replace", f.name, {f.name, served[d].name}, served[d].controller,
                               f.permissions)
           r   == [name |-> f.name, permissions |-> f.permissions, controller |-> issued + 1, due |-> None]
<1>1. /\ TypeOK /\ Page!GatewayInv /\ Page!OwnersInv /\ Page!PermissionsInv /\ Page!GatewayAssumption
      /\ d \in Declarations /\ served[d] # None /\ served[d] \in Served
      BY ServedWhileOpen, DeclarationAssumption DEF DeclaredInv, Page!PageInv, Page!GatewayAssumption
<1>2. /\ Page!Issue(new) /\ UNCHANGED <<tools, open, epoch>>
      /\ served' = [served EXCEPT ![d] = ServedAs(f, issued + 1)]
      BY DEF Replaces, Issues, Gateway!Issue, Page!Issue, Gateway!NewTask, Page!NewTask
<1>3. /\ issued \in 0..MaxTasks /\ issued < MaxTasks /\ epoch \in 0..MaxEpoch /\ MaxTasks \in Nat
      /\ \A e \in Declarations : Holding[e].controller \in 0..issued
      /\ f.name \in Names /\ f.permissions \in Permissions /\ served[d].name \in Names
      BY <1>1, <1>2, DeclarationAssumption
         DEF Page!GatewayInv, Page!TypeOK, Page!IssueInv, Page!Issue, Definition, Served
<1>4. /\ Holding[d].controller = served[d].controller /\ Holding[d].name = served[d].name
      /\ served[d].controller \in 0..issued
      BY <1>1, <1>3, HoldingIs
<1>5. Holding' = [Holding EXCEPT ![d] = r]
  <2>1. ServedAs(f, issued + 1) \in Served
        BY <1>3 DEF ServedAs, Served
  <2> QED
      BY <1>1, <1>2, <2>1, DeclarationAssumption DEF Holding, ServedAs, TypeOK
<1>6. /\ new \in Page!TaskRecord /\ new.pc = "queued" /\ new.kind = "replace" /\ new.name = f.name
      /\ new.held = {f.name, served[d].name} /\ new.of = served[d].controller
      /\ new.permissions = f.permissions
  <2>1. served[d].controller \in Page!Controllers
        BY <1>3, <1>4 DEF Page!Controllers, Page!Tasks, Page!Nobody
  <2> QED
      BY <1>3, <2>1 DEF Page!NewTask, Page!TaskRecord, Page!Stages
<1>7. r.controller = issued + 1 /\ r.name = f.name /\ r.permissions = f.permissions
      OBVIOUS
<1>8. Holding' \in [Declarations -> Page!CompRecord(0..(issued + 1))]
  <2>1. /\ Holding \in [Declarations -> Page!CompRecord(Page!Controllers)]
        /\ r \in Page!CompRecord(0..(issued + 1))
        BY <1>1, <1>3, HoldingIs DEF Page!CompRecord
  <2>2. \A e \in Declarations : Holding[e] \in Page!CompRecord(0..(issued + 1))
        BY <1>3, <2>1 DEF Page!CompRecord
  <2>3. Holding \in [Declarations -> Page!CompRecord(0..(issued + 1))]
        BY <2>1, <2>2
  <2> QED
      BY <1>5, <2>1, <2>3
<1> HIDE DEF new, r
<1>9. UNCHANGED <<Page!tools, open, epoch>>
      BY <1>2 DEF tools, Page!tools
<1>10. Page!GatewayInv'
       BY <1>1, <1>2, <1>4, <1>6, <1>8, <1>9, Page!IssueKeeps
<1>11. Page!Joins(new)
       BY <1>1, <1>2, <1>6, <1>9, Page!IssueJoins
<1>12. Page!OwnersInv'
       BY <1>1, <1>4, <1>5, <1>6, <1>7, <1>11, Page!DeclaringKeepsOwners
<1>13. Page!HeldInv /\ Page!AskedInv /\ Page!WrittenInv
       BY <1>1 DEF Page!OwnersInv, Page!PermissionsInv
<1>14. Page!AskedInv'
       BY <1>1, <1>5, <1>6, <1>7, <1>11, <1>13, Page!DeclaringKeepsAsked
<1>15. Page!WrittenInv'
       BY <1>1, <1>11, <1>13, Page!JoiningKeepsWritten
<1> QED
    BY <1>10, <1>12, <1>14, <1>15 DEF Page!PageInv, Page!PermissionsInv

LEMMA RedeclareKeepsPage ==
  ASSUME DeclaredInv, NEW d \in Declarations, NEW f \in Definition, NEW described \in BOOLEAN,
         Redeclare(d, f, described)
  PROVE  Page!PageInv'
<1>1. Page!PageInv /\ TypeOK /\ d \in declared
      BY DEF DeclaredInv, Redeclare
<1>2. CASE UNCHANGED <<served, told, issuer, gateway>>
  <2>1. UNCHANGED Holding
        BY <1>2 DEF Holding, Gateway!Nobody
  <2> QED
      BY <1>1, <1>2, <2>1, PageKeeps
<1>3. CASE open /\ Replaces(d, f)
      BY <1>1, <1>3, ReplacingKeepsPage
<1>4. CASE open /\ f.name = served[d].name /\ f.permissions # served[d].permissions /\ Refreshes(d, f)
  <2>1. /\ served[d] \in Served /\ served[d] # None /\ Holding[d].name = served[d].name
        /\ Holding[d].permissions = served[d].permissions /\ Holding[d].due = None
        /\ Holding[d].controller = served[d].controller
        BY <1>1, <1>4, ServedWhileOpen, HoldingIs
  <2>2. /\ f.name \in Names /\ f.permissions \in Permissions /\ f.name # None
        BY DeclarationAssumption DEF Definition
  <2>3. [served[d] EXCEPT !.permissions = f.permissions] \in Served
        BY <2>1, <2>2 DEF Served
  <2>4. /\ served' = [served EXCEPT ![d] = [served[d] EXCEPT !.permissions = f.permissions]]
        /\ served'[d] # None /\ \A e \in Declarations : e # d => served'[e] = served[e]
        /\ served'[d] = [served[d] EXCEPT !.permissions = f.permissions]
        BY <1>1, <1>4, <2>3, DeclarationAssumption DEF Refreshes, TypeOK
  <2>5. /\ served'[d].name = served[d].name /\ served'[d].controller = served[d].controller
        /\ served'[d].permissions = f.permissions
        BY <2>1, <2>4 DEF Served
  <2>6. Holding' = [Holding EXCEPT ![d].permissions = f.permissions, ![d].due = None]
        BY <2>1, <2>4, <2>5 DEF Holding
  <2>7. Page!Permit(d, f.name, None, f.permissions)
        BY <1>4, <2>1, <2>2, <2>6
           DEF Page!Permit, Page!Mounted, Refreshes, Issues, Gateway!Issue, Page!Issue,
               Gateway!NewTask, Page!NewTask, tools, Page!tools
  <2> QED
      BY <1>1, <2>2, <2>7, PageKeeps DEF Page!Render
<1> QED
    BY <1>2, <1>3, <1>4 DEF Redeclare

-----------------------------------------------------------------------------
(***************************************************************************)
(* The provider goes: all that is served is withdrawn in one turn.          *)
(***************************************************************************)

(* Those who waited are told; the tasks are otherwise as they were.          *)
LEMMA WokenKeepsTasks ==
  ASSUME Page!GatewayInv, NEW pc \in {"admitted", "released"}, NEW T,
         T = Gateway!Woken(pc)
  PROVE  /\ T \in [1..issued -> Page!TaskRecord]
         /\ \A t \in 1..issued :
              /\ T[t].kind = task[t].kind /\ T[t].name = task[t].name /\ T[t].held = task[t].held
              /\ T[t].of = task[t].of /\ T[t].permissions = task[t].permissions
              /\ task[t].pc # "waiting" => T[t] = task[t]
              /\ task[t].pc = "waiting" => T[t].pc = pc
<1>1. \A t \in 1..issued : task[t] \in Page!TaskRecord
      BY DEF Page!GatewayInv, Page!TypeOK
<1>2. \A t \in 1..issued : [task[t] EXCEPT !.pc = pc] \in Page!TaskRecord
      BY <1>1 DEF Page!TaskRecord, Page!Stages
<1>3. T \in [1..issued -> Page!TaskRecord]
      BY <1>1, <1>2 DEF Gateway!Woken
<1>4. \A t \in 1..issued : T[t] = IF task[t].pc = "waiting" THEN [task[t] EXCEPT !.pc = pc] ELSE task[t]
      BY DEF Gateway!Woken
<1> QED
    BY <1>1, <1>3, <1>4 DEF Page!TaskRecord

(* What is withdrawn: live registrations, and all that declarations hold.    *)
LEMMA ReleasedSet ==
  ASSUME DeclaredInv, open
  PROVE  LET C == ControllersOf(declared) IN
         /\ C \subseteq 1..issued /\ 0 \notin C
         /\ \A d \in Declarations : Holding[d].controller # 0 => Holding[d].controller \in C
<1>1. /\ TypeOK /\ Page!IssueInv
      /\ \A d \in Declarations : Holding[d].controller \in 0..issued
      BY DEF DeclaredInv, Page!PageInv, Page!GatewayInv, Page!IssueInv
<1>2. \A d \in declared : /\ d \in Declarations /\ Holding[d].controller = served[d].controller
                          /\ served[d].controller # 0
      BY <1>1, ServedWhileOpen, HoldingIs
<1>3. \A d \in Declarations : Holding[d].controller # 0 => d \in declared
      BY <1>1, HoldingIs DEF TypeOK
<1>4. \A c \in ControllersOf(declared) : c \in 1..issued
  <2> TAKE c \in ControllersOf(declared)
  <2>1. PICK d \in declared : c = served[d].controller
        BY DEF ControllersOf
  <2> QED
      BY <1>1, <1>2, <2>1
<1> QED
    BY <1>2, <1>3, <1>4 DEF ControllersOf

(* The tools agree on what is left.                                          *)
LEMMA WithdrawsKeepsTools ==
  ASSUME Page!GatewayInv, NEW C, C \subseteq 1..issued, Withdraws(C), issued' = issued,
         \A s \in 1..issued : task'[s].name = task[s].name,
         \A s \in 1..issued : task[s].pc \in {"registering", "done"} => task'[s] = task[s],
         \A s \in 1..issued : task'[s].pc = "registering" => task'[s] = task[s]
  PROVE  /\ Page!ToolsInv'
         /\ aborted' = aborted \cup C /\ aborted' \subseteq 1..issued /\ armed' = armed
         /\ registry' \in [Names -> Page!Controllers \cup {None}]
         /\ record' \in [Names -> Page!Entry]
         /\ \A c \in armed \ aborted' : record'[task[c].name] = record[task[c].name]
<1> USE DeclarationAssumption DEF Page!Nobody, Gateway!Nobody
<1>1. /\ registry \in [Names -> Page!Controllers \cup {None}] /\ record \in [Names -> Page!Entry]
      /\ aborted \subseteq 1..issued /\ armed \subseteq 1..issued
      /\ issued \in 0..MaxTasks /\ 1..issued \subseteq Page!Tasks /\ 0 \notin Page!Tasks
      /\ task \in [1..issued -> Page!TaskRecord]
      BY DEF Page!GatewayInv, Page!TypeOK, Page!IssueInv, Page!Tasks
<1>2. Page!HolderInv /\ Page!EntryInv /\ Page!ArmedInv /\ Page!SettlingInv
      BY DEF Page!GatewayInv, Page!ToolsInv
<1>3. /\ aborted' = aborted \cup C /\ armed' = armed
      /\ \A n \in Names : registry'[n] = IF registry[n] \in C THEN 0 ELSE registry[n]
      /\ \A n \in Names : record'[n] = IF \E c \in (C \cap armed) \ aborted : task[c].name = n
                                       THEN Page!NoEntry ELSE record[n]
      BY DEF Withdraws, Page!NoEntry, Gateway!NoEntry
<1>4. registry' \in [Names -> Page!Controllers \cup {None}]
      BY <1>1 DEF Withdraws, Page!Controllers
<1>5. record' \in [Names -> Page!Entry]
  <2>1. Gateway!NoEntry \in Page!Entry
        BY DEF Gateway!NoEntry, Page!Entry, Page!Controllers
  <2> QED
      BY <1>1, <2>1 DEF Withdraws
<1>6. ASSUME NEW c \in armed \ (aborted \cup C)
      PROVE  /\ registry'[task[c].name] = c /\ record'[task[c].name] = record[task[c].name]
             /\ record[task[c].name].controller = c
  <2>1. registry[task[c].name] = c /\ record[task[c].name].controller = c /\ task[c].name \in Names
        BY <1>1, <1>2, <1>6 DEF Page!ArmedInv, Page!TaskRecord
  <2>2. ~\E d \in (C \cap armed) \ aborted : task[d].name = task[c].name
        BY <1>2, <1>6, <2>1 DEF Page!ArmedInv
  <2> QED
      BY <1>3, <1>6, <2>1, <2>2
<1>7. Page!HolderInv'
  <2> SUFFICES ASSUME NEW n \in Names, registry'[n] \in Page!Tasks
               PROVE  /\ registry'[n] \in 1..issued /\ registry'[n] \notin aborted'
                      /\ task'[registry'[n]].name = n
                      /\ registry'[n] \in armed \/ task'[registry'[n]].pc = "registering"
      BY <1>3 DEF Page!HolderInv
  <2>1. registry'[n] = registry[n] /\ registry[n] \notin C
        BY <1>1, <1>3
  <2>2. /\ registry[n] \in 1..issued /\ registry[n] \notin aborted /\ task[registry[n]].name = n
        /\ registry[n] \in armed \/ task[registry[n]].pc = "registering"
        BY <1>2, <2>1 DEF Page!HolderInv
  <2> QED
      BY <1>3, <2>1, <2>2
<1>8. Page!EntryInv'
  <2> SUFFICES ASSUME NEW n \in Names, record'[n].controller # 0
               PROVE  /\ record'[n].controller \in armed \ (aborted \cup C)
                      /\ registry'[n] = record'[n].controller
      BY <1>3 DEF Page!EntryInv
  <2>1. record'[n] = record[n] /\ ~\E c \in (C \cap armed) \ aborted : task[c].name = n
        BY <1>3 DEF Page!NoEntry
  <2>2. record[n].controller \in armed \ aborted /\ registry[n] = record[n].controller
        BY <1>2, <2>1 DEF Page!EntryInv
  <2>3. task[record[n].controller].name = n
        BY <1>1, <1>2, <2>2 DEF Page!HolderInv
  <2> QED
      BY <1>3, <2>1, <2>2, <2>3
<1>9. Page!ArmedInv'
      BY <1>1, <1>2, <1>3, <1>6 DEF Page!ArmedInv
<1>10. Page!SettlingInv'
  <2> SUFFICES ASSUME NEW s \in 1..issued, task'[s].pc = "registering"
               PROVE  IF s \in aborted \cup C THEN registry'[task'[s].name] \notin Page!Tasks
                      ELSE registry'[task'[s].name] = s
      BY <1>3 DEF Page!SettlingInv
  <2>1. task'[s] = task[s] /\ task[s].name \in Names
        BY <1>1 DEF Page!TaskRecord
  <2>2. IF s \in aborted THEN registry[task[s].name] \notin Page!Tasks ELSE registry[task[s].name] = s
        BY <1>2, <2>1 DEF Page!SettlingInv
  <2> QED
      BY <1>1, <1>3, <2>1, <2>2
<1> QED
    BY <1>1, <1>3, <1>4, <1>5, <1>6, <1>7, <1>8, <1>9, <1>10 DEF Page!ToolsInv

LEMMA ReleaseKeepsPage ==
  ASSUME DeclaredInv, Release
  PROVE  Page!PageInv'
<1> DEFINE C == ControllersOf(declared)
<1>1. /\ TypeOK /\ Page!GatewayInv /\ Page!TypeOK /\ Page!ChainInv /\ Page!IssueInv
      /\ Page!KindInv /\ Page!LeavingInv /\ Page!OwnedInv /\ Page!HeldInv /\ Page!WrittenInv
      /\ task \in [1..issued -> Page!TaskRecord]
      BY DEF DeclaredInv, Page!PageInv, Page!GatewayInv, Page!OwnersInv, Page!PermissionsInv, Page!TypeOK
<1>2. /\ Withdraws(C) /\ task' = Gateway!Woken("released") /\ UNCHANGED issued
      /\ open' = FALSE /\ epoch' = epoch + 1 /\ epoch < MaxEpoch /\ open
      /\ served' = [d \in Declarations |-> None]
      BY DEF Release
<1>3. /\ C \subseteq 1..issued /\ 0 \notin C
      /\ \A d \in Declarations : Holding[d].controller # 0 => Holding[d].controller \in C
      BY <1>2, ReleasedSet
<1> HIDE DEF C
<1>4. /\ task' \in [1..issued -> Page!TaskRecord]
      /\ \A t \in 1..issued :
           /\ task'[t].kind = task[t].kind /\ task'[t].name = task[t].name /\ task'[t].held = task[t].held
           /\ task'[t].of = task[t].of /\ task'[t].permissions = task[t].permissions
           /\ task[t].pc # "waiting" => task'[t] = task[t]
           /\ task[t].pc = "waiting" => task'[t].pc = "released"
      BY <1>1, <1>2, WokenKeepsTasks
<1>5. Holding' = [d \in Declarations |-> Page!NotMounted]
      BY <1>2 DEF Holding, Page!NotMounted, Gateway!Nobody, Page!Nobody
<1>6. /\ Page!ToolsInv'
      /\ aborted' = aborted \cup C /\ aborted' \subseteq 1..issued /\ armed' = armed
      /\ registry' \in [Names -> Page!Controllers \cup {None}]
      /\ record' \in [Names -> Page!Entry]
      /\ \A c \in armed \ aborted' : record'[task[c].name] = record[task[c].name]
      BY <1>1, <1>2, <1>3, <1>4, WithdrawsKeepsTools
<1>7. Page!GatewayInv'
  <2>1. Page!NotMounted \in Page!CompRecord(Page!Controllers)
        BY DEF Page!NotMounted, Page!CompRecord, Page!Controllers
  <2>2. /\ 1..issued \subseteq Page!Tasks /\ epoch' \in 0..MaxEpoch
        BY <1>1, <1>2, DeclarationAssumption DEF Page!TypeOK, Page!Tasks
  <2>3. Page!TypeOK'
        BY <1>1, <1>2, <1>4, <1>5, <1>6, <2>1, <2>2 DEF Page!TypeOK
  <2>4. Page!ChainInv'
        BY <1>1, <1>2, <1>4 DEF Page!ChainInv, Page!Settled, Page!Settlements
  <2>5. Page!IssueInv'
        BY <1>1, <1>2, <1>4, <1>5, <1>6, DeclarationAssumption
           DEF Page!IssueInv, Page!NotMounted, Page!Nobody, Page!TypeOK
  <2> QED
      BY <1>6, <2>3, <2>4, <2>5 DEF Page!GatewayInv
<1>8. Page!OwnersInv'
  <2>1. Page!KindInv'
        BY <1>1, <1>2, <1>4, <1>6 DEF Page!KindInv
  <2>2. Page!LeavingInv'
    <3>1. \A t \in 1..issued : task[t].of \in 0..issued
          BY <1>1, DeclarationAssumption DEF Page!TypeOK, Page!TaskRecord, Page!Controllers, Page!Tasks, Page!Nobody
    <3> QED
        BY <1>1, <1>2, <1>4, <1>6, <3>1 DEF Page!LeavingInv, Page!Settled, Page!Settlements, Page!Nobody
  <2>3. Page!HeldInv'
        BY <1>5 DEF Page!HeldInv, Page!NotMounted
  <2>4. Page!OwnedInv'
        BY <1>1, <1>2, <1>3, <1>4, <1>6 DEF Page!OwnedInv
  <2> QED
      BY <2>1, <2>2, <2>3, <2>4 DEF Page!OwnersInv
<1>9. Page!PermissionsInv'
  <2>1. Page!AskedInv'
        BY <1>5 DEF Page!AskedInv, Page!NotMounted
  <2>2. \A c \in 1..issued : Page!Carried(c)' = Page!Carried(c)
        BY <1>2, <1>4 DEF Page!Carried, Page!Own
  <2>3. armed \subseteq 1..issued
        BY <1>1 DEF Page!IssueInv
  <2>4. \A c \in armed' \ aborted' :
           /\ c \in armed \ aborted /\ Page!Carried(c)' = Page!Carried(c) /\ task'[c].name = task[c].name
           /\ record'[task[c].name].permissions = record[task[c].name].permissions
           /\ \A t \in Page!Carried(c) : task'[t].permissions = task[t].permissions
        BY <1>4, <1>6, <2>2, <2>3 DEF Page!Carried
  <2>5. Page!GatewayAssumption
        BY DeclarationAssumption DEF Page!GatewayAssumption
  <2>6. Page!WrittenInv'
        BY <1>1, <2>4, <2>5, Page!WrittenStays
  <2> QED
      BY <2>1, <2>6 DEF Page!PermissionsInv
<1> QED
    BY <1>7, <1>8, <1>9 DEF Page!PageInv

-----------------------------------------------------------------------------
(***************************************************************************)
(* The provider comes: the declarations are enqueued in the order they were *)
(* made, one task each.                                                     *)
(***************************************************************************)
Earlier(D, d) == {e \in D : e < d}

(* Counting the earlier ones of D numbers its members from 0 on.             *)
LEMMA Ranking ==
  ASSUME NEW n \in Nat, NEW D \in SUBSET (1..n)
  PROVE  /\ IsFiniteSet(D) /\ Cardinality(D) \in Nat
         /\ \A d \in D : Cardinality(Earlier(D, d)) \in 0..(Cardinality(D) - 1)
         /\ \A d, e \in D : Cardinality(Earlier(D, d)) = Cardinality(Earlier(D, e)) => d = e
         /\ \A k \in 0..(Cardinality(D) - 1) : \E d \in D : Cardinality(Earlier(D, d)) = k
<1>1. IsFiniteSet(1..n)
      BY FS_Interval
<1>2. \A S \in SUBSET (1..n) : IsFiniteSet(S) /\ Cardinality(S) \in Nat
      BY <1>1, FS_Subset, FS_CardinalityType
<1>3. ASSUME NEW S \in SUBSET (1..n), NEW T \in SUBSET S, S # T
      PROVE  Cardinality(T) < Cardinality(S)
  <2>1. /\ IsFiniteSet(S) /\ Cardinality(T) \in Nat /\ Cardinality(S) \in Nat
        BY <1>2
  <2>2. Cardinality(T) <= Cardinality(S) /\ Cardinality(T) # Cardinality(S)
        BY <1>3, <2>1, FS_Subset
  <2> QED
      BY <2>1, <2>2
<1>4. \A d \in D : Earlier(D, d) \in SUBSET D /\ d \notin Earlier(D, d)
      BY DEF Earlier
<1>5. \A d \in D : Cardinality(Earlier(D, d)) \in 0..(Cardinality(D) - 1)
  <2> TAKE d \in D
  <2>1. Cardinality(Earlier(D, d)) < Cardinality(D)
        BY <1>3, <1>4
  <2> QED
      BY <1>2, <1>4, <2>1
<1>6. \A d, e \in D : d < e => Cardinality(Earlier(D, d)) < Cardinality(Earlier(D, e))
  <2>0. SUFFICES ASSUME NEW d \in D, NEW e \in D, d < e
                 PROVE  Cardinality(Earlier(D, d)) < Cardinality(Earlier(D, e))
      OBVIOUS
  <2>1. Earlier(D, d) \in SUBSET Earlier(D, e) /\ d \in Earlier(D, e) /\ d \notin Earlier(D, d)
    <3>1. d \in Int /\ e \in Int /\ \A c \in D : c \in Int
          OBVIOUS
    <3>2. \A c \in Earlier(D, d) : c \in Earlier(D, e)
          BY <2>0, <3>1 DEF Earlier
    <3>3. d \in Earlier(D, e) /\ d \notin Earlier(D, d)
          BY <2>0, <3>1 DEF Earlier
    <3> QED
        BY <3>2, <3>3
  <2> QED
      BY <1>3, <1>4, <2>1
<1>7. \A d, e \in D : Cardinality(Earlier(D, d)) = Cardinality(Earlier(D, e)) => d = e
  <2> SUFFICES ASSUME NEW d \in D, NEW e \in D,
                      Cardinality(Earlier(D, d)) = Cardinality(Earlier(D, e))
               PROVE  d = e
      OBVIOUS
  <2>1. Cardinality(Earlier(D, d)) \in Nat /\ Cardinality(Earlier(D, e)) \in Nat
        BY <1>2, <1>4
  <2>2. ~(d < e) /\ ~(e < d)
        BY <1>6, <2>1
  <2> QED
      BY <2>2
<1>8. \A k \in 0..(Cardinality(D) - 1) : \E d \in D : Cardinality(Earlier(D, d)) = k
  <2> DEFINE m == Cardinality(D)
             T == 0..(m - 1)
             f == [d \in D |-> Cardinality(Earlier(D, d))]
  <2>1. m \in Nat /\ IsFiniteSet(T) /\ Cardinality(T) = m
    <3>1. m \in Nat
          BY <1>2
    <3>2. 0 \in Int /\ m - 1 \in Int
          BY <3>1
    <3> HIDE DEF m
    <3>3. IsFiniteSet(T) /\ Cardinality(T) = IF 0 > m - 1 THEN 0 ELSE (m - 1) - 0 + 1
          BY <3>2, FS_Interval
    <3> QED
        BY <3>1, <3>3
  <2>2. f \in Injection(D, T)
    <3>1. f \in [D -> T] /\ \A d, e \in D : f[d] = f[e] => d = e
          BY <1>5, <1>7
    <3> HIDE DEF f, T
    <3> QED
        BY <3>1 DEF Injection, IsInjective
  <2>3. f \in Surjection(D, T)
        BY <2>1, <2>2, FS_Injection
  <2> QED
      BY <2>3 DEF Surjection
<1> QED
    BY <1>2, <1>5, <1>7, <1>8

(* The task of each declaration, and whose each task is.                    *)
Turn(d)  == issued + 1 + Cardinality(Earlier(declared, d))
Whose(t) == CHOOSE d \in declared : Turn(d) = t

LEMMA Turns ==
  ASSUME TypeOK, issued \in Nat
  PROVE  /\ Cardinality(declared) \in Nat
         /\ \A d \in declared : /\ Turn(d) \in (issued + 1)..(issued + Cardinality(declared))
                                /\ Whose(Turn(d)) = d
         /\ \A t \in (issued + 1)..(issued + Cardinality(declared)) :
              Whose(t) \in declared /\ Turn(Whose(t)) = t
<1> DEFINE N == Cardinality(declared)
<1>1. made \in Nat /\ declared \in SUBSET (1..made)
      BY DeclarationAssumption DEF TypeOK
<1>2. /\ N \in Nat
      /\ \A d \in declared : Cardinality(Earlier(declared, d)) \in 0..(N - 1)
      /\ \A d, e \in declared :
           Cardinality(Earlier(declared, d)) = Cardinality(Earlier(declared, e)) => d = e
      /\ \A k \in 0..(N - 1) : \E d \in declared : Cardinality(Earlier(declared, d)) = k
      BY <1>1, Ranking
<1> HIDE DEF N
<1>3. \A d \in declared : Turn(d) \in (issued + 1)..(issued + N)
      BY <1>2 DEF Turn
<1>4. \A d, e \in declared : Turn(d) = Turn(e) => d = e
  <2> SUFFICES ASSUME NEW d \in declared, NEW e \in declared, Turn(d) = Turn(e)
               PROVE  d = e
      OBVIOUS
  <2>1. /\ Cardinality(Earlier(declared, d)) \in Nat /\ Cardinality(Earlier(declared, e)) \in Nat
        BY <1>2
  <2>2. Cardinality(Earlier(declared, d)) = Cardinality(Earlier(declared, e))
        BY <2>1 DEF Turn
  <2> QED
      BY <1>2, <2>2
<1>5. \A t \in (issued + 1)..(issued + N) : \E d \in declared : Turn(d) = t
  <2> TAKE t \in (issued + 1)..(issued + N)
  <2>1. t - (issued + 1) \in 0..(N - 1)
        BY <1>2
  <2>2. PICK d \in declared : Cardinality(Earlier(declared, d)) = t - (issued + 1)
        BY <1>2, <2>1
  <2> QED
      BY <2>2 DEF Turn
<1>6. \A t \in (issued + 1)..(issued + N) : Whose(t) \in declared /\ Turn(Whose(t)) = t
      BY <1>5 DEF Whose
<1> QED
    BY <1>2, <1>3, <1>4, <1>6 DEF N

(* The state it leaves.                                                     *)
LEMMA AdoptFacts ==
  ASSUME DeclaredInv, Adopt
  PROVE  /\ issued \in Nat /\ issued' \in 0..MaxTasks /\ issued <= issued'
         /\ \A t \in 1..issued' : t \in 1..issued \/ t \in (issued + 1)..issued'
         /\ \A d \in declared : /\ Turn(d) \in (issued + 1)..issued' /\ Whose(Turn(d)) = d
                                /\ definition[d] \in Definition
         /\ \A t \in (issued + 1)..issued' :
              /\ Whose(t) \in declared /\ Turn(Whose(t)) = t
              /\ task'[t] = Enqueued(definition[Whose(t)]) /\ issuer'[t] = Whose(t)
         /\ \A t \in 1..issued : task'[t] = Gateway!Woken("admitted")[t] /\ issuer'[t] = issuer[t]
         /\ DOMAIN task' = 1..issued' /\ task' = [t \in 1..issued' |-> task'[t]]
         /\ issuer' = [t \in 1..issued' |-> issuer'[t]]
         /\ served' = [d \in Declarations |->
              IF d \in declared THEN ServedAs(definition[d], Turn(d)) ELSE None]
<1>1. TypeOK /\ issued \in Nat
      BY DeclarationAssumption DEF DeclaredInv, Page!PageInv, Page!GatewayInv, Page!TypeOK
<1> DEFINE N == Cardinality(declared)
<1>2. /\ issued' = issued + N /\ issued + N <= MaxTasks
      /\ task' = [t \in 1..(issued + N) |->
              IF t <= issued THEN Gateway!Woken("admitted")[t] ELSE Enqueued(definition[Whose(t)])]
      /\ issuer' = [t \in 1..(issued + N) |-> IF t <= issued THEN issuer[t] ELSE Whose(t)]
      /\ served' = [d \in Declarations |->
              IF d \in declared THEN ServedAs(definition[d], Turn(d)) ELSE None]
      BY Zenon DEF Adopt, Turn, Whose, Earlier
<1>3. /\ N \in Nat
      /\ \A d \in declared : Turn(d) \in (issued + 1)..(issued + N) /\ Whose(Turn(d)) = d
      /\ \A t \in (issued + 1)..(issued + N) : Whose(t) \in declared /\ Turn(Whose(t)) = t
      BY <1>1, Turns
<1> HIDE DEF N
<1>4. \A d \in declared : definition[d] \in Definition
      BY DEF DeclaredInv, ServingInv
<1>5. /\ issued' \in 0..MaxTasks /\ issued <= issued'
      /\ \A t \in 1..issued' : t \in 1..issued \/ t \in (issued + 1)..issued'
      BY <1>1, <1>2, <1>3, DeclarationAssumption
<1>6. \A t \in (issued + 1)..issued' : task'[t] = Enqueued(definition[Whose(t)]) /\ issuer'[t] = Whose(t)
      BY <1>1, <1>2, <1>3
<1>7. \A t \in 1..issued : task'[t] = Gateway!Woken("admitted")[t] /\ issuer'[t] = issuer[t]
      BY <1>1, <1>2, <1>3
<1>8. DOMAIN task' = 1..issued' /\ task' = [t \in 1..issued' |-> task'[t]]
      /\ issuer' = [t \in 1..issued' |-> issuer'[t]]
      BY <1>2
<1> QED
    BY <1>1, <1>2, <1>3, <1>4, <1>5, <1>6, <1>7, <1>8

LEMMA AdoptKeepsPage ==
  ASSUME DeclaredInv, Adopt
  PROVE  Page!PageInv'
<1> USE DeclarationAssumption DEF Page!Nobody
<1>1. /\ TypeOK /\ Page!GatewayInv /\ Page!TypeOK /\ Page!ChainInv /\ Page!IssueInv /\ Page!ToolsInv
      /\ Page!KindInv /\ Page!LeavingInv /\ Page!OwnedInv /\ Page!HeldInv /\ Page!WrittenInv
      /\ ~open /\ open' = TRUE /\ UNCHANGED <<aborted, armed, registry, record, epoch>>
      BY DEF DeclaredInv, Page!PageInv, Page!GatewayInv, Page!OwnersInv, Page!PermissionsInv, Adopt, tools
<1>2. /\ issued \in Nat /\ issued' \in 0..MaxTasks /\ issued <= issued' /\ issued' \in Nat
      /\ 1..issued \subseteq 1..issued' /\ issued + 1 > issued
      /\ \A t \in 1..issued' : t \in 1..issued \/ t \in (issued + 1)..issued'
      /\ \A t \in (issued + 1)..issued' : t \notin 1..issued /\ t \in 1..issued' /\ t # 0 /\ t \in Page!Tasks
  <2>1. /\ issued \in Nat /\ issued' \in 0..MaxTasks /\ issued <= issued'
        /\ \A t \in 1..issued' : t \in 1..issued \/ t \in (issued + 1)..issued'
        BY AdoptFacts
  <2> QED
      BY <2>1 DEF Page!Tasks
<1>3. \A d \in declared : /\ Turn(d) \in (issued + 1)..issued' /\ Whose(Turn(d)) = d /\ d \in Declarations
                          /\ definition[d] \in Definition
                          /\ definition[d].name \in Names /\ definition[d].permissions \in Permissions
      BY <1>1, AdoptFacts, ServedWhileOpen DEF Definition
<1>4. \A t \in 1..issued :
           /\ task'[t] \in Page!TaskRecord
           /\ task'[t].kind = task[t].kind /\ task'[t].name = task[t].name /\ task'[t].held = task[t].held
           /\ task'[t].of = task[t].of /\ task'[t].permissions = task[t].permissions
           /\ task[t].pc # "waiting" => task'[t] = task[t]
           /\ task[t].pc = "waiting" => task'[t].pc = "admitted"
           /\ task[t].of \in 0..issued /\ task[t].of < t
  <2>1. \A t \in 1..issued : task'[t] = Gateway!Woken("admitted")[t]
        BY AdoptFacts
  <2>2. \A t \in 1..issued : task[t].of < t /\ task[t].of \in 0..issued
    <3>1. \A t \in 1..issued : task[t].of < t /\ task[t].of \in Page!Controllers
          BY <1>1 DEF Page!TypeOK, Page!TaskRecord
    <3> QED
        BY <1>2, <3>1 DEF Page!Controllers, Page!Tasks
  <2>3. /\ Gateway!Woken("admitted") \in [1..issued -> Page!TaskRecord]
        /\ \A t \in 1..issued :
             LET T == Gateway!Woken("admitted")[t] IN
             /\ T.kind = task[t].kind /\ T.name = task[t].name /\ T.held = task[t].held
             /\ T.of = task[t].of /\ T.permissions = task[t].permissions
             /\ task[t].pc # "waiting" => T = task[t]
             /\ task[t].pc = "waiting" => T.pc = "admitted"
        BY <1>1, WokenKeepsTasks
  <2> QED
      BY <2>1, <2>2, <2>3
<1>5. \A t \in (issued + 1)..issued' :
           /\ Whose(t) \in declared /\ Turn(Whose(t)) = t
           /\ task'[t] \in Page!TaskRecord /\ task'[t].kind = "enqueue"
           /\ task'[t].name = definition[Whose(t)].name /\ task'[t].held = {task'[t].name}
           /\ task'[t].of = 0 /\ task'[t].pc = "queued"
           /\ task'[t].permissions = definition[Whose(t)].permissions
  <2> TAKE t \in (issued + 1)..issued'
  <2>1. Whose(t) \in declared /\ Turn(Whose(t)) = t /\ task'[t] = Enqueued(definition[Whose(t)])
        BY AdoptFacts
  <2>2. epoch \in 0..MaxEpoch /\ 0 \in Page!Controllers
        BY <1>1 DEF Page!TypeOK, Page!Controllers
  <2> QED
      BY <1>3, <2>1, <2>2
         DEF Enqueued, Gateway!NewTask, Gateway!Nobody, Page!TaskRecord, Page!Stages
<1>6. /\ \A d \in Declarations : Holding'[d].due = None
      /\ \A d \in declared : /\ Holding'[d].controller = Turn(d)
                             /\ Holding'[d].name = definition[d].name
                             /\ Holding'[d].permissions = definition[d].permissions
      /\ \A d \in Declarations : d \notin declared =>
                             Holding'[d].controller = 0 /\ Holding'[d].name = None
      /\ Holding' \in [Declarations -> Page!CompRecord(Page!Controllers)]
  <2>1. \A d \in Declarations :
           served'[d] = IF d \in declared THEN ServedAs(definition[d], Turn(d)) ELSE None
        BY AdoptFacts
  <2>2. \A d \in declared : ServedAs(definition[d], Turn(d)) \in Served
        BY <1>2, <1>3 DEF ServedAs, Served, Page!Tasks
  <2>3. \A d \in declared : /\ served'[d] # None /\ served'[d].name = definition[d].name
                            /\ served'[d].permissions = definition[d].permissions
                            /\ served'[d].controller = Turn(d)
    <3> TAKE d \in declared
    <3>1. served'[d] = ServedAs(definition[d], Turn(d)) /\ served'[d] \in Served
          BY <1>3, <2>1, <2>2
    <3>2. served'[d] # None
          BY <3>1
    <3> QED
        BY <3>1, <3>2 DEF ServedAs
  <2>4. \A d \in Declarations : Holding'[d] =
           IF served'[d] = None THEN Page!NotMounted
           ELSE [name |-> served'[d].name, permissions |-> served'[d].permissions,
                 controller |-> served'[d].controller, due |-> None]
        BY DEF Holding, Page!NotMounted, Gateway!Nobody
  <2>5. \A d \in declared : Turn(d) \in Page!Controllers
        BY <1>2, <1>3 DEF Page!Controllers
  <2>6. \A d \in declared :
           /\ Holding'[d] = [name |-> definition[d].name, permissions |-> definition[d].permissions,
                             controller |-> Turn(d), due |-> None]
           /\ Holding'[d] \in Page!CompRecord(Page!Controllers)
        BY <1>3, <2>3, <2>4, <2>5 DEF Page!CompRecord
  <2>7. \A d \in Declarations : d \notin declared => Holding'[d] = Page!NotMounted
        BY <2>1, <2>4
  <2>8. Page!NotMounted \in Page!CompRecord(Page!Controllers)
        BY DEF Page!NotMounted, Page!CompRecord, Page!Controllers
  <2>9. Holding' = [d \in Declarations |-> Holding'[d]]
        BY DEF Holding
  <2>10. Holding' \in [Declarations -> Page!CompRecord(Page!Controllers)]
         BY <2>6, <2>7, <2>8, <2>9
  <2>11. \A d \in declared : /\ Holding'[d].controller = Turn(d) /\ Holding'[d].name = definition[d].name
                             /\ Holding'[d].permissions = definition[d].permissions
                             /\ Holding'[d].due = None
    <3> TAKE d \in declared
    <3>1. Holding'[d] = [name |-> definition[d].name, permissions |-> definition[d].permissions,
                         controller |-> Turn(d), due |-> None]
          BY <2>6
    <3> QED
        BY <3>1
  <2>12. \A d \in Declarations : d \notin declared => /\ Holding'[d].controller = 0
                                                      /\ Holding'[d].name = None /\ Holding'[d].due = None
         BY <2>7 DEF Page!NotMounted
  <2> QED
      BY <2>10, <2>11, <2>12
<1>7. \A d \in Declarations : Holding[d].controller = 0
      BY <1>1, HoldingIs DEF TypeOK
<1>8. task' \in [1..issued' -> Page!TaskRecord]
  <2>1. task' = [t \in 1..issued' |-> task'[t]]
        BY AdoptFacts
  <2>2. \A t \in 1..issued' : task'[t] \in Page!TaskRecord
        BY <1>2, <1>4, <1>5
  <2> QED
      BY <2>1, <2>2
<1>9. Page!GatewayInv'
  <2>1. \A t \in 1..issued' : task'[t].of < t
        BY <1>2, <1>4, <1>5
  <2>2. Page!TypeOK'
        BY <1>1, <1>2, <1>6, <1>8, <2>1 DEF Page!TypeOK
  <2>3. Page!ChainInv'
    <3> SUFFICES ASSUME NEW s \in 1..issued', NEW t \in 1..issued', s < t,
                        task'[s].held \cap task'[t].held # {}, task'[t].pc # "queued"
                 PROVE  task'[s].pc \in Page!Settlements
        BY DEF Page!ChainInv, Page!Settled
    <3>1. t \in 1..issued /\ s \in 1..issued
          BY <1>2, <1>5
    <3>2. task[s].pc \in Page!Settlements
          BY <1>1, <1>4, <3>1 DEF Page!ChainInv, Page!Settled
    <3> QED
        BY <1>4, <3>1, <3>2 DEF Page!Settlements
  <2>4. Page!IssueInv'
    <3>1. \A t \in 1..issued' : task'[t].name \in task'[t].held
          BY <1>1, <1>2, <1>4, <1>5 DEF Page!IssueInv
    <3>2. \A d \in Declarations : Holding'[d].controller \in 0..issued'
          BY <1>2, <1>3, <1>6
    <3> QED
        BY <1>1, <1>2, <3>1, <3>2 DEF Page!IssueInv
  <2>5. Page!HolderInv'
        BY <1>1, <1>2, <1>4 DEF Page!ToolsInv, Page!HolderInv
  <2>6. Page!EntryInv'
        BY <1>1 DEF Page!ToolsInv, Page!EntryInv
  <2>7. Page!ArmedInv'
        BY <1>1, <1>4 DEF Page!ToolsInv, Page!ArmedInv, Page!IssueInv
  <2>8. Page!SettlingInv'
        BY <1>1, <1>2, <1>4, <1>5 DEF Page!ToolsInv, Page!SettlingInv
  <2> QED
      BY <2>2, <2>3, <2>4, <2>5, <2>6, <2>7, <2>8 DEF Page!GatewayInv, Page!ToolsInv
<1>10. armed \subseteq 1..issued /\ aborted \subseteq 1..issued
       BY <1>1 DEF Page!IssueInv
<1>11. Page!OwnersInv'
  <2>1. Page!KindInv'
        BY <1>1, <1>2, <1>4, <1>5, <1>10 DEF Page!KindInv
  <2>2. Page!LeavingInv'
    <3> SUFFICES ASSUME NEW t \in 1..issued', task'[t].kind = "replace", task'[t].of # 0
                 PROVE  /\ task'[task'[t].of].name \in task'[t].held
                        /\ (task'[t].pc \in Page!Settlements \/ task'[t].pc = "registering") =>
                             task'[t].of \in aborted \/ task'[t].pc = "overtaken"
        BY <1>1 DEF Page!LeavingInv, Page!Settled
    <3>1. t \in 1..issued /\ task[t].of \in 1..issued
          BY <1>2, <1>4, <1>5
    <3> QED
        BY <1>1, <1>4, <3>1 DEF Page!LeavingInv, Page!Settled, Page!Settlements
  <2>3. Page!HeldInv'
    <3> SUFFICES ASSUME NEW d \in Declarations, Holding'[d].controller # 0
                 PROVE  LET c == Holding'[d].controller IN
                        /\ c \notin aborted /\ task'[c].name = Holding'[d].name /\ task'[c].kind # "refresh"
                        /\ \A e \in Declarations : Holding'[e].controller = c => e = d
                        /\ \A t \in 1..issued' : task'[t].kind = "replace" => task'[t].of # c
        BY <1>1 DEF Page!HeldInv
    <3>1. d \in declared /\ Holding'[d].controller = Turn(d) /\ Turn(d) \in (issued + 1)..issued'
          BY <1>3, <1>6
    <3>2. /\ Turn(d) \notin aborted /\ Turn(d) \notin 0..issued
          BY <1>2, <1>10, <3>1
    <3>3. \A e \in Declarations : Holding'[e].controller = Turn(d) => e = d
          BY <1>2, <1>3, <1>6, <3>1
    <3>4. \A t \in 1..issued' : task'[t].of \in 0..issued
          BY <1>2, <1>4, <1>5
    <3> QED
        BY <1>3, <1>5, <1>6, <3>1, <3>2, <3>3, <3>4
  <2>4. Page!OwnedInv'
    <3> SUFFICES ASSUME NEW c \in 1..issued', task'[c].kind # "refresh", c \notin aborted
                 PROVE  \/ \E d \in Declarations : Holding'[d].controller = c
                        \/ \E t \in 1..issued' : task'[t].kind = "replace" /\ task'[t].of = c
        BY <1>1 DEF Page!OwnedInv
    <3>1. CASE c \in (issued + 1)..issued'
          BY <1>3, <1>5, <1>6, <3>1
    <3>2. CASE c \in 1..issued
      <4>1. PICK t \in 1..issued : task[t].kind = "replace" /\ task[t].of = c
            BY <1>1, <1>2, <1>4, <1>7, <3>2 DEF Page!OwnedInv
      <4> QED
          BY <1>2, <1>4, <4>1
    <3> QED
        BY <1>2, <3>1, <3>2
  <2> QED
      BY <2>1, <2>2, <2>3, <2>4 DEF Page!OwnersInv
<1>12. Page!PermissionsInv'
  <2> DEFINE Of(t) == IF task'[t].kind = "refresh" THEN task'[t].of ELSE t
  <2>1. Page!AskedInv'
    <3> SUFFICES ASSUME NEW d \in Declarations, Holding'[d].controller # 0
                 PROVE  /\ \E t \in 1..issued' :
                             /\ Of(t) = Holding'[d].controller
                             /\ task'[t].permissions = Holding'[d].permissions
                             /\ \A s \in 1..issued' : Of(s) = Holding'[d].controller => s <= t
                        /\ \A t \in 1..issued' :
                             Of(t) = Holding'[d].controller => task'[t].name = Holding'[d].name
        BY DEF Page!AskedInv, Page!Own
    <3>1. d \in declared /\ Holding'[d].controller = Turn(d) /\ Turn(d) \in (issued + 1)..issued'
          BY <1>3, <1>6
    <3>2. Turn(d) \in 1..issued' /\ Turn(d) \notin 0..issued /\ Turn(d) \in Nat
          BY <1>2, <3>1
    <3>3. \A s \in 1..issued' : Of(s) = Turn(d) <=> s = Turn(d)
          BY <1>2, <1>4, <1>5, <3>1, <3>2
    <3>4. task'[Turn(d)].permissions = definition[d].permissions /\ task'[Turn(d)].name = definition[d].name
          BY <1>3, <1>5, <3>1
    <3> HIDE DEF Of
    <3>5. \A s \in 1..issued' : Of(s) = Turn(d) => s <= Turn(d)
          BY <3>2, <3>3
    <3> QED
        BY <1>6, <3>1, <3>2, <3>3, <3>4, <3>5
  <2>2. \A c \in 1..issued : Page!Carried(c)' = Page!Carried(c)
    <3> TAKE c \in 1..issued
    <3>1. \A t \in 1..issued' :
            (Of(t) = c /\ task'[t].name = task'[c].name /\ task'[t].pc = "done")
            <=> t \in Page!Carried(c)
          BY <1>2, <1>4, <1>5 DEF Page!Carried, Page!Own
    <3>2. Page!Carried(c) \subseteq 1..issued'
          BY <1>2 DEF Page!Carried
    <3>3. Page!Carried(c)' = {t \in 1..issued' : Of(t) = c /\ task'[t].name = task'[c].name
                                                 /\ task'[t].pc = "done"}
          BY DEF Page!Carried, Page!Own
    <3> HIDE DEF Of
    <3> QED
        BY <3>1, <3>2, <3>3
  <2>3. \A c \in armed' \ aborted' :
           /\ c \in armed \ aborted /\ Page!Carried(c)' = Page!Carried(c) /\ task'[c].name = task[c].name
           /\ record'[task[c].name].permissions = record[task[c].name].permissions
           /\ \A t \in Page!Carried(c) : task'[t].permissions = task[t].permissions
        BY <1>1, <1>4, <1>10, <2>2 DEF Page!Carried
  <2>4. Page!GatewayAssumption
        BY DEF Page!GatewayAssumption
  <2>5. Page!WrittenInv'
        BY <1>1, <2>3, <2>4, Page!WrittenStays
  <2> QED
      BY <2>1, <2>5 DEF Page!PermissionsInv
<1> QED
    BY <1>9, <1>11, <1>12 DEF Page!PageInv

-----------------------------------------------------------------------------
(***************************************************************************)
(* The queue of declarations, and the steps put together.                   *)
(***************************************************************************)
QueueInv == TypeOK /\ ServingInv

(* Whatever is served is served by an issued task.                          *)
LEMMA ServedByIssued ==
  ASSUME DeclaredInv
  PROVE  /\ issued \in Nat /\ made \in Nat /\ issued <= MaxTasks
         /\ \A d \in Declarations : served[d] # None =>
              /\ served[d] \in Served /\ served[d].controller \in 1..issued
         /\ \A d \in declared : d \in Declarations /\ d \in 1..made /\ (open <=> served[d] # None)
<1>1. /\ TypeOK /\ issued \in 0..MaxTasks
      /\ \A d \in Declarations : Holding[d].controller \in 0..issued
      BY DEF DeclaredInv, Page!PageInv, Page!GatewayInv, Page!TypeOK, Page!IssueInv
<1>2. \A d \in Declarations : served[d] # None =>
         served[d] \in Served /\ served[d].controller # 0 /\ Holding[d].controller = served[d].controller
      BY <1>1, HoldingIs
<1>3. \A d \in declared : d \in Declarations /\ d \in 1..made /\ (open <=> served[d] # None)
      BY <1>1, ServedWhileOpen DEF TypeOK
<1> QED
    BY <1>1, <1>2, <1>3, DeclarationAssumption DEF TypeOK

(* A task is issued for d, which is served as s from then on.               *)
LEMMA IssuingKeepsQueue ==
  ASSUME DeclaredInv, NEW d \in Declarations, NEW f \in Definition, NEW new, Issues(d, new),
         open, served' = [served EXCEPT ![d] = ServedAs(f, issued + 1)],
         definition' = [definition EXCEPT ![d] = f], UNCHANGED registered,
         made' \in 0..MaxDeclared, made <= made',
         declared' = declared \cup {d}, d \in 1..made'
  PROVE  QueueInv'
<1> DEFINE s == ServedAs(f, issued + 1)
<1>1. /\ TypeOK /\ ServingInv
      /\ issued \in Nat /\ issued + 1 \in 1..MaxTasks /\ issued' = issued + 1 /\ UNCHANGED <<told, open>>
      /\ issuer' = [t \in 1..(issued + 1) |-> IF t = issued + 1 THEN d ELSE issuer[t]]
      BY ServedByIssued, DeclarationAssumption DEF DeclaredInv, Issues, Gateway!Issue
<1>2. /\ s \in Served /\ s # None /\ s.name = f.name /\ s.permissions = f.permissions
      /\ s.controller = issued + 1
  <2>1. s \in Served
        BY <1>1 DEF Definition, ServedAs, Served
  <2>2. s # None
        BY <2>1, DeclarationAssumption
  <2> QED
      BY <2>1, <2>2 DEF ServedAs
<1> HIDE DEF s
<1>3. /\ served'[d] = s /\ definition'[d] = f
      /\ \A e \in Declarations : e # d => served'[e] = served[e] /\ definition'[e] = definition[e]
      /\ issuer'[issued + 1] = d /\ \A t \in 1..issued : issuer'[t] = issuer[t]
      BY <1>1 DEF TypeOK, s
<1>4. TypeOK'
  <2>1. made \in Nat /\ 1..made \subseteq 1..made'
        BY DeclarationAssumption DEF DeclaredInv, TypeOK
  <2>2. declared' \subseteq 1..made' /\ registered' \subseteq 1..made'
        BY <1>1, <2>1 DEF TypeOK
  <2>3. definition' \in [Declarations -> Definition \cup {None}]
        BY <1>1 DEF TypeOK
  <2>4. served' \in [Declarations -> Served \cup {None}]
        BY <1>1, <1>2 DEF TypeOK, s
  <2>5. \A e \in Declarations : served'[e] # None <=> (open' /\ e \in declared')
        BY <1>1, <1>2, <1>3 DEF TypeOK
  <2>6. told' \subseteq 1..issued'
        BY <1>1 DEF TypeOK
  <2>7. issuer' \in [1..issued' -> 1..made']
        BY <1>1, <2>1 DEF TypeOK
  <2> QED
      BY <2>2, <2>3, <2>4, <2>5, <2>6, <2>7 DEF TypeOK
<1>5. ServingInv'
  <2>1. \A e \in declared' : definition'[e] \in Definition
        BY <1>1, <1>3, ServedByIssued DEF ServingInv
  <2>2. ASSUME NEW e \in Declarations, served'[e] # None
        PROVE  /\ served'[e].name = definition'[e].name
               /\ served'[e].permissions = definition'[e].permissions
               /\ issuer'[served'[e].controller] = e
               /\ served'[e].controller \in told' => e \in registered'
    <3>1. CASE e = d
          BY <1>1, <1>2, <1>3, <3>1 DEF TypeOK
    <3>2. CASE e # d
      <4>1. served[e] # None /\ served'[e] = served[e] /\ served[e].controller \in 1..issued
            BY <1>3, <2>2, <3>2, ServedByIssued
      <4>2. /\ definition'[e] = definition[e] /\ told' = told /\ registered' = registered
            /\ issuer'[served[e].controller] = issuer[served[e].controller]
            BY <1>1, <1>3, <3>2, <4>1
      <4>3. /\ served[e].name = definition[e].name /\ served[e].permissions = definition[e].permissions
            /\ issuer[served[e].controller] = e
            /\ served[e].controller \in told => e \in registered
            BY <1>1, <4>1 DEF ServingInv
      <4> QED
          BY <4>1, <4>2, <4>3
    <3> QED
        BY <3>1, <3>2
  <2> QED
      BY <2>1, <2>2 DEF ServingInv
<1> QED
    BY <1>4, <1>5 DEF QueueInv

LEMMA DeclareKeepsQueue ==
  ASSUME DeclaredInv, NEW f \in Definition, Declare(f)
  PROVE  QueueInv'
<1> DEFINE d == made + 1
<1>1. /\ TypeOK /\ ServingInv /\ d \in Declarations /\ d \in 1..made' /\ made' \in 0..MaxDeclared
      /\ made \in Nat /\ made <= made' /\ d \notin 1..made /\ 1..made \subseteq 1..made'
      /\ declared' = declared \cup {d} /\ definition' = [definition EXCEPT ![d] = f]
      BY DeclarationAssumption DEF DeclaredInv, Declare, TypeOK, Declarations
<1>2. CASE open
      BY <1>1, <1>2, IssuingKeepsQueue DEF Declare
<1>3. CASE ~open
  <2>1. UNCHANGED <<served, registered, told, issuer, issued, open>>
        BY <1>3 DEF Declare, gateway
  <2>2. \A e \in Declarations : served[e] = None
        BY <1>1, <1>3 DEF TypeOK
  <2>3. TypeOK'
        BY <1>1, <1>3, <2>1, <2>2 DEF TypeOK
  <2>4. ServingInv'
        BY <1>1, <2>1, <2>2, ServedByIssued DEF ServingInv, TypeOK
  <2> QED
      BY <2>3, <2>4 DEF QueueInv
<1> QED
    BY <1>2, <1>3

LEMMA RedeclareKeepsQueue ==
  ASSUME DeclaredInv, NEW d \in Declarations, NEW f \in Definition, NEW described \in BOOLEAN,
         Redeclare(d, f, described)
  PROVE  QueueInv'
<1>1. /\ TypeOK /\ ServingInv /\ d \in declared /\ d \in 1..made
      /\ made \in 0..MaxDeclared /\ UNCHANGED <<made, declared, registered>> /\ made <= made'
      /\ declared' = declared \cup {d} /\ definition' = [definition EXCEPT ![d] = f]
      BY DeclarationAssumption DEF DeclaredInv, Redeclare, TypeOK
<1>2. /\ definition'[d] = f /\ \A e \in Declarations : e # d => definition'[e] = definition[e]
      /\ definition' \in [Declarations -> Definition \cup {None}]
      BY <1>1 DEF TypeOK
<1>3. CASE ~open /\ UNCHANGED <<served, told, issuer, gateway>>
  <2>1. UNCHANGED <<served, registered, told, issuer, issued, open>>
        BY <1>1, <1>3 DEF gateway
  <2>2. \A e \in Declarations : served[e] = None
        BY <1>1, <1>3 DEF TypeOK
  <2>3. TypeOK'
        BY <1>1, <1>2, <2>1 DEF TypeOK
  <2>4. ServingInv'
        BY <1>1, <1>2, <2>1, <2>2, ServedByIssued DEF ServingInv
  <2> QED
      BY <2>3, <2>4 DEF QueueInv
<1>4. CASE open /\ Replaces(d, f)
      BY <1>1, <1>4, IssuingKeepsQueue DEF Replaces
<1>5. CASE open /\ f.name = served[d].name /\ Refreshes(d, f)
  <2> DEFINE s == [served[d] EXCEPT !.permissions = f.permissions]
  <2>1. /\ issued \in Nat /\ issued' = issued + 1 /\ UNCHANGED <<told, open>>
        /\ issuer' = [t \in 1..(issued + 1) |-> IF t = issued + 1 THEN d ELSE issuer[t]]
        /\ served' = [served EXCEPT ![d] = s]
        BY <1>5, ServedByIssued DEF Refreshes, Issues, Gateway!Issue
  <2>2. served[d] # None /\ served[d] \in Served /\ served[d].controller \in 1..issued
        BY <1>1, <1>5, ServedByIssued
  <2>3. /\ s \in Served /\ s.name = f.name /\ s.permissions = f.permissions
        /\ s.controller = served[d].controller
    <3>1. f.permissions \in Permissions
          BY DEF Definition
    <3> QED
        BY <1>5, <2>2, <3>1 DEF Served
  <2>4. s # None
        BY <2>3, DeclarationAssumption
  <2> HIDE DEF s
  <2>5. /\ served'[d] = s /\ \A e \in Declarations : e # d => served'[e] = served[e]
        /\ \A t \in 1..issued : issuer'[t] = issuer[t]
        /\ served' \in [Declarations -> Served \cup {None}] /\ issuer' \in [1..issued' -> 1..made']
        BY <1>1, <2>1, <2>3 DEF TypeOK
  <2>6. TypeOK'
        BY <1>1, <1>2, <1>5, <2>1, <2>4, <2>5 DEF TypeOK
  <2>7. ServingInv'
    <3>1. \A e \in declared' : definition'[e] \in Definition
          BY <1>1, <1>2, ServedByIssued DEF ServingInv
    <3>2. ASSUME NEW e \in Declarations, served'[e] # None
          PROVE  /\ served'[e].name = definition'[e].name
                 /\ served'[e].permissions = definition'[e].permissions
                 /\ issuer'[served'[e].controller] = e
                 /\ served'[e].controller \in told' => e \in registered'
      <4>1. CASE e = d
            BY <1>1, <1>2, <2>1, <2>2, <2>3, <2>5, <4>1 DEF ServingInv
      <4>2. CASE e # d
        <5>1. served[e] # None /\ served'[e] = served[e] /\ served[e].controller \in 1..issued
              BY <2>5, <3>2, <4>2, ServedByIssued
        <5>2. /\ definition'[e] = definition[e] /\ told' = told /\ registered' = registered
              /\ issuer'[served[e].controller] = issuer[served[e].controller]
              BY <1>1, <1>2, <2>1, <2>5, <4>2, <5>1
        <5>3. /\ served[e].name = definition[e].name /\ served[e].permissions = definition[e].permissions
              /\ issuer[served[e].controller] = e
              /\ served[e].controller \in told => e \in registered
              BY <1>1, <5>1 DEF ServingInv
        <5> QED
            BY <5>1, <5>2, <5>3
      <4> QED
          BY <4>1, <4>2
    <3> QED
        BY <3>1, <3>2 DEF ServingInv
  <2> QED
      BY <2>6, <2>7 DEF QueueInv
<1> QED
    BY <1>3, <1>4, <1>5 DEF Redeclare

LEMMA UndeclareKeepsQueue ==
  ASSUME DeclaredInv, NEW d \in Declarations, Undeclare(d)
  PROVE  QueueInv'
<1>1. /\ TypeOK /\ ServingInv /\ d \in declared
      /\ declared' = declared \ {d} /\ definition' = [definition EXCEPT ![d] = None]
      /\ served' = [served EXCEPT ![d] = None] /\ registered' = registered \ {d}
      /\ UNCHANGED <<made, told, issuer, issued, task, open, epoch>>
      BY DEF DeclaredInv, Undeclare
<1>2. /\ served'[d] = None
      /\ \A e \in Declarations : e # d => served'[e] = served[e] /\ definition'[e] = definition[e]
      /\ definition' \in [Declarations -> Definition \cup {None}]
      /\ served' \in [Declarations -> Served \cup {None}]
      BY <1>1 DEF TypeOK
<1>3. TypeOK'
      BY <1>1, <1>2 DEF TypeOK
<1>4. ServingInv'
      BY <1>1, <1>2, ServedByIssued DEF ServingInv
<1> QED
    BY <1>3, <1>4 DEF QueueInv

LEMMA AdoptKeepsQueue ==
  ASSUME DeclaredInv, Adopt
  PROVE  QueueInv'
<1>1. /\ TypeOK /\ ServingInv /\ ~open /\ open' = TRUE
      /\ UNCHANGED <<made, declared, definition, registered, told>>
      BY DEF DeclaredInv, Adopt
<1>2. /\ issued \in Nat /\ issued' \in 0..MaxTasks /\ 1..issued \subseteq 1..issued'
      /\ \A t \in 1..issued' : t \in 1..issued \/ t \in (issued + 1)..issued'
      /\ \A t \in (issued + 1)..issued' : t \notin 1..issued /\ t \in 1..MaxTasks
      BY AdoptFacts, DeclarationAssumption
<1>3. \A d \in declared : /\ d \in Declarations /\ Turn(d) \in (issued + 1)..issued'
                          /\ definition[d] \in Definition /\ issuer'[Turn(d)] = d
      BY ServedByIssued, AdoptFacts
<1>4. \A d \in declared : /\ served'[d] \in Served /\ served'[d] # None
                          /\ served'[d].name = definition[d].name
                          /\ served'[d].permissions = definition[d].permissions
                          /\ served'[d].controller = Turn(d)
  <2> TAKE d \in declared
  <2>1. served'[d] = ServedAs(definition[d], Turn(d))
        BY <1>3, AdoptFacts
  <2>2. ServedAs(definition[d], Turn(d)) \in Served
        BY <1>2, <1>3 DEF ServedAs, Served, Definition
  <2>3. served'[d] # None
        BY <2>1, <2>2, DeclarationAssumption
  <2> QED
      BY <2>1, <2>2, <2>3 DEF ServedAs
<1>5. /\ \A d \in Declarations : d \notin declared => served'[d] = None
      /\ served' = [d \in Declarations |-> served'[d]]
      BY AdoptFacts
<1>6. issuer' \in [1..issued' -> 1..made']
  <2>1. issuer' = [t \in 1..issued' |-> issuer'[t]]
        BY AdoptFacts
  <2>2. \A t \in 1..issued : issuer'[t] \in 1..made
        BY <1>1, AdoptFacts DEF TypeOK
  <2>3. \A t \in (issued + 1)..issued' : issuer'[t] \in 1..made
        BY ServedByIssued, AdoptFacts
  <2> QED
      BY <1>1, <1>2, <2>1, <2>2, <2>3
<1>7. TypeOK'
  <2>1. served' \in [Declarations -> Served \cup {None}]
        BY <1>4, <1>5
  <2> QED
      BY <1>1, <1>2, <1>4, <1>5, <1>6, <2>1 DEF TypeOK
<1>8. ServingInv'
  <2>1. \A d \in declared : Turn(d) \notin told
        BY <1>1, <1>2, <1>3 DEF TypeOK
  <2> QED
      BY <1>1, <1>3, <1>4, <1>5, <2>1 DEF ServingInv
<1> QED
    BY <1>7, <1>8 DEF QueueInv

LEMMA ReleaseKeepsQueue ==
  ASSUME DeclaredInv, Release
  PROVE  QueueInv'
<1>1. /\ TypeOK /\ ServingInv /\ open' = FALSE /\ served' = [d \in Declarations |-> None]
      /\ registered' = registered \ declared
      /\ UNCHANGED <<made, declared, definition, told, issuer, issued>>
      BY DEF DeclaredInv, Release
<1>2. TypeOK'
      BY <1>1 DEF TypeOK
<1>3. ServingInv'
      BY <1>1 DEF ServingInv
<1> QED
    BY <1>2, <1>3 DEF QueueInv

LEMMA WorkKeepsQueue ==
  ASSUME DeclaredInv, NEW t \in 1..issued, Work(t) \/ Tell(t)
  PROVE  QueueInv'
<1>1. /\ TypeOK /\ ServingInv
      BY DEF DeclaredInv
<1>2. CASE Work(t)
  <2>1. UNCHANGED <<made, declared, definition, served, registered, told, issuer, issued, open>>
        BY <1>2 DEF Work, queue, Gateway!Work, Gateway!Continue, Gateway!Start, Gateway!Released,
           Gateway!Admitted, Gateway!Register, Gateway!Replace, Gateway!Record,
           Gateway!CompileFails, Gateway!Compiled
  <2>2. TypeOK'
        BY <1>1, <2>1 DEF TypeOK
  <2>3. ServingInv'
        BY <1>1, <2>1 DEF ServingInv
  <2> QED
      BY <2>2, <2>3 DEF QueueInv
<1>3. CASE Tell(t)
  <2>1. /\ UNCHANGED <<made, declared, definition, served, issuer, issued, open>>
        /\ told' = told \cup {t} /\ registered' = registered \cup {issuer[t]}
        BY <1>3 DEF Tell, gateway
  <2>2. issuer[t] \in 1..made
        BY <1>1 DEF TypeOK
  <2>3. TypeOK'
        BY <1>1, <2>1, <2>2 DEF TypeOK
  <2>4. ServingInv'
        BY <1>1, <2>1 DEF ServingInv
  <2> QED
      BY <2>3, <2>4 DEF QueueInv
<1> QED
    BY <1>2, <1>3

LEMMA DeclaredInit == Init => DeclaredInv
<1> SUFFICES ASSUME Init PROVE DeclaredInv
    OBVIOUS
<1>1. TypeOK
      BY DeclarationAssumption DEF Init, TypeOK, Gateway!Init
<1>2. ServingInv
      BY DEF Init, ServingInv
<1>3. Page!Init
      BY DEF Init, Gateway!Init, Page!Init, Holding, Page!NotMounted, Gateway!Nobody, Page!Nobody,
             Gateway!NoEntry, Page!NoEntry
<1>4. Page!GatewayAssumption
      BY DeclarationAssumption DEF Page!GatewayAssumption
<1> QED
    BY <1>1, <1>2, <1>3, <1>4, Page!PageInit DEF DeclaredInv

LEMMA DeclaredStep == DeclaredInv /\ [Next]_vars => DeclaredInv'
<1> SUFFICES ASSUME DeclaredInv, [Next]_vars PROVE QueueInv' /\ Page!PageInv'
    BY DEF QueueInv, DeclaredInv
<1>1. CASE UNCHANGED vars
  <2>1. UNCHANGED Holding
        BY <1>1 DEF vars, queue, Holding, Gateway!Nobody
  <2>2. UNCHANGED <<made, declared, definition, served, registered, told, issuer, issued, open, gateway>>
        BY <1>1 DEF vars, queue, gateway
  <2>3. Page!PageInv'
        BY <2>1, <2>2, PageKeeps DEF DeclaredInv
  <2>4. TypeOK'
        BY <2>2 DEF DeclaredInv, TypeOK
  <2>5. ServingInv'
        BY <2>2 DEF DeclaredInv, ServingInv
  <2> QED
      BY <2>3, <2>4, <2>5 DEF QueueInv
<1>2. ASSUME NEW f \in Definition, Declare(f) PROVE QueueInv' /\ Page!PageInv'
      BY <1>2, DeclareKeepsQueue, DeclareKeepsPage
<1>3. ASSUME NEW d \in Declarations, NEW f \in Definition, NEW described \in BOOLEAN,
             Redeclare(d, f, described)
      PROVE  QueueInv' /\ Page!PageInv'
      BY <1>3, RedeclareKeepsQueue, RedeclareKeepsPage
<1>4. ASSUME NEW d \in Declarations, Undeclare(d) PROVE QueueInv' /\ Page!PageInv'
      BY <1>4, UndeclareKeepsQueue, UndeclareKeepsPage
<1>5. CASE Adopt
      BY <1>5, AdoptKeepsQueue, AdoptKeepsPage
<1>6. CASE Release
      BY <1>6, ReleaseKeepsQueue, ReleaseKeepsPage
<1>7. ASSUME NEW t \in 1..issued, Work(t) PROVE QueueInv' /\ Page!PageInv'
      BY <1>7, WorkKeepsQueue, WorkKeepsPage DEF DeclaredInv
<1>8. ASSUME NEW t \in 1..issued, Tell(t) PROVE QueueInv' /\ Page!PageInv'
  <2>1. UNCHANGED <<served, gateway>>
        BY <1>8 DEF Tell
  <2>2. UNCHANGED Holding
        BY <2>1 DEF Holding, Gateway!Nobody
  <2> QED
      BY <1>8, <2>1, <2>2, WorkKeepsQueue, PageKeeps DEF DeclaredInv
<1> QED
    BY <1>1, <1>2, <1>3, <1>4, <1>5, <1>6, <1>7, <1>8 DEF Next

(* The invariant that the theorems below are read from: the declarations,   *)
(* what serves them, and the page's own invariant (actions/queue.ts,         *)
(* provider.tsx, registration.ts).                                          *)
THEOREM DeclaredCorrect == Spec => []DeclaredInv
<1> QED
    BY DeclaredInit, DeclaredStep, PTL DEF Spec

(* Type correctness, and that exactly the declarations of a provider that    *)
(* has not gone are served (provider.tsx, registerDeclared).                *)
THEOREM DeclaredTyped == Spec => []TypeOK
<1>1. DeclaredInv => TypeOK
      BY DEF DeclaredInv
<1> QED
    BY <1>1, DeclaredCorrect, PTL

(* With no work pending, what this library holds a declaration is served as, *)
(* or an overtaken replacement left (provider.tsx, withdrawDeclared).        *)
THEOREM NoDeclarationLeftBehind == Spec => []NothingServedIsLeft
<1>1. ASSUME DeclaredInv PROVE NothingServedIsLeft
  <2> SUFFICES ASSUME AtRest, NEW n \in Names, registry[n] \in Gateway!Tasks
               PROVE  \/ \E d \in declared : served[d] # None /\ served[d].controller = registry[n]
                      \/ Gateway!Stranded(registry[n])
      BY DEF NothingServedIsLeft
  <2>1. TypeOK /\ Page!PageInv /\ Page!GatewayAssumption
        BY <1>1, DeclarationAssumption DEF DeclaredInv, Page!GatewayAssumption
  <2>2. Page!AtRest
        BY <2>1, HoldingIs DEF AtRest, Page!AtRest, Gateway!Settled, Page!Settled,
                               Gateway!Settlements, Page!Settlements
  <2>3. Page!NothingLeftBehind
        BY <2>1, Page!PageLeavesNothing
  <2>4. registry[n] \in Page!Tasks /\ registry[n] # 0
        BY DeclarationAssumption DEF Gateway!Tasks, Page!Tasks
  <2>5. CASE \E d \in Declarations : Holding[d].name = n /\ Holding[d].controller = registry[n]
        BY <2>1, <2>4, <2>5, HoldingIs DEF TypeOK
  <2>6. CASE Page!Stranded(registry[n])
        BY <2>6 DEF Page!Stranded, Gateway!Stranded
  <2> QED
      BY <2>2, <2>3, <2>4, <2>5, <2>6 DEF Page!NothingLeftBehind
<1> QED
    BY <1>1, DeclaredCorrect, PTL

(* With no work pending, a declaration whose work was carried out is         *)
(* registered, and offered under the name and the permissions last declared, *)
(* through however many providers it lived (actions/queue.ts, provider.tsx). *)
THEOREM DeclarationsSurvive == Spec => []DeclarationsConverge
<1>1. ASSUME DeclaredInv PROVE DeclarationsConverge
  <2> SUFFICES ASSUME AtRest, NEW d \in declared, open,
                      \A t \in 1..issued : Gateway!Own(t) = served[d].controller => task[t].pc = "done"
               PROVE  /\ d \in registered
                      /\ registry[definition[d].name] = served[d].controller
                      /\ record[definition[d].name] = [controller  |-> served[d].controller,
                                                       permissions |-> definition[d].permissions]
      BY DEF DeclarationsConverge
  <2>1. TypeOK /\ ServingInv /\ Page!PageInv /\ Page!HeldInv /\ Page!GatewayAssumption
        BY <1>1, DeclarationAssumption
           DEF DeclaredInv, Page!PageInv, Page!OwnersInv, Page!GatewayAssumption
  <2>2. /\ d \in Declarations /\ served[d] # None /\ served[d].controller \in 1..issued
        /\ served[d] \in Served /\ served[d].name \in Names
        BY <1>1, ServedByIssued DEF Served
  <2>3. /\ Holding[d].name = definition[d].name /\ Holding[d].name # None
        /\ Holding[d].permissions = definition[d].permissions
        /\ Holding[d].controller = served[d].controller /\ Holding[d].controller # 0
        BY <2>1, <2>2, HoldingIs, DeclarationAssumption DEF ServingInv
  <2>4. d \in registered
    <3> DEFINE c == served[d].controller
    <3>1. task[c].kind # "refresh" /\ c \in 1..issued
          BY <2>1, <2>2, <2>3 DEF Page!HeldInv, Page!Nobody
    <3>2. task[c].pc = "done"
          BY <3>1 DEF Gateway!Own
    <3>3. c \in told
          BY <3>1, <3>2 DEF AtRest, Resolved
    <3> QED
        BY <2>1, <2>2, <3>3 DEF ServingInv
  <2>5. Page!AtRest
        BY <2>1, HoldingIs DEF AtRest, Page!AtRest, Gateway!Settled, Page!Settled,
                               Gateway!Settlements, Page!Settlements
  <2>6. Page!Converges
        BY <2>1, Page!PageConverges
  <2>7. \A t \in Page!Mine(d) : task[t].pc = "done"
        BY <2>3 DEF Page!Mine, Page!Own, Gateway!Own
  <2>8. /\ registry[Holding[d].name] = Holding[d].controller
        /\ record[Holding[d].name] = [controller  |-> Holding[d].controller,
                                      permissions |-> Holding[d].permissions]
        BY <2>2, <2>3, <2>5, <2>6, <2>7 DEF Page!Converges, Page!Mounted, Page!Nobody
  <2> QED
      BY <2>3, <2>4, <2>8
<1> QED
    BY <1>1, DeclaredCorrect, PTL

=============================================================================
