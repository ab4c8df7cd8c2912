--------------------------- MODULE DeclaredTools ---------------------------
(***************************************************************************)
(* Tools declared outside React: the module-scope queue of declarations     *)
(* (src/actions/queue.ts), its handles (src/actions/index.ts), and the      *)
(* provider that adopts it, serves each declaration through its own         *)
(* registration gateway and releases it (src/react/provider.tsx).           *)
(*                                                                         *)
(* The gateway, the registry and the ownership record are those of          *)
(* RegistrationGateway, without a component and without another script: a   *)
(* name is refused to a declaration because another declaration holds it.   *)
(* Of the providers that follow one another the model has one, whose effect *)
(* is rebuilt.                                                              *)
(***************************************************************************)
EXTENDS Naturals, FiniteSets

CONSTANTS
  Names, Permissions, None, MaxTasks, MaxEpoch,   \* the gateway's
  MaxDeclared   \* bound on the declarations made

VARIABLES
  made,        \* declarations made so far: they are numbered in that order
  declared,    \* those not removed
  definition,  \* what each of them declares
  served,      \* servedDeclarations: what each is served as
  registered,  \* those whose handle says so
  told,        \* tasks whose continuation has run
  issuer,      \* history: the declaration of each task
  issued, task, aborted, armed, registry, record, open, epoch   \* the gateway's

Gateway ==
  INSTANCE RegistrationGateway WITH
    Components <- {}, Reserved <- {}, Foreign <- None, Contested <- {}, comp <- <<>>

queue   == <<made, declared, definition, served, registered>>
tools   == <<aborted, armed, registry, record>>
gateway == <<issued, task, tools, open, epoch>>
vars    == <<queue, told, issuer, gateway>>

Declarations == 1..MaxDeclared

Definition == [name : Names, permissions : Permissions]

Served == [name : Names, permissions : Permissions, controller : 1..MaxTasks]

ASSUME DeclarationAssumption ==
  /\ MaxTasks \in Nat /\ MaxEpoch \in Nat /\ MaxDeclared \in Nat
  /\ None \notin Names \cup Nat /\ None \notin Definition \cup Served

(* Exactly the declarations of the mounted provider are served. *)
TypeOK ==
  /\ made \in 0..MaxDeclared
  /\ declared \subseteq 1..made
  /\ definition \in [Declarations -> Definition \cup {None}]
  /\ served \in [Declarations -> Served \cup {None}]
  /\ \A d \in Declarations : served[d] # None <=> (open /\ d \in declared)
  /\ registered \subseteq 1..made
  /\ told \subseteq 1..issued
  /\ issuer \in [1..issued -> 1..made]

Init ==
  /\ made = 0
  /\ declared = {}
  /\ definition = [d \in Declarations |-> None]
  /\ served = [d \in Declarations |-> None]
  /\ registered = {}
  /\ told = {}
  /\ issuer = [t \in 1..0 |-> 0]
  /\ Gateway!Init

-----------------------------------------------------------------------------
(***************************************************************************)
(* The provider's side: registerDeclared and withdrawDeclared.             *)
(***************************************************************************)
Issues(d, new) ==
  /\ Gateway!Issue(new)
  /\ issuer' = [t \in 1..(issued + 1) |-> IF t = issued + 1 THEN d ELSE issuer[t]]
  /\ UNCHANGED <<told, tools, open, epoch>>

ServedAs(f, c) == [name |-> f.name, permissions |-> f.permissions, controller |-> c]

Enqueued(f) == Gateway!NewTask("enqueue", f.name, {f.name}, Gateway!Nobody, f.permissions)

(* The descriptor differs from what is served: withdraw and register.       *)
Replaces(d, f) ==
  /\ Issues(d, Gateway!NewTask("replace", f.name, {f.name, served[d].name},
                               served[d].controller, f.permissions))
  /\ served' = [served EXCEPT ![d] = ServedAs(f, issued + 1)]

(* Only the permissions do: refreshed.                                      *)
Refreshes(d, f) ==
  /\ Issues(d, Gateway!NewTask("refresh", f.name, {f.name}, served[d].controller, f.permissions))
  /\ served' = [served EXCEPT ![d].permissions = f.permissions]

(* Aborting every controller of C. *)
Withdraws(C) ==
  /\ aborted' = aborted \cup C
  /\ registry' = [n \in Names |-> IF registry[n] \in C THEN Gateway!Nobody ELSE registry[n]]
  /\ record' = [n \in Names |->
       IF \E c \in (C \cap armed) \ aborted : task[c].name = n THEN Gateway!NoEntry ELSE record[n]]
  /\ UNCHANGED armed

ControllersOf(D) == {served[d].controller : d \in D}

-----------------------------------------------------------------------------
(***************************************************************************)
(* The application's side: declare, redeclare and undeclare.  A name is     *)
(* never a reserved one: the handle refuses those before it gets here.      *)
(***************************************************************************)
Declare(f) ==
  /\ made < MaxDeclared
  /\ made' = made + 1
  /\ declared' = declared \cup {made'}
  /\ definition' = [definition EXCEPT ![made'] = f]
  /\ IF open
     THEN Issues(made', Enqueued(f)) /\ served' = [served EXCEPT ![made'] = ServedAs(f, issued + 1)]
     ELSE UNCHANGED <<served, told, issuer, gateway>>
  /\ UNCHANGED registered

(* update(): described says that something listed differs besides the name. *)
Redeclare(d, f, described) ==
  /\ d \in declared
  /\ definition' = [definition EXCEPT ![d] = f]
  /\ \/ ~open /\ UNCHANGED <<served, told, issuer, gateway>>
     \/ open /\ (described \/ f.name # served[d].name) /\ Replaces(d, f)
     \/ /\ open /\ ~described /\ f.name = served[d].name
        /\ f.permissions # served[d].permissions /\ Refreshes(d, f)
  /\ UNCHANGED <<made, declared, registered>>

(* remove(). *)
Undeclare(d) ==
  /\ d \in declared
  /\ declared' = declared \ {d}
  /\ definition' = [definition EXCEPT ![d] = None]
  /\ served' = [served EXCEPT ![d] = None]
  /\ registered' = registered \ {d}
  /\ IF open THEN Withdraws({served[d].controller}) ELSE UNCHANGED tools
  /\ UNCHANGED <<made, told, issuer, issued, task, open, epoch>>

-----------------------------------------------------------------------------
(***************************************************************************)
(* The provider comes and goes.                                            *)
(***************************************************************************)

(* The gateway opens and every declaration is enqueued, oldest first.       *)
Adopt ==
  /\ ~open /\ issued + Cardinality(declared) <= MaxTasks
  /\ LET Turn(d)  == issued + 1 + Cardinality({e \in declared : e < d})
         Whose(t) == CHOOSE d \in declared : Turn(d) = t
         total    == issued + Cardinality(declared)
     IN  /\ issued' = total
         /\ task' = [t \in 1..total |->
              IF t <= issued THEN Gateway!Woken("admitted")[t] ELSE Enqueued(definition[Whose(t)])]
         /\ issuer' = [t \in 1..total |-> IF t <= issued THEN issuer[t] ELSE Whose(t)]
         /\ served' = [d \in Declarations |->
              IF d \in declared THEN ServedAs(definition[d], Turn(d)) ELSE None]
  /\ open' = TRUE
  /\ UNCHANGED <<made, declared, definition, registered, told, tools, epoch>>

(* Faulty Release: only what is known to be registered is withdrawn.        *)
ReleaseRegistered ==
  /\ open /\ epoch < MaxEpoch
  /\ Withdraws(ControllersOf(declared \cap registered))
  /\ served' = [d \in Declarations |-> None]
  /\ registered' = registered \ declared
  /\ open' = FALSE
  /\ epoch' = epoch + 1
  /\ task' = Gateway!Woken("released")
  /\ UNCHANGED <<made, declared, definition, told, issuer, issued>>

(* Every declaration is withdrawn and kept, and the gateway closes.         *)
Release ==
  /\ open /\ epoch < MaxEpoch
  /\ Withdraws(ControllersOf(declared))
  /\ served' = [d \in Declarations |-> None]
  /\ registered' = registered \ declared
  /\ open' = FALSE
  /\ epoch' = epoch + 1
  /\ task' = Gateway!Woken("released")
  /\ UNCHANGED <<made, declared, definition, told, issuer, issued>>

-----------------------------------------------------------------------------
(***************************************************************************)
(* The gateway's work, and what follows it.                                *)
(***************************************************************************)
Resolved(t) == task[t].pc \in {"done", "withdrawn", "skipped", "overtaken"}

(* The promise of enqueue() or replace() resolved. *)
Tell(t) ==
  /\ t \in 1..issued \ told /\ Resolved(t) /\ task[t].kind # "refresh"
  /\ told' = told \cup {t}
  /\ registered' = registered \cup {issuer[t]}
  /\ UNCHANGED <<made, declared, definition, served, issuer, gateway>>

Work(t) == Gateway!Work(t) /\ UNCHANGED <<queue, told, issuer>>

Next ==
  \/ \E f \in Definition : Declare(f)
  \/ \E d \in Declarations, f \in Definition, described \in BOOLEAN : Redeclare(d, f, described)
  \/ \E d \in Declarations : Undeclare(d)
  \/ Adopt \/ Release
  \/ \E t \in 1..issued : Work(t) \/ Tell(t)

Spec == Init /\ [][Next]_vars

-----------------------------------------------------------------------------
(***************************************************************************)
(* Properties.                                                             *)
(***************************************************************************)
AtRest ==
  \A t \in 1..issued :
    Gateway!Settled(t) /\ (Resolved(t) /\ task[t].kind # "refresh" => t \in told)

(* A removed declaration and a provider that has gone leave nothing behind: *)
(* with no work pending, what this library holds is what a declaration is   *)
(* served as, or was stranded by an overtaken replacement (GoneAtUnmount).  *)
NothingServedIsLeft ==
  AtRest =>
    \A n \in Names :
      registry[n] \in Gateway!Tasks =>
        \/ \E d \in declared : served[d] # None /\ served[d].controller = registry[n]
        \/ Gateway!Stranded(registry[n])

(* A declaration survives its provider: with no work pending, one whose     *)
(* work was carried out is offered under the name and the permissions last  *)
(* declared, whichever of them were declared while no provider was there.   *)
DeclarationsConverge ==
  AtRest =>
    \A d \in declared :
      (open /\ \A t \in 1..issued : Gateway!Own(t) = served[d].controller => task[t].pc = "done")
      => /\ d \in registered
         /\ registry[definition[d].name] = served[d].controller
         /\ record[definition[d].name] = [controller  |-> served[d].controller,
                                          permissions |-> definition[d].permissions]

=============================================================================
