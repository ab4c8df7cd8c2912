--------------------- MODULE RegistrationGatewayProofs ---------------------
(***************************************************************************)
(* RegistrationGateway for any number of components, names and tasks: the   *)
(* ownership record and the registry agree on what this library holds; and, *)
(* at rest, what it holds is what mounted components declared last.         *)
(*                                                                         *)
(* The argument: work on a name is done in the order of issue (ChainInv),   *)
(* so nobody takes a name from under a registration that is settling; hence *)
(* an aborted one finds its name free of ours when it clears the record     *)
(* (ToolsInv), and one abort really does both withdraw and clear. Who owns  *)
(* what follows a controller from the effect that made it (OwnersInv), and  *)
(* under which permissions, from the effect that asked for them             *)
(* (PermissionsInv). DeclaredToolsProofs uses both, with declarations for    *)
(* components.                                                              *)
(***************************************************************************)
EXTENDS RegistrationGateway, WellFoundedInduction, TLAPS

(* The chains: whatever left the queue left it after every earlier task on  *)
(* one of its names had settled.                                            *)
ChainInv ==
  \A s, t \in 1..issued :
    (s < t /\ task[s].held \cap task[t].held # {} /\ task[t].pc # "queued") => Settled(s)

(* A task is put on the chain of its name; controllers are those issued.    *)
IssueInv ==
  /\ \A t \in 1..issued : task[t].name \in task[t].held
  /\ \A i \in Components : comp[i].controller \in 0..issued
  /\ aborted \subseteq 1..issued
  /\ armed \subseteq 1..issued

(* A held name is held for a live registration of that name ... *)
HolderInv ==
  \A n \in Names : registry[n] \in Tasks =>
    /\ registry[n] \in 1..issued /\ registry[n] \notin aborted
    /\ task[registry[n]].name = n
    /\ registry[n] \in armed \/ task[registry[n]].pc = "registering"

(* ... an entry belongs to the live registration that holds the name ...    *)
EntryInv ==
  \A n \in Names : record[n].controller # Nobody =>
    /\ record[n].controller \in armed \ aborted
    /\ registry[n] = record[n].controller

(* ... a live registration whose listener is armed has both ... *)
ArmedInv ==
  \A c \in armed :
    /\ task[c].pc = "done"
    /\ c \notin aborted =>
         registry[task[c].name] = c /\ record[task[c].name].controller = c

(* ... and one still settling has the name, or nobody of ours has it.       *)
SettlingInv ==
  \A t \in 1..issued : task[t].pc = "registering" =>
    IF t \in aborted THEN registry[task[t].name] \notin Tasks
    ELSE registry[task[t].name] = t

ToolsInv == HolderInv /\ EntryInv /\ ArmedInv /\ SettlingInv

GatewayInv == TypeOK /\ ChainInv /\ IssueInv /\ ToolsInv

-----------------------------------------------------------------------------
(* The initial state: nothing issued, nothing held.                         *)
LEMMA InitHolds == Init => GatewayInv
<1> SUFFICES ASSUME Init PROVE GatewayInv
    OBVIOUS
<1> USE GatewayAssumption DEF Init, CompRecord
<1>1. TypeOK
  <2>1. 1..0 = {} /\ issued = 0
        OBVIOUS
  <2>2. task \in [1..issued -> TaskRecord] /\ \A t \in 1..issued : task[t].of < t
        BY <2>1
  <2>3. comp \in [Components -> CompRecord(Controllers)]
        BY DEF NotMounted, Controllers
  <2>4. registry \in [Names -> Controllers \cup {Foreign}] /\ record \in [Names -> Entry]
        BY DEF NoEntry, Controllers, Entry
  <2>5. issued \in 0..MaxTasks /\ epoch \in 0..MaxEpoch
        OBVIOUS
  <2>6. open \in BOOLEAN /\ aborted \subseteq Tasks /\ armed \subseteq Tasks
        OBVIOUS
  <2> QED
      BY <2>2, <2>3, <2>4, <2>5, <2>6, Zenon DEF TypeOK
<1>2. ChainInv /\ IssueInv
      BY DEF ChainInv, IssueInv, NotMounted, Nobody
<1>3. ToolsInv
      BY DEF ToolsInv, HolderInv, EntryInv, ArmedInv, SettlingInv, NoEntry, Nobody, Tasks
<1> QED
    BY <1>1, <1>2, <1>3 DEF GatewayInv

(* A step of one task that neither starts nor ends its registration. *)
Quiet(t, pc) ==
  /\ t \in 1..issued
  /\ pc \in (Stages \cup Settlements) \ {"queued", "registering"}
  /\ task[t].pc \in Stages \ {"registering"}
  /\ task[t].pc = "queued" => Ready(t)
  /\ Goes(t, pc)
  /\ UNCHANGED <<comp, issued, open, epoch>>

(* A task that goes from one stage to another keeps what it was issued with. *)
LEMMA GoesKeepsTasks ==
  ASSUME task \in [1..issued -> TaskRecord], NEW t \in 1..issued,
         NEW pc \in Stages \cup Settlements, Goes(t, pc)
  PROVE  /\ task' \in [1..issued -> TaskRecord]
         /\ task'[t].pc = pc
         /\ \A s \in 1..issued : s # t => task'[s] = task[s]
         /\ \A s \in 1..issued : task'[s].name = task[s].name /\ task'[s].held = task[s].held
                                 /\ task'[s].kind = task[s].kind /\ task'[s].of = task[s].of
<1>1. task' = [task EXCEPT ![t] = [task[t] EXCEPT !.pc = pc]]
      BY DEF Goes
<1>2. task[t] \in TaskRecord
      OBVIOUS
<1>3. /\ [task[t] EXCEPT !.pc = pc] \in TaskRecord
      /\ [task[t] EXCEPT !.pc = pc].pc = pc
      /\ [task[t] EXCEPT !.pc = pc].name = task[t].name
      /\ [task[t] EXCEPT !.pc = pc].held = task[t].held
      /\ [task[t] EXCEPT !.pc = pc].kind = task[t].kind
      /\ [task[t] EXCEPT !.pc = pc].of = task[t].of
      BY <1>2 DEF TaskRecord
<1>4. task'[t] = [task[t] EXCEPT !.pc = pc] /\ \A s \in 1..issued : s # t => task'[s] = task[s]
      BY <1>1
<1>5. task' \in [1..issued -> TaskRecord]
      BY <1>1, <1>3
<1>6. QED
      BY <1>3, <1>4, <1>5

(* What such a step leaves of the tasks and of the chains.                  *)
LEMMA QuietKeepsTasks ==
  ASSUME GatewayInv, NEW t, NEW pc, Quiet(t, pc)
  PROVE  /\ task' \in [1..issued' -> TaskRecord]
         /\ \A s \in 1..issued' : task'[s].of < s
         /\ ChainInv'
         /\ \A s \in 1..issued : task'[s].name = task[s].name /\ task'[s].held = task[s].held
                                 /\ task'[s].kind = task[s].kind /\ task'[s].of = task[s].of
         /\ \A s \in 1..issued : s # t => task'[s] = task[s]
         /\ task'[t].pc = pc
<1> USE DEF GatewayInv, Quiet, Goes
<1>1. task' = [task EXCEPT ![t].pc = pc] /\ task \in [1..issued -> TaskRecord] /\ issued' = issued
      BY DEF TypeOK
<1>2. task' \in [1..issued -> TaskRecord]
      BY <1>1, GoesKeepsTasks
<1>3. \A s \in 1..issued : task'[s].name = task[s].name /\ task'[s].held = task[s].held
                           /\ task'[s].kind = task[s].kind /\ task'[s].of = task[s].of
      BY <1>1, GoesKeepsTasks
<1>4. (\A s \in 1..issued : s # t => task'[s] = task[s]) /\ task'[t].pc = pc
      BY <1>1, GoesKeepsTasks
<1>5. \A s \in 1..issued' : task'[s].of < s
      BY <1>1, <1>3 DEF TypeOK
<1>6. ChainInv'
  <2> SUFFICES ASSUME NEW s \in 1..issued, NEW u \in 1..issued,
                      s < u, task[s].held \cap task[u].held # {}, task'[u].pc # "queued"
               PROVE  task'[s].pc \in Settlements
      BY <1>1, <1>3 DEF ChainInv, Settled
  <2>1. task[s].pc \in Settlements
    <3>1. CASE u = t /\ task[t].pc = "queued"
          BY <3>1, <1>1 DEF Ready, Settled, TypeOK
    <3>2. CASE u # t \/ task[t].pc # "queued"
          BY <3>2, <1>4 DEF ChainInv, Settled
    <3> QED
        BY <3>1, <3>2
  <2>2. s # t
        BY <2>1 DEF Stages, Settlements
  <2> QED
      BY <2>1, <2>2, <1>4
<1> QED
    BY <1>1, <1>2, <1>3, <1>4, <1>5, <1>6

(* Such a step, with nothing withdrawn, changes nothing the tools depend on. *)
LEMMA QuietAlone ==
  ASSUME GatewayInv, NEW t, NEW pc, Quiet(t, pc), UNCHANGED tools
  PROVE  GatewayInv'
<1>1. /\ task' \in [1..issued' -> TaskRecord]
      /\ \A s \in 1..issued' : task'[s].of < s
      /\ ChainInv'
      /\ \A s \in 1..issued : task'[s].name = task[s].name /\ task'[s].held = task[s].held
      /\ \A s \in 1..issued : s # t => task'[s] = task[s]
      /\ task'[t].pc = pc
      BY QuietKeepsTasks
<1>2. UNCHANGED <<comp, issued, open, epoch, aborted, armed, registry, record>>
      BY DEF Quiet, tools
<1>3. TypeOK'
      BY <1>1, <1>2 DEF GatewayInv, TypeOK
<1>4. IssueInv'
      BY <1>1, <1>2 DEF GatewayInv, IssueInv
<1>5. task[t].pc # "registering" /\ task[t].pc # "done" /\ pc # "registering"
      BY DEF Quiet, Stages
<1>6. \A s \in 1..issued : task[s].pc \in {"registering", "done"} => task'[s] = task[s]
      BY <1>1, <1>5
<1>7. \A s \in 1..issued : task'[s].pc = "registering" => task'[s] = task[s]
      BY <1>1, <1>5
<1>8. HolderInv' /\ EntryInv'
      BY <1>1, <1>2, <1>6 DEF GatewayInv, ToolsInv, HolderInv, EntryInv
<1>9. ArmedInv' /\ SettlingInv'
      BY <1>1, <1>2, <1>6, <1>7 DEF GatewayInv, ToolsInv, ArmedInv, SettlingInv, IssueInv
<1> QED
    BY <1>1, <1>3, <1>4, <1>8, <1>9 DEF GatewayInv, ToolsInv

(* An abort both withdraws and clears, and disturbs no other registration.  *)
LEMMA AbortKeepsTools ==
  ASSUME GatewayInv, NEW c \in 0..issued, Abort(c), issued' = issued,
         \A s \in 1..issued : task'[s].name = task[s].name,
         \A s \in 1..issued : task[s].pc \in {"registering", "done"} => task'[s] = task[s],
         \A s \in 1..issued : task'[s].pc = "registering" => task'[s] = task[s]
  PROVE  /\ ToolsInv'
         /\ aborted' \subseteq 1..issued' /\ armed' \subseteq 1..issued'
         /\ aborted' \subseteq Tasks /\ armed' \subseteq Tasks
         /\ registry' \in [Names -> Controllers \cup {Foreign}]
         /\ record' \in [Names -> Entry]
<1> USE GatewayAssumption DEF Nobody
<1>1. /\ registry \in [Names -> Controllers \cup {Foreign}] /\ record \in [Names -> Entry]
      /\ aborted \subseteq 1..issued /\ armed \subseteq 1..issued
      /\ issued \in 0..MaxTasks /\ 1..issued \subseteq Tasks
      /\ task \in [1..issued -> TaskRecord]
      BY DEF GatewayInv, TypeOK, IssueInv, Tasks
<1>2. HolderInv /\ EntryInv /\ ArmedInv /\ SettlingInv
      BY DEF GatewayInv, ToolsInv
<1>3. 0 \notin Tasks
      BY DEF Tasks
<1>4. CASE c = 0
  <2>1. UNCHANGED <<aborted, registry, record, armed>>
        BY <1>1, <1>3, <1>4 DEF Abort, Cleared
  <2>2. HolderInv' /\ EntryInv'
        BY <1>1, <1>2, <2>1 DEF HolderInv, EntryInv
  <2>3. ArmedInv' /\ SettlingInv'
        BY <1>1, <1>2, <2>1 DEF ArmedInv, SettlingInv
  <2> QED
      BY <1>1, <2>1, <2>2, <2>3 DEF ToolsInv
<1>5. CASE c # 0
  <2>1. /\ aborted' = aborted \cup {c} /\ armed' = armed
        /\ registry' = Without(c) /\ record' = Cleared(c) /\ c \in Tasks /\ c \in 1..issued
        BY <1>1, <1>5 DEF Abort
  <2>2. \A n \in Names : registry'[n] = IF registry[n] = c THEN 0 ELSE registry[n]
        BY <2>1 DEF Without
  <2>3. registry' \in [Names -> Controllers \cup {Foreign}]
        BY <1>1, <2>1 DEF Without, Controllers
  <2>4. task[c].name \in Names
        BY <1>1, <2>1 DEF TaskRecord
  <2>5. record' \in [Names -> Entry]
        BY <1>1, <2>1, <2>4 DEF Cleared, NoEntry, Entry, Controllers
  <2>6. \A n \in Names : record'[n] = IF c \in armed \ aborted /\ n = task[c].name
                                      THEN NoEntry ELSE record[n]
        BY <1>1, <2>1, <2>4 DEF Cleared
  <2>7. HolderInv'
    <3> SUFFICES ASSUME NEW n \in Names, registry'[n] \in Tasks
                 PROVE  /\ registry'[n] \in 1..issued /\ registry'[n] \notin aborted \cup {c}
                        /\ task'[registry'[n]].name = n
                        /\ registry'[n] \in armed \/ task'[registry'[n]].pc = "registering"
        BY <2>1 DEF HolderInv
    <3>1. registry'[n] = registry[n] /\ registry[n] # c
          BY <2>2, <1>3
    <3>2. /\ registry[n] \in 1..issued /\ registry[n] \notin aborted
          /\ task[registry[n]].name = n
          /\ registry[n] \in armed \/ task[registry[n]].pc = "registering"
          BY <1>2, <3>1 DEF HolderInv
    <3>3. QED
          BY <3>1, <3>2
  <2>8. EntryInv'
    <3> SUFFICES ASSUME NEW n \in Names, record'[n].controller # 0
                 PROVE  /\ record'[n].controller \in armed \ (aborted \cup {c})
                        /\ registry'[n] = record'[n].controller
        BY <2>1 DEF EntryInv
    <3>1. record'[n] = record[n] /\ ~(c \in armed \ aborted /\ n = task[c].name)
          BY <2>6 DEF NoEntry
    <3>2. record[n].controller \in armed \ aborted /\ registry[n] = record[n].controller
          BY <1>2, <3>1 DEF EntryInv
    <3>3. record[n].controller # c
      <4> SUFFICES ASSUME record[n].controller = c PROVE FALSE
          OBVIOUS
      <4>1. registry[n] \in Tasks /\ task[c].name = n
            BY <1>2, <2>1, <3>2 DEF HolderInv
      <4> QED
          BY <3>1, <3>2, <4>1
    <3> QED
        BY <2>2, <3>1, <3>2, <3>3
  <2>9. ArmedInv'
    <3> SUFFICES ASSUME NEW d \in armed
                 PROVE  /\ task'[d].pc = "done"
                        /\ d \notin aborted \cup {c} =>
                             registry'[task'[d].name] = d /\ record'[task'[d].name].controller = d
        BY <2>1 DEF ArmedInv
    <3>1. task[d].pc = "done" /\ task'[d] = task[d] /\ task[d].name \in Names
          BY <1>1, <1>2 DEF ArmedInv, TaskRecord
    <3>2. ASSUME d \notin aborted, d # c
          PROVE  registry'[task[d].name] = d /\ record'[task[d].name].controller = d
      <4>1. registry[task[d].name] = d /\ record[task[d].name].controller = d
            BY <1>2, <3>2 DEF ArmedInv
      <4>2. ~(c \in armed \ aborted /\ task[d].name = task[c].name)
            BY <1>2, <3>2, <4>1 DEF ArmedInv
      <4> QED
          BY <2>2, <2>6, <3>1, <3>2, <4>1, <4>2
    <3> QED
        BY <3>1, <3>2
  <2>10. SettlingInv'
    <3> SUFFICES ASSUME NEW s \in 1..issued, task'[s].pc = "registering"
                 PROVE  IF s \in aborted \cup {c} THEN registry'[task'[s].name] \notin Tasks
                        ELSE registry'[task'[s].name] = s
        BY <2>1 DEF SettlingInv
    <3>1. task'[s] = task[s] /\ task[s].name \in Names
          BY <1>1 DEF TaskRecord
    <3>2. IF s \in aborted THEN registry[task[s].name] \notin Tasks ELSE registry[task[s].name] = s
          BY <1>2, <3>1 DEF SettlingInv
    <3> QED
        BY <1>3, <2>2, <3>1, <3>2
  <2> QED
      BY <1>1, <2>1, <2>3, <2>5, <2>7, <2>8, <2>9, <2>10 DEF ToolsInv
<1> QED
    BY <1>4, <1>5

(* A quiet step that gives up: it may abort what it was to replace.         *)
LEMMA QuietAborting ==
  ASSUME GatewayInv, NEW t, NEW pc, Quiet(t, pc), NEW c \in 0..issued, Abort(c)
  PROVE  GatewayInv'
<1>1. /\ task' \in [1..issued' -> TaskRecord]
      /\ \A s \in 1..issued' : task'[s].of < s
      /\ ChainInv'
      /\ \A s \in 1..issued : task'[s].name = task[s].name /\ task'[s].held = task[s].held
      /\ \A s \in 1..issued : s # t => task'[s] = task[s]
      /\ task'[t].pc = pc
      BY QuietKeepsTasks
<1>2. /\ UNCHANGED <<comp, issued, open, epoch>>
      /\ task[t].pc # "registering" /\ task[t].pc # "done" /\ pc # "registering"
      BY DEF Quiet, Stages
<1>3. /\ ToolsInv'
      /\ aborted' \subseteq 1..issued' /\ armed' \subseteq 1..issued'
      /\ aborted' \subseteq Tasks /\ armed' \subseteq Tasks
      /\ registry' \in [Names -> Controllers \cup {Foreign}]
      /\ record' \in [Names -> Entry]
      BY <1>1, <1>2, AbortKeepsTools
<1>4. TypeOK'
      BY <1>1, <1>2, <1>3 DEF GatewayInv, TypeOK
<1>5. IssueInv'
      BY <1>1, <1>2, <1>3 DEF GatewayInv, IssueInv
<1> QED
    BY <1>1, <1>3, <1>4, <1>5 DEF GatewayInv

(* Every early return is such a step.                                       *)
LEMMA GivingUp ==
  ASSUME GatewayInv, NEW t \in 1..issued, NEW outcome \in Settlements,
         task[t].pc \in Stages \ {"registering"}, task[t].pc = "queued" => Ready(t),
         GiveUp(t, outcome), UNCHANGED <<comp, issued, open, epoch>>
  PROVE  GatewayInv'
<1>1. Quiet(t, outcome)
      BY DEF Quiet, GiveUp, Settlements
<1>2. CASE task[t].kind = "replace"
  <2>1. task[t].of \in 0..issued
        BY GatewayAssumption DEF GatewayInv, TypeOK, TaskRecord, Controllers, Tasks, Nobody
  <2> QED
      BY <1>1, <1>2, <2>1, QuietAborting DEF GiveUp
<1>3. CASE task[t].kind # "replace"
      BY <1>1, <1>3, QuietAlone DEF GiveUp
<1> QED
    BY <1>2, <1>3

-----------------------------------------------------------------------------
(* Taking a free name, in the same turn as the abort of controller c.       *)
LEMMA TakingAName ==
  ASSUME GatewayInv, NEW t \in 1..issued, task[t].pc = "resolving", t \notin aborted,
         NEW c \in 0..issued, c # t,
         NEW r, r = (IF c = Nobody THEN registry ELSE Without(c)),
         r[task[t].name] = Nobody,
         aborted' = aborted \cup ({c} \ {Nobody}), record' = Cleared(c), UNCHANGED armed,
         Goes(t, "registering"), registry' = [r EXCEPT ![task[t].name] = t],
         UNCHANGED <<comp, issued, open, epoch>>
  PROVE  GatewayInv'
<1> USE GatewayAssumption DEF Nobody
<1> DEFINE N == task[t].name
<1>1. /\ registry \in [Names -> Controllers \cup {Foreign}] /\ record \in [Names -> Entry]
      /\ aborted \subseteq 1..issued /\ armed \subseteq 1..issued
      /\ issued \in 0..MaxTasks /\ 1..issued \subseteq Tasks
      /\ task \in [1..issued -> TaskRecord] /\ N \in Names /\ N \in task[t].held
      BY DEF GatewayInv, TypeOK, IssueInv, Tasks, TaskRecord
<1>2. HolderInv /\ EntryInv /\ ArmedInv /\ SettlingInv /\ ChainInv /\ TypeOK /\ IssueInv
      BY DEF GatewayInv, ToolsInv
<1>3. 0 \notin Tasks /\ 0 \notin armed
      BY <1>1 DEF Tasks
<1>4. /\ task' \in [1..issued -> TaskRecord] /\ task'[t].pc = "registering"
      /\ \A s \in 1..issued : s # t => task'[s] = task[s]
      /\ \A s \in 1..issued : task'[s].name = task[s].name /\ task'[s].held = task[s].held
                              /\ task'[s].of = task[s].of
  <2>1. "registering" \in Stages \cup Settlements
        BY DEF Stages
  <2>2. QED BY <1>1, <2>1, GoesKeepsTasks
<1>5. r \in [Names -> Controllers \cup {Foreign}]
      BY <1>1 DEF Without, Controllers
<1>6. \A n \in Names : r[n] = IF registry[n] = c THEN 0 ELSE registry[n]
      BY <1>1 DEF Without
<1>7. registry' \in [Names -> Controllers \cup {Foreign}] /\ registry'[N] = t
      /\ \A n \in Names : n # N => registry'[n] = r[n]
      BY <1>1, <1>5 DEF Controllers
<1>8. \A n \in Names : record'[n] = IF /\ c \in armed \ aborted
                                      /\ n = task[c].name
                                   THEN NoEntry ELSE record[n]
      BY <1>1, <1>3 DEF Cleared
<1>9. record' \in [Names -> Entry]
      BY <1>1 DEF Cleared, NoEntry, Entry, Controllers
<1>10. t \notin aborted' /\ aborted' \subseteq 1..issued /\ armed' = armed
  <2>1. {c} \ {Nobody} \subseteq 1..issued
        OBVIOUS
  <2>2. QED BY <1>1, <2>1
<1>11. TypeOK'
       BY <1>1, <1>2, <1>4, <1>7, <1>9, <1>10 DEF TypeOK
<1>12. IssueInv'
       BY <1>1, <1>2, <1>4, <1>10 DEF IssueInv
<1>13. ChainInv'
       BY <1>2, <1>4 DEF ChainInv, Settled, Settlements
<1>14. HolderInv'
  <2> SUFFICES ASSUME NEW n \in Names, n # N, registry'[n] \in Tasks
               PROVE  /\ registry'[n] \in 1..issued /\ registry'[n] \notin aborted'
                      /\ task'[registry'[n]].name = n
                      /\ registry'[n] \in armed \/ task'[registry'[n]].pc = "registering"
      BY <1>4, <1>7, <1>10 DEF HolderInv
  <2>1. registry'[n] = registry[n] /\ registry[n] # c
        BY <1>3, <1>6, <1>7
  <2>2. /\ registry[n] \in 1..issued /\ registry[n] \notin aborted /\ task[registry[n]].name = n
        /\ registry[n] \in armed \/ task[registry[n]].pc = "registering"
        BY <1>2, <2>1 DEF HolderInv
  <2>3. registry[n] # t
        BY <2>2
  <2> QED
      BY <1>4, <2>1, <2>2, <2>3
<1>15. EntryInv'
  <2> SUFFICES ASSUME NEW n \in Names, record'[n].controller # 0
               PROVE  /\ record'[n].controller \in armed \ aborted'
                      /\ registry'[n] = record'[n].controller
      BY <1>10 DEF EntryInv
  <2>1. record'[n] = record[n] /\ ~(c \in armed \ aborted /\ n = task[c].name)
        BY <1>8 DEF NoEntry
  <2>2. record[n].controller \in armed \ aborted /\ registry[n] = record[n].controller
        BY <1>2, <2>1 DEF EntryInv
  <2>3. registry[n] \in Tasks /\ task[registry[n]].name = n
        BY <1>1, <1>2, <2>2 DEF HolderInv
  <2>4. record[n].controller # c
        BY <2>1, <2>2, <2>3
  <2>5. r[n] = registry[n] /\ n # N
        BY <1>3, <1>6, <2>2, <2>3, <2>4
  <2> QED
      BY <1>7, <2>1, <2>2, <2>4, <2>5
<1>16. ArmedInv'
  <2> SUFFICES ASSUME NEW d \in armed
               PROVE  /\ task'[d].pc = "done"
                      /\ d \notin aborted' =>
                           registry'[task'[d].name] = d /\ record'[task'[d].name].controller = d
      BY <1>10 DEF ArmedInv
  <2>1. task[d].pc = "done" /\ task'[d] = task[d] /\ task[d].name \in Names /\ d \in Tasks
        BY <1>1, <1>2, <1>4 DEF ArmedInv, TaskRecord
  <2>2. ASSUME d \notin aborted'
        PROVE  registry'[task[d].name] = d /\ record'[task[d].name].controller = d
    <3>1. d \notin aborted /\ d # c
          BY <1>1, <2>1, <2>2, <1>3
    <3>2. registry[task[d].name] = d /\ record[task[d].name].controller = d
          BY <1>2, <3>1 DEF ArmedInv
    <3>3. r[task[d].name] = d /\ task[d].name # N
          BY <1>3, <1>6, <2>1, <3>1, <3>2
    <3>4. ~(c \in armed \ aborted /\ task[d].name = task[c].name)
          BY <1>2, <3>1, <3>2 DEF ArmedInv
    <3> QED
        BY <1>7, <1>8, <2>1, <3>2, <3>3, <3>4
  <2> QED
      BY <2>1, <2>2
<1>17. SettlingInv'
  <2> SUFFICES ASSUME NEW s \in 1..issued, s # t, task'[s].pc = "registering"
               PROVE  IF s \in aborted' THEN registry'[task'[s].name] \notin Tasks
                      ELSE registry'[task'[s].name] = s
      BY <1>7, <1>4, <1>10 DEF SettlingInv
  <2>1. task'[s] = task[s] /\ task[s].name \in Names /\ task[s].name \in task[s].held
        BY <1>1, <1>2, <1>4 DEF TaskRecord, IssueInv
  <2>2. task[s].name # N
    <3> SUFFICES ASSUME task[s].name = N PROVE FALSE
        OBVIOUS
    <3>1. task[s].held \cap task[t].held # {} /\ task[t].held \cap task[s].held # {}
          BY <1>1, <2>1
    <3>2. CASE s < t
          BY <1>2, <2>1, <3>1, <3>2 DEF ChainInv, Settled, Settlements
    <3>3. CASE t < s
          BY <1>2, <2>1, <3>1, <3>3 DEF ChainInv, Settled, Settlements
    <3> QED
        BY <1>1, <3>2, <3>3
  <2>3. IF s \in aborted THEN registry[task[s].name] \notin Tasks ELSE registry[task[s].name] = s
        BY <1>2, <2>1 DEF SettlingInv
  <2>4. s \in Tasks
        BY <1>1
  <2>5. CASE s \in aborted'
        BY <1>3, <1>6, <1>7, <2>1, <2>2, <2>3, <2>4, <2>5
  <2>6. CASE s \notin aborted'
    <3>1. s \notin aborted /\ s # c
          BY <1>3, <2>4, <2>6
    <3> QED
        BY <1>6, <1>7, <2>1, <2>2, <2>3, <2>6, <3>1
  <2> QED
      BY <2>5, <2>6
<1> QED
    BY <1>11, <1>12, <1>13, <1>14, <1>15, <1>16, <1>17 DEF GatewayInv, ToolsInv

(* register and replaceRegistration reach the registry.                     *)
LEMMA RegisterKeeps ==
  ASSUME GatewayInv, NEW t \in 1..issued, Register(t)
  PROVE  GatewayInv'
<1> USE GatewayAssumption DEF Nobody
<1>1. task[t].pc = "resolving" /\ Own(t) = t /\ issued \in Nat /\ 0 \notin armed
      BY DEF Register, Own, GatewayInv, TypeOK, IssueInv
<1>2. CASE Withdrawn(t)
  <2>1. Quiet(t, "withdrawn") /\ UNCHANGED tools
        BY <1>1, <1>2 DEF Register, Quiet, Stages, Settlements, tools
  <2> QED
      BY <2>1, QuietAlone
<1>3. CASE ~Withdrawn(t) /\ registry[task[t].name] # 0
  <2>1. Quiet(t, "refused") /\ UNCHANGED tools
        BY <1>1, <1>3 DEF Register, RegisterTool, Quiet, Stages, Settlements, tools
  <2> QED
      BY <2>1, QuietAlone
<1>4. CASE ~Withdrawn(t) /\ registry[task[t].name] = 0
  <2>1. t \notin aborted
        BY <1>1, <1>4 DEF Withdrawn
  <2>2. /\ Goes(t, "registering") /\ registry' = [registry EXCEPT ![task[t].name] = t]
        /\ UNCHANGED <<comp, issued, aborted, armed, record, open, epoch>>
        BY <1>4 DEF Register, RegisterTool
  <2>3. record' = Cleared(0) /\ aborted' = aborted \cup ({0} \ {0})
        BY <1>1, <2>2 DEF Cleared
  <2>4. 0 \in 0..issued /\ 0 # t
        BY <1>1
  <2>5. registry = IF 0 = 0 THEN registry ELSE Without(0)
        OBVIOUS
  <2> QED
      BY <1>1, <1>4, <2>1, <2>2, <2>3, <2>4, <2>5, TakingAName
<1> QED
    BY <1>2, <1>3, <1>4

(* A replacement either withdraws and registers in one turn, or neither.    *)
LEMMA ReplaceKeeps ==
  ASSUME GatewayInv, NEW t \in 1..issued, Replace(t)
  PROVE  GatewayInv'
<1> USE GatewayAssumption DEF Nobody
<1> DEFINE c == task[t].of
           r == IF c = Nobody THEN registry ELSE Without(c)
<1>1. /\ task[t].pc = "resolving" /\ Own(t) = t /\ issued \in Nat
      /\ c \in 0..issued /\ c # t /\ 0 \notin armed
      BY DEF Replace, Own, GatewayInv, TypeOK, IssueInv, TaskRecord, Controllers, Tasks
<1>2. CASE Withdrawn(t)
  <2>1. Quiet(t, "overtaken") /\ UNCHANGED tools
        BY <1>1, <1>2 DEF Replace, Quiet, Stages, Settlements, tools
  <2> QED
      BY <2>1, QuietAlone
<1>3. ASSUME ~Withdrawn(t)
      PROVE  /\ t \notin aborted /\ aborted' = aborted \cup ({c} \ {Nobody})
             /\ record' = Cleared(c) /\ RegisterTool(t, r)
             /\ UNCHANGED <<armed, comp, issued, open, epoch>>
      BY <1>1, <1>3 DEF Replace, Withdrawn
<1>4. CASE ~Withdrawn(t) /\ r[task[t].name] # Nobody
  <2>1. Goes(t, "refused") /\ registry' = r
        BY <1>3, <1>4 DEF RegisterTool
  <2>2. Quiet(t, "refused")
        BY <1>1, <1>3, <1>4, <2>1 DEF Quiet, Stages, Settlements
  <2>3. Abort(c)
        BY <1>3, <1>4, <2>1 DEF Abort
  <2> QED
      BY <1>1, <2>2, <2>3, QuietAborting
<1>5. CASE ~Withdrawn(t) /\ r[task[t].name] = Nobody
  <2>1. Goes(t, "registering") /\ registry' = [r EXCEPT ![task[t].name] = t]
        BY <1>3, <1>5 DEF RegisterTool
  <2> HIDE DEF c
  <2>2. r = (IF c = Nobody THEN registry ELSE Without(c))
        OBVIOUS
  <2> HIDE DEF r
  <2> QED
      BY <1>1, <1>3, <1>5, <2>1, <2>2, TakingAName
<1> QED
    BY <1>2, <1>4, <1>5

(* The record follows: an entry for the name it holds, or none at all.      *)
LEMMA RecordKeeps ==
  ASSUME GatewayInv, NEW t \in 1..issued, Record(t)
  PROVE  GatewayInv'
<1> USE GatewayAssumption DEF Nobody
<1> DEFINE N == task[t].name
<1>1. /\ registry \in [Names -> Controllers \cup {Foreign}] /\ record \in [Names -> Entry]
      /\ aborted \subseteq 1..issued /\ armed \subseteq 1..issued
      /\ issued \in 0..MaxTasks /\ 1..issued \subseteq Tasks
      /\ task \in [1..issued -> TaskRecord] /\ N \in Names
      BY DEF GatewayInv, TypeOK, IssueInv, Tasks, TaskRecord
<1>2. HolderInv /\ EntryInv /\ ArmedInv /\ SettlingInv /\ ChainInv /\ TypeOK /\ IssueInv
      BY DEF GatewayInv, ToolsInv
<1>3. /\ task[t].pc = "registering"
      /\ UNCHANGED <<comp, issued, aborted, registry, open, epoch>>
      BY DEF Record
<1>4. IF t \in aborted THEN registry[N] \notin Tasks ELSE registry[N] = t
      BY <1>2, <1>3 DEF SettlingInv
<1>5. \A d \in armed : d \in 1..issued /\ d # t /\ task[d].pc = "done" /\ task[d].name \in Names
      BY <1>1, <1>2, <1>3 DEF ArmedInv, TaskRecord
<1>6. /\ task' \in [1..issued -> TaskRecord] /\ task'[t].pc \in {"withdrawn", "done"}
      /\ task'[t].pc = (IF t \in aborted THEN "withdrawn" ELSE "done")
      /\ \A s \in 1..issued : s # t => task'[s] = task[s]
      /\ \A s \in 1..issued : task'[s].name = task[s].name /\ task'[s].held = task[s].held
                              /\ task'[s].of = task[s].of
  <2>1. PICK pc \in {"withdrawn", "done"} :
          Goes(t, pc) /\ pc = (IF t \in aborted THEN "withdrawn" ELSE "done")
        BY DEF Record
  <2>2. pc \in Stages \cup Settlements
        BY DEF Settlements
  <2>3. /\ task' \in [1..issued -> TaskRecord]
        /\ \A s \in 1..issued : task'[s].name = task[s].name /\ task'[s].held = task[s].held
                                /\ task'[s].of = task[s].of
        /\ task'[t].pc = pc /\ \A s \in 1..issued : s # t => task'[s] = task[s]
        BY <1>1, <2>1, <2>2, GoesKeepsTasks
  <2> QED
      BY <2>1, <2>3
<1>7. ChainInv'
      BY <1>2, <1>3, <1>6 DEF ChainInv, Settled, Settlements
<1>8. SettlingInv'
      BY <1>2, <1>3, <1>6 DEF SettlingInv
<1>9. CASE t \in aborted
  <2>1. record' = [record EXCEPT ![N] = NoEntry] /\ armed' = armed
        BY <1>9 DEF Record
  <2>2. record' \in [Names -> Entry] /\ record'[N] = NoEntry
        /\ \A n \in Names : n # N => record'[n] = record[n]
        BY <1>1, <2>1 DEF NoEntry, Entry, Controllers
  <2>3. TypeOK' /\ IssueInv'
        BY <1>1, <1>2, <1>3, <1>6, <2>1, <2>2 DEF TypeOK, IssueInv
  <2>4. HolderInv'
        BY <1>2, <1>3, <1>6, <1>9, <2>1 DEF HolderInv
  <2>5. EntryInv'
        BY <1>2, <1>3, <2>1, <2>2 DEF EntryInv, NoEntry
  <2>6. ArmedInv'
    <3> SUFFICES ASSUME NEW d \in armed
                 PROVE  /\ task'[d].pc = "done"
                        /\ d \notin aborted => registry[task'[d].name] = d
                                               /\ record'[task'[d].name].controller = d
        BY <1>3, <2>1 DEF ArmedInv
    <3>1. d \notin aborted => registry[task[d].name] = d /\ record[task[d].name].controller = d
          BY <1>2 DEF ArmedInv
    <3>2. d \notin aborted => task[d].name # N
          BY <1>1, <1>4, <1>5, <1>9, <3>1
    <3> QED
        BY <1>5, <1>6, <2>2, <3>1, <3>2
  <2> QED
      BY <1>7, <1>8, <2>3, <2>4, <2>5, <2>6 DEF GatewayInv, ToolsInv
<1>10. CASE t \notin aborted
  <2>1. record' = [record EXCEPT ![N] = OwnEntry(t)] /\ armed' = armed \cup {t}
        BY <1>10 DEF Record
  <2>2. record' \in [Names -> Entry] /\ record'[N].controller = t
        /\ \A n \in Names : n # N => record'[n] = record[n]
        BY <1>1, <2>1 DEF OwnEntry, Entry, Controllers, TaskRecord
  <2>3. TypeOK' /\ IssueInv'
        BY <1>1, <1>2, <1>3, <1>6, <2>1, <2>2 DEF TypeOK, IssueInv
  <2>4. HolderInv'
        BY <1>2, <1>3, <1>6, <1>10, <2>1 DEF HolderInv
  <2>5. EntryInv'
        BY <1>2, <1>3, <1>4, <1>10, <2>1, <2>2 DEF EntryInv
  <2>6. ArmedInv'
    <3> SUFFICES ASSUME NEW d \in armed
                 PROVE  /\ task'[d].pc = "done"
                        /\ d \notin aborted => registry[task'[d].name] = d
                                               /\ record'[task'[d].name].controller = d
        BY <1>3, <1>4, <1>6, <1>10, <2>1, <2>2 DEF ArmedInv
    <3>1. d \notin aborted => registry[task[d].name] = d /\ record[task[d].name].controller = d
          BY <1>2 DEF ArmedInv
    <3>2. d \notin aborted => task[d].name # N
          BY <1>4, <1>5, <1>10, <3>1
    <3> QED
        BY <1>5, <1>6, <2>2, <3>1, <3>2
  <2> QED
      BY <1>7, <1>8, <2>3, <2>4, <2>5, <2>6 DEF GatewayInv, ToolsInv
<1> QED
    BY <1>9, <1>10

(* The refresh of an entry changes nothing but its permissions.             *)
LEMMA RefreshKeeps ==
  ASSUME GatewayInv, NEW t \in 1..issued, Admitted(t), task[t].kind = "refresh",
         ~Withdrawn(t), task[t].at = epoch
  PROVE  GatewayInv'
<1>1. /\ Quiet(t, "done") /\ Rewrite(t) /\ UNCHANGED <<aborted, armed, registry>>
      BY DEF Admitted, Quiet, Stages, Settlements
<1>2. /\ task' \in [1..issued' -> TaskRecord]
      /\ \A s \in 1..issued' : task'[s].of < s
      /\ ChainInv'
      /\ \A s \in 1..issued : task'[s].name = task[s].name /\ task'[s].held = task[s].held
      /\ \A s \in 1..issued : s # t => task'[s] = task[s]
      BY <1>1, QuietKeepsTasks
<1>3. /\ UNCHANGED <<comp, issued, open, epoch>> /\ task[t].pc = "admitted"
      /\ task'[t].pc = "done"
      BY <1>1, QuietKeepsTasks DEF Quiet, Admitted
<1>4. /\ record \in [Names -> Entry] /\ task \in [1..issued -> TaskRecord]
      /\ task[t].name \in Names /\ task[t].permissions \in Permissions \cup {None}
      BY DEF GatewayInv, TypeOK, TaskRecord
<1>5. record' \in [Names -> Entry]
      /\ \A n \in Names : record'[n].controller = record[n].controller
      BY <1>1, <1>4 DEF Rewrite, Entry
<1>6. TypeOK' /\ IssueInv'
      BY <1>1, <1>2, <1>3, <1>5 DEF GatewayInv, TypeOK, IssueInv
<1>7. HolderInv' /\ EntryInv'
      BY <1>1, <1>2, <1>3, <1>5 DEF GatewayInv, ToolsInv, HolderInv, EntryInv
<1>8. ArmedInv'
  <2>1. \A d \in armed : d \in 1..issued /\ d # t /\ task[d].name \in Names /\ task'[d] = task[d]
        BY <1>2, <1>3, <1>4 DEF GatewayInv, ToolsInv, ArmedInv, IssueInv, TaskRecord
  <2> QED
      BY <1>1, <1>5, <2>1 DEF GatewayInv, ToolsInv, ArmedInv
<1>9. SettlingInv'
      BY <1>1, <1>2, <1>3 DEF GatewayInv, ToolsInv, SettlingInv
<1> QED
    BY <1>2, <1>6, <1>7, <1>8, <1>9 DEF GatewayInv, ToolsInv

(* The steps of a task.                                                     *)
LEMMA WorkKeeps ==
  ASSUME GatewayInv, NEW t \in 1..issued, Work(t)
  PROVE  GatewayInv'
<1>1. CASE Start(t)
  <2>1. CASE Withdrawn(t) /\ GiveUp(t, "withdrawn")
        BY <1>1, <2>1, GivingUp DEF Start, Stages, Settlements
  <2>2. CASE task[t].at # epoch /\ GiveUp(t, "skipped")
        BY <1>1, <2>2, GivingUp DEF Start, Stages, Settlements
  <2>3. CASE Goes(t, IF open THEN "admitted" ELSE "waiting") /\ UNCHANGED tools
    <3>1. PICK pc \in {"admitted", "waiting"} : Goes(t, pc)
          BY <2>3
    <3>2. Quiet(t, pc)
          BY <1>1, <3>1 DEF Start, Quiet, Stages
    <3> QED
        BY <2>3, <3>2, QuietAlone
  <2> QED
      BY <1>1, <2>1, <2>2, <2>3 DEF Start
<1>2. CASE Released(t)
      BY <1>2, GivingUp DEF Released, Stages, Settlements
<1>3. CASE Admitted(t)
  <2>1. CASE Goes(t, "compiling") /\ UNCHANGED tools
    <3>1. Quiet(t, "compiling")
          BY <1>3, <2>1 DEF Admitted, Quiet, Stages
    <3> QED
        BY <2>1, <3>1, QuietAlone
  <2>2. CASE \E outcome \in {"withdrawn", "skipped"} : GiveUp(t, outcome)
        BY <1>3, <2>2, GivingUp DEF Admitted, Stages, Settlements
  <2>3. CASE task[t].kind = "refresh" /\ ~Withdrawn(t) /\ task[t].at = epoch
        BY <1>3, <2>3, RefreshKeeps
  <2> QED
      BY <1>3, <2>1, <2>2, <2>3 DEF Admitted
<1>4. CASE CompileFails(t)
      BY <1>4, GivingUp DEF CompileFails, Stages, Settlements
<1>5. CASE Compiled(t)
  <2>1. CASE Goes(t, "resolving") /\ UNCHANGED tools
    <3>1. Quiet(t, "resolving")
          BY <1>5, <2>1 DEF Compiled, Quiet, Stages
    <3> QED
        BY <2>1, <3>1, QuietAlone
  <2>2. CASE \E outcome \in {"withdrawn", "skipped"} : GiveUp(t, outcome)
        BY <1>5, <2>2, GivingUp DEF Compiled, Stages, Settlements
  <2> QED
      BY <1>5, <2>1, <2>2 DEF Compiled
<1> QED
    BY <1>1, <1>2, <1>3, <1>4, <1>5, RegisterKeeps, ReplaceKeeps, RecordKeeps DEF Work, Continue

(* A component issues a task: it joins the end of its chains.               *)
LEMMA IssueKeeps ==
  ASSUME GatewayInv, NEW new \in TaskRecord, new.pc = "queued", new.name \in new.held,
         new.of \in 0..issued, Issue(new), UNCHANGED <<tools, open, epoch>>,
         comp' \in [Components -> CompRecord(0..(issued + 1))]
  PROVE  GatewayInv'
<1> USE GatewayAssumption DEF CompRecord
<1>1. /\ issued' = issued + 1 /\ issued + 1 \in 0..MaxTasks /\ issued \in 0..MaxTasks
      /\ task' = [t \in 1..(issued + 1) |-> IF t = issued + 1 THEN new ELSE task[t]]
      /\ task \in [1..issued -> TaskRecord] /\ 1..issued \subseteq 1..(issued + 1)
      BY DEF Issue, GatewayInv, TypeOK
<1>2. /\ task' \in [1..issued' -> TaskRecord] /\ task'[issued + 1] = new
      /\ \A s \in 1..issued : task'[s] = task[s]
      BY <1>1
<1>3. \A s \in 1..issued' : s \in 1..issued \/ s = issued + 1
      BY <1>1
<1>4. \A s \in 1..issued' : task'[s].of < s
      BY <1>1, <1>2, <1>3 DEF GatewayInv, TypeOK
<1>5. \A i \in Components : comp'[i].controller \in 0..issued'
      BY <1>1
<1>6. comp' \in [Components -> CompRecord(Controllers)]
  <2>1. 0..(issued + 1) \subseteq Controllers
        BY <1>1 DEF Controllers, Tasks, Nobody
  <2> QED
      BY <2>1
<1>7. TypeOK'
      BY <1>1, <1>2, <1>4, <1>6 DEF GatewayInv, TypeOK, tools
<1>8. IssueInv'
      BY <1>1, <1>2, <1>3, <1>5 DEF GatewayInv, IssueInv, tools
<1>9. ChainInv'
  <2> SUFFICES ASSUME NEW s \in 1..issued', NEW t \in 1..issued', s < t,
                      task'[s].held \cap task'[t].held # {}, task'[t].pc # "queued"
               PROVE  task'[s].pc \in Settlements
      BY DEF ChainInv, Settled
  <2>1. t \in 1..issued
        BY <1>2, <1>3
  <2>2. s \in 1..issued
        BY <1>1, <2>1
  <2> QED
      BY <1>2, <2>1, <2>2 DEF GatewayInv, ChainInv, Settled
<1>10. HolderInv' /\ EntryInv' /\ ArmedInv'
       BY <1>1, <1>2 DEF GatewayInv, ToolsInv, HolderInv, EntryInv, ArmedInv, IssueInv, tools
<1>11. SettlingInv'
       BY <1>1, <1>2, <1>3 DEF GatewayInv, ToolsInv, SettlingInv, tools
<1> QED
    BY <1>7, <1>8, <1>9, <1>10, <1>11 DEF GatewayInv, ToolsInv

(* The components' effects.                                                 *)
LEMMA RenderKeeps ==
  ASSUME GatewayInv, NEW i \in Components, Render(i)
  PROVE  GatewayInv'
<1> USE GatewayAssumption DEF Nobody, CompRecord
<1>1. /\ comp \in [Components -> CompRecord(Controllers)]
      /\ \A j \in Components : comp[j].controller \in 0..issued
      /\ issued \in 0..MaxTasks /\ epoch \in 0..MaxEpoch
      /\ task \in [1..issued -> TaskRecord]
      BY DEF GatewayInv, TypeOK, IssueInv
<1>2. comp \in [Components -> CompRecord(0..issued)]
      BY <1>1
<1>3. 0..issued \subseteq 0..(issued + 1) /\ issued + 1 \in 0..(issued + 1) /\ 0 \in 0..issued
      BY <1>1
<1>4. ASSUME NEW n \in Names, NEW p \in Permissions, Mount(i, n, p)
      PROVE  GatewayInv'
  <2>1. CASE n \in Reserved
    <3>1. UNCHANGED <<issued, task, aborted, armed, registry, record, open, epoch>>
          BY <1>4, <2>1 DEF Mount, tools
    <3>2. comp' \in [Components -> CompRecord(0..issued)]
          BY <1>2, <1>3, <1>4, <2>1 DEF Mount
    <3>3. comp' \in [Components -> CompRecord(Controllers)]
      <4>1. 0..issued \subseteq Controllers
            BY <1>1 DEF Controllers, Tasks
      <4> QED
          BY <3>2, <4>1
    <3>4. TypeOK' /\ IssueInv'
          BY <3>1, <3>2, <3>3 DEF GatewayInv, TypeOK, IssueInv
    <3>5. ChainInv' /\ HolderInv' /\ EntryInv' /\ ArmedInv' /\ SettlingInv'
          BY <3>1 DEF GatewayInv, ToolsInv, ChainInv, Settled, HolderInv, EntryInv, ArmedInv, SettlingInv
    <3> QED
        BY <3>4, <3>5 DEF GatewayInv, ToolsInv
  <2>2. CASE n \notin Reserved
    <3> DEFINE new == NewTask("enqueue", n, {n}, Nobody, p)
    <3>1. new \in TaskRecord /\ new.pc = "queued" /\ new.name \in new.held /\ new.of \in 0..issued
          BY <1>1 DEF NewTask, TaskRecord, Controllers, Stages
    <3>2. comp' \in [Components -> CompRecord(0..(issued + 1))]
          BY <1>2, <1>3, <1>4, <2>2 DEF Mount
    <3>3. Issue(new) /\ UNCHANGED <<tools, open, epoch>>
          BY <1>4, <2>2 DEF Mount
    <3> HIDE DEF new
    <3> QED
        BY <3>1, <3>2, <3>3, IssueKeeps
  <2> QED
      BY <2>1, <2>2
<1>5. ASSUME NEW n \in Names, Change(i, n)
      PROVE  GatewayInv'
  <2> DEFINE new == NewTask("replace", n, {n, comp[i].name}, comp[i].controller,
                        comp[i].permissions)
  <2>1. comp[i].name \in Names /\ comp[i].controller \in 0..issued /\ comp[i].controller \in Controllers
        BY <1>1, <1>5 DEF Change, Moved, Mounted
  <2>2. new \in TaskRecord /\ new.pc = "queued" /\ new.name \in new.held /\ new.of \in 0..issued
        BY <1>1, <2>1 DEF NewTask, TaskRecord, Stages
  <2>3. comp' \in [Components -> CompRecord(0..(issued + 1))]
        BY <1>2, <1>3, <1>5 DEF Change, Declares
  <2>4. Issue(new) /\ UNCHANGED <<tools, open, epoch>>
        BY <1>5 DEF Change
  <2> HIDE DEF new
  <2> QED
      BY <2>2, <2>3, <2>4, IssueKeeps
<1>6. ASSUME NEW n \in Names, NEW d \in Names \cup {None}, NEW p \in Permissions,
             Permit(i, n, d, p)
      PROVE  GatewayInv'
  <2> DEFINE new == NewTask("refresh", n, {n}, comp[i].controller, p)
  <2>1. comp[i].name \in Names /\ comp[i].controller \in 0..issued /\ comp[i].controller \in Controllers
        BY <1>1, <1>6 DEF Permit, Mounted
  <2>2. new \in TaskRecord /\ new.pc = "queued" /\ new.name \in new.held /\ new.of \in 0..issued
        BY <1>1, <2>1 DEF NewTask, TaskRecord, Stages
  <2>3. comp' \in [Components -> CompRecord(0..(issued + 1))]
    <3>1. comp \in [Components -> CompRecord(0..(issued + 1))]
          BY <1>2, <1>3
    <3>2. comp' = [comp EXCEPT ![i].permissions = p, ![i].due = d]
          BY <1>6 DEF Permit
    <3> QED
        BY <3>1, <3>2
  <2>4. Issue(new) /\ UNCHANGED <<tools, open, epoch>>
        BY <1>6 DEF Permit
  <2> HIDE DEF new
  <2> QED
      BY <2>2, <2>3, <2>4, IssueKeeps
<1>7. ASSUME Abort(comp[i].controller), UNCHANGED <<issued, task, open, epoch>>,
             comp' \in [Components -> CompRecord(0..issued)]
      PROVE  GatewayInv'
  <2>1. /\ ToolsInv'
        /\ aborted' \subseteq 1..issued' /\ armed' \subseteq 1..issued'
        /\ aborted' \subseteq Tasks /\ armed' \subseteq Tasks
        /\ registry' \in [Names -> Controllers \cup {Foreign}]
        /\ record' \in [Names -> Entry]
        BY <1>1, <1>7, AbortKeepsTools
  <2>2. 0..issued \subseteq Controllers
        BY <1>1 DEF Controllers, Tasks
  <2>3. comp' \in [Components -> CompRecord(Controllers)]
        BY <1>7, <2>2
  <2>4. TypeOK' /\ IssueInv'
        BY <1>7, <2>1, <2>3 DEF GatewayInv, TypeOK, IssueInv
  <2>5. ChainInv'
        BY <1>7 DEF GatewayInv, ChainInv, Settled
  <2> QED
      BY <2>1, <2>4, <2>5 DEF GatewayInv
<1>8. ASSUME NEW n \in Names, ChangeToReserved(i, n)
      PROVE  GatewayInv'
  <2>1. comp' \in [Components -> CompRecord(0..issued)]
        BY <1>2, <1>3, <1>8 DEF ChangeToReserved
  <2> QED
      BY <1>7, <1>8, <2>1 DEF ChangeToReserved
<1>9. ASSUME Unmount(i)
      PROVE  GatewayInv'
  <2>1. comp' \in [Components -> CompRecord(0..issued)]
        BY <1>2, <1>3, <1>9 DEF Unmount, NotMounted
  <2> QED
      BY <1>7, <1>9, <2>1 DEF Unmount
<1> QED
    BY <1>4, <1>5, <1>6, <1>8, <1>9 DEF Render

(* The provider releases or admits those waiting; scripts take free names.  *)
LEMMA EnvironmentKeeps ==
  ASSUME GatewayInv, Open \/ Close \/ \E n \in Names : ForeignTakes(n) \/ ForeignLeaves(n)
  PROVE  GatewayInv'
<1> USE GatewayAssumption DEF Nobody
<1>1. CASE Open \/ Close
  <2>1. PICK pc \in {"admitted", "released"} :
          task' = [t \in 1..issued |->
                     IF task[t].pc = "waiting" THEN [task[t] EXCEPT !.pc = pc] ELSE task[t]]
        BY <1>1 DEF Open, Close, Woken
  <2>2. /\ UNCHANGED <<comp, issued, aborted, armed, registry, record>>
        /\ open' \in BOOLEAN /\ task \in [1..issued -> TaskRecord]
        BY <1>1 DEF Open, Close, Woken, tools, GatewayInv, TypeOK
  <2>3. epoch' \in 0..MaxEpoch
        BY <1>1 DEF Open, Close, Woken, GatewayInv, TypeOK
  <2>4. \A t \in 1..issued : task[t].pc # "waiting" => task'[t] = task[t]
        BY <2>1
  <2>5. \A t \in 1..issued : task[t].pc = "waiting" => task'[t].pc = pc
        BY <2>1, <2>2 DEF TaskRecord
  <2>6. /\ task' \in [1..issued -> TaskRecord]
        /\ \A t \in 1..issued : task'[t].name = task[t].name /\ task'[t].held = task[t].held
                                /\ task'[t].of = task[t].of
    <3>1. pc \in Stages
          BY DEF Stages
    <3>2. \A t \in 1..issued : task[t] \in TaskRecord
          BY <2>2
    <3>3. \A t \in 1..issued : [task[t] EXCEPT !.pc = pc] \in TaskRecord
          BY <3>1, <3>2 DEF TaskRecord
    <3> QED
        BY <2>1, <3>2, <3>3 DEF TaskRecord
  <2>7. TypeOK' /\ IssueInv'
        BY <2>2, <2>3, <2>6 DEF GatewayInv, TypeOK, IssueInv
  <2>8. ChainInv'
    <3>1. \A t \in 1..issued : Settled(t) => task'[t] = task[t]
          BY <2>4 DEF Settled, Settlements
    <3>2. \A t \in 1..issued : task'[t].pc # "queued" => task[t].pc # "queued"
          BY <2>4
    <3> QED
        BY <2>2, <2>6, <3>1, <3>2 DEF GatewayInv, ChainInv, Settled
  <2>9. HolderInv' /\ EntryInv'
        BY <2>2, <2>4, <2>6 DEF GatewayInv, ToolsInv, HolderInv, EntryInv
  <2>10. ArmedInv' /\ SettlingInv'
        BY <2>2, <2>4, <2>5 DEF GatewayInv, ToolsInv, ArmedInv, SettlingInv, IssueInv
  <2> QED
      BY <2>7, <2>8, <2>9, <2>10 DEF GatewayInv, ToolsInv
<1>2. ASSUME NEW n \in Names, ForeignTakes(n) \/ ForeignLeaves(n)
      PROVE  GatewayInv'
  <2>1. PICK h \in {Nobody, Foreign} : registry' = [registry EXCEPT ![n] = h]
        BY <1>2 DEF ForeignTakes, ForeignLeaves
  <2>2. /\ UNCHANGED <<comp, issued, task, aborted, armed, record, open, epoch>>
        /\ registry[n] \in {Nobody, Foreign}
        BY <1>2 DEF ForeignTakes, ForeignLeaves
  <2>3. /\ registry \in [Names -> Controllers \cup {Foreign}]
        /\ Nobody \notin Tasks /\ Foreign \notin Tasks /\ issued \in 0..MaxTasks
        /\ task \in [1..issued -> TaskRecord]
        /\ armed \subseteq 1..issued
        BY DEF GatewayInv, TypeOK, IssueInv, Tasks
  <2>4. /\ registry' \in [Names -> Controllers \cup {Foreign}] /\ registry'[n] \notin Tasks
        /\ registry[n] \notin Tasks
        /\ \A m \in Names : m # n => registry'[m] = registry[m]
        BY <2>1, <2>2, <2>3 DEF Controllers
  <2>5. \A c \in 1..issued : c \in Tasks /\ task[c].name \in Names
        BY <2>3 DEF Tasks, TaskRecord
  <2>6. TypeOK' /\ IssueInv' /\ ChainInv'
        BY <2>2, <2>4 DEF GatewayInv, TypeOK, IssueInv, ChainInv, Settled
  <2>7. HolderInv'
        BY <2>2, <2>4 DEF GatewayInv, ToolsInv, HolderInv
  <2>8. EntryInv'
        BY <2>2, <2>3, <2>4, <2>5 DEF GatewayInv, ToolsInv, EntryInv
  <2>9. ArmedInv' /\ SettlingInv'
        BY <2>2, <2>3, <2>4, <2>5 DEF GatewayInv, ToolsInv, ArmedInv, SettlingInv
  <2> QED
      BY <2>6, <2>7, <2>8, <2>9 DEF GatewayInv, ToolsInv
<1> QED
    BY <1>1, <1>2

(* Every step keeps the invariant.                                          *)
LEMMA StepKeeps == GatewayInv /\ [Next]_vars => GatewayInv'
<1> SUFFICES ASSUME GatewayInv, [Next]_vars PROVE GatewayInv'
    OBVIOUS
<1>1. CASE UNCHANGED vars
      BY <1>1 DEF vars, GatewayInv, TypeOK, ChainInv, Settled, IssueInv, ToolsInv, HolderInv,
                  EntryInv, ArmedInv, SettlingInv
<1>2. CASE Next
      BY <1>2, WorkKeeps, RenderKeeps, EnvironmentKeeps DEF Next
<1> QED
    BY <1>1, <1>2

(* The invariant that the three theorems below are read from: what the      *)
(* registry, the record, the abort listeners and the tasks say of each      *)
(* other, in every reachable state.                                         *)
THEOREM GatewayCorrect == Spec => []GatewayInv
<1> QED
    BY InitHolds, StepKeeps, PTL DEF Spec

(* Type correctness, and that a task only ever replaces or refreshes a      *)
(* registration issued before it.                                           *)
THEOREM GatewayTyped == Spec => []TypeOK
<1>1. GatewayInv => TypeOK
      BY DEF GatewayInv
<1> QED
    BY <1>1, GatewayCorrect, PTL

(* The record never claims a name that the registry does not hold for the   *)
(* same registration: no divergence is of this library's making.            *)
THEOREM NoDivergence == Spec => []RecordNeverDiverges
<1>1. GatewayInv => RecordNeverDiverges
      BY DEF GatewayInv, ToolsInv, EntryInv, RecordNeverDiverges
<1> QED
    BY <1>1, GatewayCorrect, PTL

(* A name this library registered is in its record as soon as registerTool  *)
(* has settled: its own tool is never classified as another script's.       *)
THEOREM OwnToolsAreOwned == Spec => []OwnedOnceRegistered
<1>1. ASSUME GatewayInv PROVE OwnedOnceRegistered
  <2> SUFFICES ASSUME NEW n \in Names, registry[n] \in Tasks
               PROVE  record[n].controller = registry[n] \/ task[registry[n]].pc = "registering"
      BY DEF OwnedOnceRegistered
  <2> QED
      BY <1>1 DEF GatewayInv, ToolsInv, HolderInv, ArmedInv
<1> QED
    BY <1>1, GatewayCorrect, PTL

(* Work on one name is done by one task at a time, renames included.        *)
THEOREM OneAtATime == Spec => []OneTaskPerName
<1>1. ASSUME GatewayInv PROVE OneTaskPerName
  <2> SUFFICES ASSUME NEW s \in 1..issued, NEW t \in 1..issued, s # t, Active(s), Active(t),
                      task[s].held \cap task[t].held # {}
               PROVE  FALSE
      BY DEF OneTaskPerName
  <2>1. issued \in Nat /\ (s < t \/ t < s)
        BY <1>1, GatewayAssumption DEF GatewayInv, TypeOK
  <2>2. ASSUME NEW x \in 1..issued, NEW y \in 1..issued, x < y, Active(x), Active(y),
               task[x].held \cap task[y].held # {}
        PROVE  FALSE
        BY <1>1, <2>2 DEF GatewayInv, ChainInv, Settled, Active, Stages, Settlements
  <2>3. task[t].held \cap task[s].held # {}
        OBVIOUS
  <2> QED
      BY <2>1, <2>2, <2>3
<1> QED
    BY <1>1, GatewayCorrect, PTL

-----------------------------------------------------------------------------
(***************************************************************************)
(* Who a registration belongs to, and under which permissions it stands.     *)
(***************************************************************************)

(* A refresh registers nothing; any other task that is done is armed.        *)
KindInv ==
  \A t \in 1..issued :
    /\ task[t].kind = "refresh" => task[t].pc \notin {"compiling", "resolving", "registering"}
    /\ t \in armed <=> task[t].pc = "done" /\ task[t].kind # "refresh"

(* A replacement that has ended, or taken the name, has withdrawn what it     *)
(* replaces, unless it was overtaken; and it is on the chain of that name.   *)
LeavingInv ==
  \A t \in 1..issued : (task[t].kind = "replace" /\ task[t].of # Nobody) =>
    /\ task[task[t].of].name \in task[t].held
    /\ (Settled(t) \/ task[t].pc = "registering") =>
         task[t].of \in aborted \/ task[t].pc = "overtaken"

(* What a component holds is its alone, live, under its name, and nobody's   *)
(* to replace but through its own next change.                              *)
HeldInv ==
  \A i \in Components : comp[i].controller # Nobody =>
    LET c == comp[i].controller IN
    /\ c \notin aborted /\ task[c].name = comp[i].name /\ task[c].kind # "refresh"
    /\ \A j \in Components : comp[j].controller = c => j = i
    /\ \A t \in 1..issued : task[t].kind = "replace" => task[t].of # c

(* A registration that nobody has withdrawn is held by a component, or one    *)
(* replacement was issued to take it away.                                  *)
OwnedInv ==
  \A c \in 1..issued : (task[c].kind # "refresh" /\ c \notin aborted) =>
    \/ \E i \in Components : comp[i].controller = c
    \/ \E t \in 1..issued : task[t].kind = "replace" /\ task[t].of = c

(* The last task about a component's registration asks for the permissions   *)
(* the component declares; no change being due, all of them are about its    *)
(* present name.                                                            *)
AskedInv ==
  \A i \in Components : comp[i].controller # Nobody =>
    LET c == comp[i].controller IN
    /\ \E t \in 1..issued : /\ Own(t) = c /\ task[t].permissions = comp[i].permissions
                            /\ \A s \in 1..issued : Own(s) = c => s <= t
    /\ comp[i].due = None => \A t \in 1..issued : Own(t) = c => task[t].name = comp[i].name

(* The tasks about c, of its name, that were carried out.                    *)
Carried(c) == {t \in 1..issued : Own(t) = c /\ task[t].name = task[c].name /\ task[t].pc = "done"}

(* An entry has the permissions of the last of them.                         *)
WrittenInv ==
  \A c \in armed \ aborted :
    \E t \in Carried(c) : /\ record[task[c].name].permissions = task[t].permissions
                          /\ \A s \in Carried(c) : s <= t

OwnersInv == KindInv /\ LeavingInv /\ HeldInv /\ OwnedInv
PermissionsInv == AskedInv /\ WrittenInv

(* A task that goes from one stage to another keeps what it was issued with. *)
LEMMA GoesKeepsIssuance ==
  ASSUME task \in [1..issued -> TaskRecord], NEW t \in 1..issued,
         NEW pc \in Stages \cup Settlements, Goes(t, pc)
  PROVE  /\ \A s \in 1..issued : /\ task'[s].kind = task[s].kind /\ task'[s].name = task[s].name
                                 /\ task'[s].held = task[s].held /\ task'[s].of = task[s].of
                                 /\ task'[s].permissions = task[s].permissions
         /\ \A s \in 1..issued : s # t => task'[s] = task[s]
         /\ task'[t].pc = pc
<1>1. task' = [task EXCEPT ![t] = [task[t] EXCEPT !.pc = pc]] /\ task[t] \in TaskRecord
      BY DEF Goes
<1>2. /\ [task[t] EXCEPT !.pc = pc].kind = task[t].kind
      /\ [task[t] EXCEPT !.pc = pc].permissions = task[t].permissions
      BY <1>1 DEF TaskRecord
<1> QED
    BY <1>1, <1>2, GoesKeepsTasks

(* A task's step moves that task on, and withdraws at most what it replaces. *)
Moves(t) ==
  /\ UNCHANGED <<comp, issued>>
  /\ \A s \in 1..issued : /\ task'[s].kind = task[s].kind /\ task'[s].name = task[s].name
                          /\ task'[s].held = task[s].held /\ task'[s].of = task[s].of
                          /\ task'[s].permissions = task[s].permissions
  /\ \A s \in 1..issued : s # t => task'[s] = task[s]
  /\ task[t].pc \in Stages
  /\ aborted \subseteq aborted'
  /\ \A c \in aborted' \ aborted : task[t].kind = "replace" /\ task[t].of = c /\ c # Nobody

(* How far it gets: a refresh never as far as the registry; one that is done *)
(* and is no refresh has armed its listener; and a replacement ends, or takes *)
(* its name, with its predecessor withdrawn, or is overtaken.               *)
Ends(t) ==
  /\ task[t].kind = "refresh" => task'[t].pc \notin {"compiling", "resolving", "registering"}
  /\ IF task'[t].pc = "done" /\ task[t].kind # "refresh" THEN armed' = armed \cup {t}
     ELSE armed' = armed
  /\ (task[t].kind = "replace" /\ task[t].of # Nobody) =>
       \/ task'[t].pc \notin Settlements \cup {"registering"}
       \/ task[t].of \in aborted' \/ task'[t].pc = "overtaken"

LEMMA GoesMoves ==
  ASSUME GatewayInv, NEW t \in 1..issued, NEW pc \in Stages \cup Settlements, Goes(t, pc),
         task[t].pc \in Stages, UNCHANGED <<comp, issued>>,
         aborted' = aborted \cup (IF task[t].kind = "replace" THEN {task[t].of} \ {Nobody} ELSE {})
           \/ aborted' = aborted
  PROVE  Moves(t) /\ task'[t].pc = pc
  BY GoesKeepsIssuance DEF Moves, GatewayInv, TypeOK

LEMMA GiveUpMoves ==
  ASSUME GatewayInv, NEW t \in 1..issued, NEW outcome \in Settlements \ {"done"}, GiveUp(t, outcome),
         task[t].pc \in Stages, UNCHANGED <<comp, issued>>
  PROVE  Moves(t) /\ Ends(t)
<1>1. /\ Goes(t, outcome) /\ armed' = armed
      /\ task[t].kind = "replace" => aborted' = aborted \cup ({task[t].of} \ {Nobody})
      /\ task[t].kind # "replace" => aborted' = aborted
      BY DEF GiveUp, Abort, tools
<1>2. Moves(t) /\ task'[t].pc = outcome
      BY <1>1, GoesMoves
<1>3. Ends(t)
      BY <1>1, <1>2 DEF Ends, Settlements
<1> QED
    BY <1>2, <1>3

LEMMA WorkMoves ==
  ASSUME GatewayInv, KindInv, LeavingInv, NEW t \in 1..issued, Work(t)
  PROVE  Moves(t) /\ Ends(t)
<1>1. ASSUME NEW pc \in Stages \ {"registering"}, Goes(t, pc), task[t].pc \in Stages, UNCHANGED tools,
             UNCHANGED <<comp, issued>>, task[t].kind = "refresh" => pc \notin {"compiling", "resolving"}
      PROVE  Moves(t) /\ Ends(t)
  <2>1. Moves(t) /\ task'[t].pc = pc
        BY <1>1, GoesMoves DEF tools
  <2> QED
      BY <1>1, <2>1 DEF Ends, Stages, Settlements, tools
<1>2. CASE Start(t)
  <2>1. ASSUME NEW outcome \in {"withdrawn", "skipped"}, GiveUp(t, outcome)
        PROVE  Moves(t) /\ Ends(t)
        BY <1>2, <2>1, GiveUpMoves DEF Start, Stages, Settlements
  <2>2. ASSUME Goes(t, IF open THEN "admitted" ELSE "waiting"), UNCHANGED tools
        PROVE  Moves(t) /\ Ends(t)
        BY <1>1, <1>2, <2>2 DEF Start, Stages
  <2> QED
      BY <1>2, <2>1, <2>2 DEF Start
<1>3. CASE Released(t)
      BY <1>3, GiveUpMoves DEF Released, Stages, Settlements
<1>4. CASE Admitted(t)
  <2>1. ASSUME NEW outcome \in {"withdrawn", "skipped"}, GiveUp(t, outcome)
        PROVE  Moves(t) /\ Ends(t)
        BY <1>4, <2>1, GiveUpMoves DEF Admitted, Stages, Settlements
  <2>2. ASSUME task[t].kind # "refresh", Goes(t, "compiling"), UNCHANGED tools
        PROVE  Moves(t) /\ Ends(t)
        BY <1>1, <1>4, <2>2 DEF Admitted, Stages
  <2>3. ASSUME task[t].kind = "refresh", Goes(t, "done"), UNCHANGED <<aborted, armed>>
        PROVE  Moves(t) /\ Ends(t)
    <3>1. Moves(t) /\ task'[t].pc = "done"
          BY <1>4, <2>3, GoesMoves DEF Admitted, Stages, Settlements
    <3> QED
        BY <2>3, <3>1 DEF Ends
  <2> QED
      BY <1>4, <2>1, <2>2, <2>3 DEF Admitted
<1>5. CASE CompileFails(t)
      BY <1>5, GiveUpMoves DEF CompileFails, Stages, Settlements
<1>6. CASE Compiled(t)
  <2>1. ASSUME NEW outcome \in {"withdrawn", "skipped"}, GiveUp(t, outcome)
        PROVE  Moves(t) /\ Ends(t)
        BY <1>6, <2>1, GiveUpMoves DEF Compiled, Stages, Settlements
  <2>2. ASSUME Goes(t, "resolving"), UNCHANGED tools
        PROVE  Moves(t) /\ Ends(t)
        BY <1>1, <1>6, <2>2 DEF Compiled, Stages, KindInv
  <2> QED
      BY <1>6, <2>1, <2>2 DEF Compiled
<1>7. CASE Register(t)
  <2>1. PICK pc \in {"withdrawn", "registering", "refused"} : Goes(t, pc)
        BY <1>7 DEF Register, RegisterTool
  <2>2. /\ task[t].kind = "enqueue" /\ task[t].pc = "resolving"
        /\ UNCHANGED <<comp, issued, aborted, armed>>
        BY <1>7 DEF Register
  <2>3. Moves(t) /\ task'[t].pc = pc
        BY <2>1, <2>2, GoesMoves DEF Stages, Settlements
  <2> QED
      BY <2>1, <2>2, <2>3 DEF Ends
<1>8. CASE Replace(t)
  <2>1. /\ task[t].kind = "replace" /\ task[t].pc = "resolving"
        /\ UNCHANGED <<comp, issued, armed>>
        /\ \/ Goes(t, "overtaken") /\ aborted' = aborted
           \/ /\ Goes(t, "registering") \/ Goes(t, "refused")
              /\ aborted' = aborted \cup ({task[t].of} \ {Nobody})
        BY <1>8 DEF Replace, RegisterTool, tools
  <2>2. CASE Goes(t, "overtaken") /\ aborted' = aborted
    <3>1. Moves(t) /\ task'[t].pc = "overtaken"
          BY <2>1, <2>2, GoesMoves DEF Stages, Settlements
    <3> QED
        BY <2>1, <3>1 DEF Ends
  <2>3. ASSUME NEW pc \in {"registering", "refused"}, Goes(t, pc),
               aborted' = aborted \cup ({task[t].of} \ {Nobody})
        PROVE  Moves(t) /\ Ends(t)
    <3>1. Moves(t) /\ task'[t].pc = pc
          BY <2>1, <2>3, GoesMoves DEF Stages, Settlements
    <3> QED
        BY <2>1, <2>3, <3>1 DEF Ends
  <2> QED
      BY <2>1, <2>2, <2>3
<1>9. CASE Record(t)
  <2>1. /\ task[t].pc = "registering" /\ task[t].kind # "refresh"
        /\ UNCHANGED <<comp, issued, aborted>>
        BY <1>9 DEF Record, KindInv
  <2>2. PICK pc \in {"withdrawn", "done"} :
          Goes(t, pc) /\ armed' = IF pc = "done" THEN armed \cup {t} ELSE armed
        BY <1>9 DEF Record
  <2>3. Moves(t) /\ task'[t].pc = pc
        BY <2>1, <2>2, GoesMoves DEF Stages, Settlements
  <2> QED
      BY <2>1, <2>2, <2>3 DEF Ends, LeavingInv
<1> QED
    BY <1>2, <1>3, <1>4, <1>5, <1>6, <1>7, <1>8, <1>9 DEF Work, Continue

(* What a task replaces or refreshes was issued before it.                  *)
LEMMA OfIssued ==
  ASSUME GatewayInv
  PROVE  /\ \A s \in 1..issued : task[s].of \in 0..issued /\ task[s].of < s
         /\ issued \in Nat
<1>1. /\ \A s \in 1..issued : task[s] \in TaskRecord /\ task[s].of < s
      /\ issued \in Nat
      BY GatewayAssumption DEF GatewayInv, TypeOK
<1>2. \A s \in 1..issued : task[s].of \in 0..MaxTasks
      BY <1>1, GatewayAssumption DEF TaskRecord, Controllers, Tasks, Nobody
<1> QED
    BY <1>1, <1>2, GatewayAssumption

(* Such a step keeps everything about who owns what.                        *)
LEMMA WorkKeepsOwners ==
  ASSUME GatewayInv, OwnersInv, NEW t \in 1..issued, Work(t)
  PROVE  OwnersInv'
<1>1. /\ Moves(t) /\ Ends(t) /\ KindInv /\ LeavingInv /\ HeldInv /\ OwnedInv
      /\ \A s \in 1..issued : task[s].of \in 0..issued
      BY WorkMoves, OfIssued DEF OwnersInv
<1>2. KindInv'
      BY <1>1 DEF KindInv, Moves, Ends, Stages
<1>3. LeavingInv'
  <2> SUFFICES ASSUME NEW s \in 1..issued, task[s].kind = "replace", task[s].of # Nobody
               PROVE  /\ task'[task[s].of].name \in task[s].held
                      /\ (task'[s].pc \in Settlements \/ task'[s].pc = "registering") =>
                           task[s].of \in aborted' \/ task'[s].pc = "overtaken"
      BY <1>1 DEF LeavingInv, Moves, Settled
  <2>1. task[s].of \in 1..issued
        BY <1>1, GatewayAssumption DEF Nobody
  <2>2. CASE s = t
        BY <1>1, <2>1, <2>2 DEF LeavingInv, Moves, Ends
  <2>3. CASE s # t
        BY <1>1, <2>1, <2>3 DEF LeavingInv, Moves, Settled
  <2> QED
      BY <2>2, <2>3
<1>4. HeldInv'
      BY <1>1 DEF HeldInv, Moves, GatewayInv, IssueInv, Nobody
<1>5. OwnedInv'
      BY <1>1 DEF OwnedInv, Moves
<1> QED
    BY <1>2, <1>3, <1>4, <1>5 DEF OwnersInv

(* A task that is issued joins the end, and leaves the others as they are.  *)
Joins(new) ==
  /\ issued' = issued + 1 /\ issued \in Nat
  /\ task'[issued + 1] = new /\ new.pc = "queued"
  /\ \A s \in 1..issued : s \in 1..issued' /\ task'[s] = task[s]
  /\ \A s \in 1..issued' : s \in 1..issued \/ s = issued + 1
  /\ UNCHANGED <<aborted, armed, registry, record>>

LEMMA IssueJoins ==
  ASSUME GatewayInv, NEW new, new.pc = "queued", Issue(new), UNCHANGED tools
  PROVE  Joins(new)
<1>1. /\ issued \in Nat /\ issued' = issued + 1
      /\ task' = [t \in 1..(issued + 1) |-> IF t = issued + 1 THEN new ELSE task[t]]
      BY OfIssued DEF Issue
<1> QED
    BY <1>1 DEF Joins, tools

(* A component declares anew: what it held is the new task's to replace.     *)
LEMMA DeclaringKeepsOwners ==
  ASSUME GatewayInv, OwnersInv, NEW i \in Components, NEW r, NEW new, Joins(new),
         comp' = [comp EXCEPT ![i] = r], r.controller = issued + 1, r.name = new.name,
         new.kind = "replace" \/ (new.kind = "enqueue" /\ comp[i].controller = Nobody),
         new.kind = "replace" => new.of = comp[i].controller /\ comp[i].name \in new.held
  PROVE  OwnersInv'
<1> USE DEF Nobody
<1>1. /\ KindInv /\ LeavingInv /\ HeldInv /\ OwnedInv /\ issued \in Nat
      /\ \A s \in 1..issued : task[s].of \in 0..issued
      /\ \A j \in Components : comp[j].controller \in 0..issued
      /\ aborted \subseteq 1..issued /\ armed \subseteq 1..issued
      BY OfIssued DEF OwnersInv, GatewayInv, IssueInv
<1>2. /\ comp'[i] = r /\ \A j \in Components : j # i => comp'[j] = comp[j]
      BY DEF GatewayInv, TypeOK
<1>3. KindInv'
      BY <1>1 DEF KindInv, Joins
<1>4. LeavingInv'
  <2> SUFFICES ASSUME NEW t \in 1..issued', task'[t].kind = "replace", task'[t].of # 0
               PROVE  /\ task'[task'[t].of].name \in task'[t].held
                      /\ (task'[t].pc \in Settlements \/ task'[t].pc = "registering") =>
                           task'[t].of \in aborted \/ task'[t].pc = "overtaken"
      BY DEF LeavingInv, Settled, Joins
  <2>1. CASE t \in 1..issued
    <3>1. task'[t] = task[t] /\ task[t].of \in 1..issued /\ task'[task[t].of] = task[task[t].of]
          BY <1>1, <2>1 DEF Joins
    <3> QED
        BY <1>1, <2>1, <3>1 DEF LeavingInv, Settled
  <2>2. CASE t = issued + 1
    <3>1. task'[t] = new /\ new.of = comp[i].controller /\ comp[i].controller \in 1..issued
          BY <1>1, <2>2 DEF Joins
    <3>2. task'[new.of].name = comp[i].name
          BY <1>1, <3>1 DEF HeldInv, Joins
    <3> QED
        BY <3>1, <3>2 DEF Joins, Settlements
  <2> QED
      BY <2>1, <2>2 DEF Joins
<1>5. HeldInv'
  <2> SUFFICES ASSUME NEW j \in Components, comp'[j].controller # 0
               PROVE  LET c == comp'[j].controller IN
                      /\ c \notin aborted /\ task'[c].name = comp'[j].name /\ task'[c].kind # "refresh"
                      /\ \A k \in Components : comp'[k].controller = c => k = j
                      /\ \A t \in 1..issued' : task'[t].kind = "replace" => task'[t].of # c
      BY DEF HeldInv, Joins
  <2>1. CASE j = i
    <3>1. /\ \A t \in 1..issued' : task'[t].kind = "replace" => task'[t].of # issued + 1
          BY <1>1 DEF Joins
    <3> QED
        BY <1>1, <1>2, <2>1, <3>1 DEF Joins
  <2>2. CASE j # i
    <3>1. comp'[j] = comp[j] /\ comp[j].controller \in 1..issued
          BY <1>1, <1>2, <2>2
    <3>2. \A t \in 1..issued' : task'[t].kind = "replace" => task'[t].of # comp[j].controller
          BY <1>1, <2>2, <3>1 DEF HeldInv, Joins
    <3> QED
        BY <1>1, <1>2, <2>2, <3>1, <3>2 DEF HeldInv, Joins
  <2> QED
      BY <2>1, <2>2
<1>6. OwnedInv'
  <2> SUFFICES ASSUME NEW c \in 1..issued', task'[c].kind # "refresh", c \notin aborted
               PROVE  \/ \E j \in Components : comp'[j].controller = c
                      \/ \E t \in 1..issued' : task'[t].kind = "replace" /\ task'[t].of = c
      BY DEF OwnedInv, Joins
  <2>1. CASE c = issued + 1
        BY <1>2, <2>1
  <2>2. CASE c \in 1..issued
    <3>1. CASE \E t \in 1..issued : task[t].kind = "replace" /\ task[t].of = c
          BY <3>1 DEF Joins
    <3>2. CASE \E j \in Components : comp[j].controller = c
      <4>1. PICK j \in Components : comp[j].controller = c
            BY <3>2
      <4>2. CASE j # i
            BY <1>2, <4>1, <4>2
      <4>3. CASE j = i
        <5>1. new.kind = "replace" /\ new.of = c /\ issued + 1 \in 1..issued'
              BY <1>1, <2>2, <4>1, <4>3 DEF Joins
        <5> QED
            BY <5>1 DEF Joins
      <4> QED
          BY <4>2, <4>3
    <3> QED
        BY <1>1, <2>2, <3>1, <3>2 DEF OwnedInv, Joins
  <2> QED
      BY <2>1, <2>2 DEF Joins
<1> QED
    BY <1>3, <1>4, <1>5, <1>6 DEF OwnersInv

(* A refresh is issued, and moves nothing that is owned.                    *)
LEMMA RefreshingKeepsOwners ==
  ASSUME GatewayInv, OwnersInv, NEW new, Joins(new), new.kind = "refresh",
         \A j \in Components : /\ comp'[j].controller = comp[j].controller
                               /\ comp'[j].name = comp[j].name
  PROVE  OwnersInv'
<1> USE DEF Nobody
<1>1. /\ KindInv /\ LeavingInv /\ HeldInv /\ OwnedInv /\ issued \in Nat
      /\ \A s \in 1..issued : task[s].of \in 0..issued
      /\ \A j \in Components : comp[j].controller \in 0..issued
      /\ aborted \subseteq 1..issued /\ armed \subseteq 1..issued
      BY OfIssued DEF OwnersInv, GatewayInv, IssueInv
<1>2. KindInv'
      BY <1>1 DEF KindInv, Joins
<1>3. LeavingInv'
  <2> SUFFICES ASSUME NEW t \in 1..issued', task'[t].kind = "replace", task'[t].of # 0
               PROVE  /\ task'[task'[t].of].name \in task'[t].held
                      /\ (task'[t].pc \in Settlements \/ task'[t].pc = "registering") =>
                           task'[t].of \in aborted \/ task'[t].pc = "overtaken"
      BY DEF LeavingInv, Settled, Joins
  <2>1. t \in 1..issued /\ task'[t] = task[t]
        BY DEF Joins
  <2>2. task[t].of \in 1..issued /\ task'[task[t].of] = task[task[t].of]
        BY <1>1, <2>1 DEF Joins
  <2> QED
      BY <1>1, <2>1, <2>2 DEF LeavingInv, Settled
<1>4. HeldInv'
  <2> SUFFICES ASSUME NEW j \in Components, comp[j].controller # 0
               PROVE  LET c == comp[j].controller IN
                      /\ c \notin aborted /\ task'[c].name = comp[j].name /\ task'[c].kind # "refresh"
                      /\ \A k \in Components : comp[k].controller = c => k = j
                      /\ \A t \in 1..issued' : task'[t].kind = "replace" => task'[t].of # c
      BY DEF HeldInv, Joins
  <2>1. comp[j].controller \in 1..issued
        BY <1>1
  <2> QED
      BY <1>1, <2>1 DEF HeldInv, Joins
<1>5. OwnedInv'
      BY <1>1 DEF OwnedInv, Joins
<1> QED
    BY <1>2, <1>3, <1>4, <1>5 DEF OwnersInv

(* A component gives up what it holds, and takes nothing in its place.       *)
LEMMA WithdrawingKeepsOwners ==
  ASSUME GatewayInv, OwnersInv, NEW i \in Components, Abort(comp[i].controller),
         NEW r, r.controller = Nobody, comp' = [comp EXCEPT ![i] = r], UNCHANGED <<issued, task>>
  PROVE  OwnersInv'
<1>1. /\ KindInv /\ LeavingInv /\ HeldInv /\ OwnedInv
      /\ comp'[i] = r /\ \A j \in Components : j # i => comp'[j] = comp[j]
      /\ armed' = armed /\ UNCHANGED <<issued, task>>
      /\ aborted' = aborted \cup ({comp[i].controller} \ {Nobody})
      BY DEF OwnersInv, GatewayInv, TypeOK, Abort
<1>2. KindInv' /\ LeavingInv'
      BY <1>1 DEF KindInv, LeavingInv, Settled
<1>3. HeldInv'
      BY <1>1 DEF HeldInv
<1>4. OwnedInv'
      BY <1>1 DEF OwnedInv, GatewayInv, IssueInv
<1> QED
    BY <1>2, <1>3, <1>4 DEF OwnersInv

LEMMA RenderKeepsOwners ==
  ASSUME GatewayInv, OwnersInv, NEW i \in Components, Render(i)
  PROVE  OwnersInv'
<1>1. /\ comp \in [Components -> CompRecord(Controllers)] /\ None \notin Names
      /\ issued \in Nat
      BY GatewayAssumption, OfIssued DEF GatewayInv, TypeOK
<1>2. comp[i].controller # Nobody => Mounted(i)
  <2>1. comp[i].controller # Nobody => comp[i].name \in Names
        BY GatewayAssumption DEF OwnersInv, HeldInv, GatewayInv, IssueInv, TypeOK, TaskRecord, Nobody
  <2> QED
      BY <1>1, <2>1 DEF Mounted
<1>3. ASSUME NEW n \in Names, NEW p \in Permissions, Mount(i, n, p)
      PROVE  OwnersInv'
  <2>1. comp[i].controller = Nobody
        BY <1>2, <1>3 DEF Mount
  <2>2. CASE n \in Reserved
    <3> DEFINE r == [name |-> n, permissions |-> p, due |-> None, controller |-> Nobody]
    <3>1. /\ comp' = [comp EXCEPT ![i] = r] /\ r.controller = Nobody
          /\ UNCHANGED <<issued, task, tools>>
          BY <1>3, <2>2 DEF Mount
    <3>2. Abort(comp[i].controller)
          BY <2>1, <3>1 DEF Abort, Cleared, tools, GatewayInv, IssueInv, Nobody
    <3> QED
        BY <3>1, <3>2, WithdrawingKeepsOwners
  <2>3. CASE n \notin Reserved
    <3> DEFINE r == [name |-> n, permissions |-> p, due |-> None, controller |-> issued + 1]
               new == NewTask("enqueue", n, {n}, Nobody, p)
    <3>1. /\ comp' = [comp EXCEPT ![i] = r] /\ r.controller = issued + 1 /\ r.name = new.name
          /\ Issue(new) /\ UNCHANGED tools /\ new.pc = "queued" /\ new.kind = "enqueue"
          BY <1>3, <2>3 DEF Mount, NewTask
    <3> HIDE DEF r, new
    <3> QED
        BY <2>1, <3>1, IssueJoins, DeclaringKeepsOwners
  <2> QED
      BY <2>2, <2>3
<1>4. ASSUME NEW n \in Names, NEW d, NEW p, Permit(i, n, d, p)
      PROVE  OwnersInv'
  <2> DEFINE new == NewTask("refresh", n, {n}, comp[i].controller, p)
  <2>1. /\ Issue(new) /\ UNCHANGED tools /\ new.pc = "queued" /\ new.kind = "refresh"
        /\ comp' = [comp EXCEPT ![i].permissions = p, ![i].due = d]
        BY <1>4 DEF Permit, NewTask
  <2>2. \A j \in Components : /\ comp'[j].controller = comp[j].controller
                              /\ comp'[j].name = comp[j].name
        BY <1>1, <2>1 DEF CompRecord
  <2> HIDE DEF new
  <2> QED
      BY <2>1, <2>2, IssueJoins, RefreshingKeepsOwners
<1>5. ASSUME NEW n \in Names, Change(i, n)
      PROVE  OwnersInv'
  <2> DEFINE r == [comp[i] EXCEPT !.name = n, !.controller = issued + 1, !.due = None]
             new == NewTask("replace", n, {n, comp[i].name}, comp[i].controller, comp[i].permissions)
  <2>1. /\ comp' = [comp EXCEPT ![i] = r] /\ Issue(new) /\ UNCHANGED tools
        /\ new.pc = "queued" /\ new.kind = "replace" /\ new.of = comp[i].controller
        /\ new.name = n /\ comp[i].name \in new.held
        BY <1>1, <1>5 DEF Change, Declares, NewTask
  <2>2. r.controller = issued + 1 /\ r.name = new.name
        BY <1>1, <2>1 DEF CompRecord
  <2> HIDE DEF r, new
  <2> QED
      BY <2>1, <2>2, IssueJoins, DeclaringKeepsOwners
<1>6. ASSUME NEW n \in Names, ChangeToReserved(i, n)
      PROVE  OwnersInv'
  <2> DEFINE r == [comp[i] EXCEPT !.name = n, !.controller = Nobody, !.due = None]
  <2>1. /\ comp' = [comp EXCEPT ![i] = r] /\ Abort(comp[i].controller) /\ UNCHANGED <<issued, task>>
        BY <1>1, <1>6 DEF ChangeToReserved
  <2>2. r.controller = Nobody
        BY <1>1 DEF CompRecord
  <2> HIDE DEF r
  <2> QED
      BY <2>1, <2>2, WithdrawingKeepsOwners
<1>7. ASSUME Unmount(i)
      PROVE  OwnersInv'
      BY <1>7, WithdrawingKeepsOwners DEF Unmount, NotMounted
<1> QED
    BY <1>3, <1>4, <1>5, <1>6, <1>7 DEF Render

(* The provider and other scripts own nothing of this.                      *)
LEMMA EnvironmentKeepsOwners ==
  ASSUME GatewayInv, OwnersInv,
         Open \/ Close \/ \E n \in Names : ForeignTakes(n) \/ ForeignLeaves(n)
  PROVE  OwnersInv'
<1>1. KindInv /\ LeavingInv /\ HeldInv /\ OwnedInv /\ task \in [1..issued -> TaskRecord]
      BY DEF OwnersInv, GatewayInv, TypeOK
<1>2. /\ UNCHANGED <<comp, issued, aborted, armed>>
      /\ \A s \in 1..issued :
           /\ task'[s].kind = task[s].kind /\ task'[s].of = task[s].of
           /\ task'[s].name = task[s].name /\ task'[s].held = task[s].held
           /\ \/ task'[s].pc = task[s].pc
              \/ task[s].pc = "waiting" /\ task'[s].pc \in {"admitted", "released"}
  <2>1. CASE \E pc \in {"admitted", "released"} : task' = Woken(pc)
        BY <1>1, <2>1 DEF Woken, Open, Close, ForeignTakes, ForeignLeaves, tools, TaskRecord
  <2>2. CASE task' = task
        BY <2>2 DEF Open, Close, ForeignTakes, ForeignLeaves, tools
  <2> QED
      BY <2>1, <2>2 DEF Open, Close, ForeignTakes, ForeignLeaves
<1>3. KindInv' /\ OwnedInv'
      BY <1>1, <1>2 DEF KindInv, OwnedInv
<1>4. LeavingInv'
  <2>1. \A s \in 1..issued : task[s].of \in 0..issued
        BY OfIssued
  <2> QED
      BY <1>1, <1>2, <2>1 DEF LeavingInv, Settled, Settlements, Nobody
<1>5. HeldInv'
      BY <1>1, <1>2 DEF HeldInv, GatewayInv, IssueInv, Nobody
<1> QED
    BY <1>3, <1>4, <1>5 DEF OwnersInv

-----------------------------------------------------------------------------
(***************************************************************************)
(* Permissions.                                                            *)
(***************************************************************************)

(* Withdrawing one registration leaves the entries of the others.            *)
LEMMA ClearedKeepsEntries ==
  ASSUME GatewayInv, NEW o, record' = Cleared(o), o \in aborted' \/ o = Nobody, aborted \subseteq aborted'
  PROVE  \A c \in armed \ aborted' : record'[task[c].name] = record[task[c].name]
<1> SUFFICES ASSUME NEW c \in armed \ aborted'
             PROVE  record'[task[c].name] = record[task[c].name]
    OBVIOUS
<1>1. /\ task[c].name \in Names /\ registry[task[c].name] = c
      /\ c \in 1..issued /\ record \in [Names -> Entry] /\ Nobody \notin armed
      BY DEF GatewayInv, IssueInv, ToolsInv, ArmedInv, TypeOK, TaskRecord, Nobody
<1>2. o \in armed \ aborted => task[o].name # task[c].name
      BY <1>1 DEF GatewayInv, ToolsInv, ArmedInv, Nobody
<1> QED
    BY <1>1, <1>2 DEF Cleared

(* What keeps the entries and the tasks carried out keeps WrittenInv.        *)
LEMMA WrittenStays ==
  ASSUME WrittenInv,
         \A c \in armed' \ aborted' :
           /\ c \in armed \ aborted /\ Carried(c)' = Carried(c) /\ task'[c].name = task[c].name
           /\ record'[task[c].name].permissions = record[task[c].name].permissions
           /\ \A t \in Carried(c) : task'[t].permissions = task[t].permissions
  PROVE  WrittenInv'
<1> SUFFICES ASSUME NEW c \in armed' \ aborted'
             PROVE  \E t \in Carried(c)' :
                      /\ record'[task'[c].name].permissions = task'[t].permissions
                      /\ \A s \in Carried(c)' : s <= t
    BY DEF WrittenInv
<1>1. PICK t \in Carried(c) : /\ record[task[c].name].permissions = task[t].permissions
                              /\ \A s \in Carried(c) : s <= t
      BY DEF WrittenInv
<1> QED
    BY <1>1

(* What a task's step writes: nothing that stands but, if it carries a task   *)
(* out, that task's own entry.                                              *)
Writes(t) ==
  \/ /\ armed' = armed /\ task'[t].pc # "done"
     /\ \A c \in armed \ aborted' : record'[task[c].name] = record[task[c].name]
  \/ task[t].pc # "registering" /\ task'[t].pc = "done" /\ Rewrite(t) /\ UNCHANGED <<aborted, armed>>
     /\ task[t].kind = "refresh"
  \/ /\ task[t].pc = "registering" /\ t \notin aborted /\ task'[t].pc = "done"
     /\ aborted' = aborted /\ armed' = armed \cup {t}
     /\ record' = [record EXCEPT ![task[t].name] = OwnEntry(t)]

LEMMA WorkWrites ==
  ASSUME GatewayInv, NEW t \in 1..issued, Work(t)
  PROVE  Writes(t)
<1>1. ASSUME NEW pc \in Stages \cup Settlements, Goes(t, pc), pc # "done", armed' = armed,
             \A c \in armed \ aborted' : record'[task[c].name] = record[task[c].name]
      PROVE  Writes(t)
      BY <1>1, GoesKeepsTasks DEF Writes, GatewayInv, TypeOK
<1>2. ASSUME NEW outcome \in Settlements \ {"done"}, GiveUp(t, outcome)
      PROVE  Writes(t)
  <2>1. Goes(t, outcome) /\ armed' = armed
        BY <1>2 DEF GiveUp, Abort, tools
  <2>2. \A c \in armed \ aborted' : record'[task[c].name] = record[task[c].name]
    <3>1. CASE task[t].kind = "replace"
      <4>1. /\ record' = Cleared(task[t].of) /\ aborted \subseteq aborted'
            /\ task[t].of \in aborted' \/ task[t].of = Nobody
            BY <1>2, <3>1 DEF GiveUp, Abort
      <4> QED
          BY <4>1, ClearedKeepsEntries
    <3>2. CASE task[t].kind # "replace"
          BY <1>2, <3>2 DEF GiveUp, tools
    <3> QED
        BY <3>1, <3>2
  <2> QED
      BY <1>1, <2>1, <2>2
<1>3. CASE \E pc \in Stages : Goes(t, pc) /\ UNCHANGED tools
      BY <1>1, <1>3 DEF tools, Stages
<1>4. CASE \E outcome \in {"withdrawn", "skipped", "failed"} : GiveUp(t, outcome)
      BY <1>2, <1>4 DEF Settlements
<1>5. CASE Start(t)
      BY <1>3, <1>4, <1>5 DEF Start, Stages
<1>6. CASE Admitted(t)
  <2>1. CASE task[t].kind = "refresh" /\ Goes(t, "done") /\ Rewrite(t) /\ UNCHANGED <<aborted, armed, registry>>
    <3>1. task'[t].pc = "done" /\ task[t].pc # "registering"
          BY <1>6, <2>1, GoesKeepsTasks DEF Admitted, Settlements, GatewayInv, TypeOK
    <3> QED
        BY <2>1, <3>1 DEF Writes
  <2> QED
      BY <1>3, <1>4, <1>6, <2>1 DEF Admitted, Stages
<1>7. CASE Compiled(t)
      BY <1>3, <1>4, <1>7 DEF Compiled, Stages
<1>8. CASE Register(t)
      BY <1>1, <1>8 DEF Register, RegisterTool, Stages, Settlements
<1>9. CASE Replace(t)
  <2>1. CASE Goes(t, "overtaken") /\ UNCHANGED tools
        BY <1>1, <2>1 DEF tools, Settlements
  <2>2. CASE /\ Goes(t, "registering") \/ Goes(t, "refused")
             /\ aborted' = aborted \cup ({task[t].of} \ {Nobody})
             /\ record' = Cleared(task[t].of) /\ armed' = armed
    <3>1. \A c \in armed \ aborted' : record'[task[c].name] = record[task[c].name]
          BY <2>2, ClearedKeepsEntries
    <3> QED
        BY <1>1, <2>2, <3>1 DEF Stages, Settlements
  <2> QED
      BY <1>9, <2>1, <2>2 DEF Replace, RegisterTool
<1>10. CASE Record(t)
  <2>1. task[t].pc = "registering" /\ aborted' = aborted /\ task[t].name \in Names
        BY <1>10 DEF Record, GatewayInv, TypeOK, TaskRecord
  <2>2. CASE t \in aborted
    <3>1. /\ Goes(t, "withdrawn") /\ armed' = armed
          /\ record' = [record EXCEPT ![task[t].name] = NoEntry]
          BY <1>10, <2>2 DEF Record
    <3>2. ASSUME NEW c \in armed \ aborted'
          PROVE  record'[task[c].name] = record[task[c].name]
      <4>1. /\ registry[task[t].name] \notin Tasks /\ registry[task[c].name] = c /\ c \in Tasks
            BY <2>1, <2>2, <3>2, GatewayAssumption
               DEF GatewayInv, ToolsInv, SettlingInv, ArmedInv, TypeOK
      <4> QED
          BY <2>1, <3>1, <4>1 DEF GatewayInv, TypeOK
    <3> QED
        BY <1>1, <3>1, <3>2 DEF Settlements
  <2>3. CASE t \notin aborted
    <3>1. Goes(t, "done")
          BY <1>10, <2>3 DEF Record
    <3>2. task'[t].pc = "done"
          BY <3>1, GoesKeepsTasks DEF Settlements, GatewayInv, TypeOK
    <3> QED
        BY <1>10, <2>1, <2>3, <3>2 DEF Record, Writes
  <2> QED
      BY <2>2, <2>3
<1>11. CASE Released(t) \/ CompileFails(t)
       BY <1>4, <1>11 DEF Released, CompileFails
<1> QED
    BY <1>5, <1>6, <1>7, <1>8, <1>9, <1>10, <1>11 DEF Work, Continue

LEMMA WorkKeepsPermissions ==
  ASSUME GatewayInv, OwnersInv, PermissionsInv, NEW t \in 1..issued, Work(t)
  PROVE  PermissionsInv'
<1>1. /\ Moves(t) /\ Writes(t) /\ AskedInv /\ WrittenInv /\ KindInv /\ ArmedInv /\ ChainInv
      /\ issued \in Nat /\ armed \subseteq 1..issued /\ record \in [Names -> Entry]
      BY WorkMoves, WorkWrites, OfIssued
         DEF PermissionsInv, OwnersInv, GatewayInv, IssueInv, TypeOK, ToolsInv
<1>2. \A s \in 1..issued : Own(s)' = Own(s) /\ task[s].name \in Names /\ task[s].name \in task[s].held
      BY <1>1 DEF Own, Moves, GatewayInv, TypeOK, TaskRecord, IssueInv
<1>3. AskedInv'
  <2> SUFFICES ASSUME NEW i \in Components, comp[i].controller # Nobody
               PROVE  LET c == comp[i].controller IN
                      /\ \E s \in 1..issued :
                           /\ Own(s)' = c /\ task'[s].permissions = comp[i].permissions
                           /\ \A u \in 1..issued : Own(u)' = c => u <= s
                      /\ comp[i].due = None =>
                           \A s \in 1..issued : Own(s)' = c => task'[s].name = comp[i].name
      BY <1>1 DEF AskedInv, Moves
  <2> QED
      BY <1>1, <1>2 DEF AskedInv, Moves
<1>4. \A c \in 1..issued : Carried(c)' \subseteq Carried(c) \cup {t} /\ t \notin Carried(c)
                           /\ Carried(c) \subseteq Carried(c)'
      BY <1>1, <1>2 DEF Carried, Moves, Stages
<1>5. CASE /\ armed' = armed /\ task'[t].pc # "done"
           /\ \A c \in armed \ aborted' : record'[task[c].name] = record[task[c].name]
  <2>1. \A c \in 1..issued : Carried(c)' = Carried(c)
        BY <1>4, <1>5 DEF Carried
  <2>2. \A c \in armed' \ aborted' :
           /\ c \in armed \ aborted /\ Carried(c)' = Carried(c) /\ task'[c].name = task[c].name
           /\ record'[task[c].name].permissions = record[task[c].name].permissions
           /\ \A s \in Carried(c) : task'[s].permissions = task[s].permissions
        BY <1>1, <1>5, <2>1 DEF Moves, Carried
  <2> QED
      BY <1>1, <1>3, <2>2, WrittenStays DEF PermissionsInv
<1>6. ASSUME task[t].pc # "registering", task'[t].pc = "done", Rewrite(t), UNCHANGED <<aborted, armed>>,
             task[t].kind = "refresh"
      PROVE  PermissionsInv'
  <2>1. ASSUME NEW c \in armed \ aborted
        PROVE  \E u \in Carried(c)' : /\ record'[task'[c].name].permissions = task'[u].permissions
                                      /\ \A s \in Carried(c)' : s <= u
    <3>1. /\ c \in 1..issued /\ task'[c].name = task[c].name /\ task[c].name \in Names
          /\ record[task[c].name].controller = c /\ c # Nobody
          /\ Own(t) = task[t].of
          BY <1>1, <1>2, <1>6, <2>1 DEF ArmedInv, Moves, Own, Nobody
    <3>2. PICK u \in Carried(c) : /\ record[task[c].name].permissions = task[u].permissions
                                  /\ \A s \in Carried(c) : s <= u
          BY <1>1, <2>1 DEF WrittenInv
    <3>3. CASE task[t].of = c /\ task[t].name = task[c].name
      <4>1. record'[task[c].name].permissions = task[t].permissions
            BY <1>1, <1>6, <3>1, <3>3 DEF Rewrite, Entry
      <4>2. t \in Carried(c)' /\ task'[t].permissions = task[t].permissions
            BY <1>1, <1>2, <1>6, <3>1, <3>3 DEF Carried, Moves
      <4>3. ASSUME NEW s \in Carried(c)
            PROVE  s <= t
        <5>1. /\ s \in 1..issued /\ task[s].pc = "done" /\ task[s].held \cap task[t].held # {}
              /\ task[t].held \cap task[s].held # {}
              BY <1>2, <3>3, <4>3 DEF Carried
        <5> QED
            BY <1>1, <5>1 DEF ChainInv, Settled, Moves, Stages, Settlements
      <4> QED
          BY <1>1, <1>4, <3>1, <4>1, <4>2, <4>3
    <3>4. CASE ~(task[t].of = c /\ task[t].name = task[c].name)
      <4>1. record'[task[c].name].permissions = record[task[c].name].permissions
            BY <1>1, <1>2, <1>6, <3>1, <3>4 DEF Rewrite, Entry
      <4>2. t \notin Carried(c)'
            BY <1>1, <1>2, <3>1, <3>4 DEF Carried, Moves
      <4>3. Carried(c)' = Carried(c)
            BY <1>4, <3>1, <4>2
      <4>4. task'[u].permissions = task[u].permissions
            BY <1>1, <3>2 DEF Carried, Moves
      <4> QED
          BY <3>1, <3>2, <4>1, <4>3, <4>4
    <3> QED
        BY <3>3, <3>4
  <2> QED
      BY <1>3, <1>6, <2>1 DEF PermissionsInv, WrittenInv
<1>7. ASSUME task[t].pc = "registering", t \notin aborted, task'[t].pc = "done", aborted' = aborted,
             armed' = armed \cup {t}, record' = [record EXCEPT ![task[t].name] = OwnEntry(t)]
      PROVE  PermissionsInv'
  <2>0. task[t].kind # "refresh" /\ Own(t) = t /\ registry[task[t].name] = t
        BY <1>1, <1>7 DEF KindInv, Own, GatewayInv, ToolsInv, SettlingInv
  <2>1. ASSUME NEW c \in armed' \ aborted'
        PROVE  \E u \in Carried(c)' : /\ record'[task'[c].name].permissions = task'[u].permissions
                                      /\ \A s \in Carried(c)' : s <= u
    <3>1. CASE c = t
      <4>1. record'[task'[t].name].permissions = task'[t].permissions
            BY <1>1, <1>2, <1>7 DEF OwnEntry, Moves
      <4>2. t \in Carried(t)'
            BY <1>1, <1>2, <1>7, <2>0 DEF Carried, Moves
      <4>3. ASSUME NEW s \in Carried(t)
            PROVE  s <= t
        <5>1. /\ s \in 1..issued /\ task[s].pc = "done" /\ task[s].held \cap task[t].held # {}
              /\ task[t].held \cap task[s].held # {}
              BY <1>2, <4>3 DEF Carried
        <5> QED
            BY <1>1, <5>1 DEF ChainInv, Settled, Moves, Stages, Settlements
      <4> QED
          BY <1>1, <1>4, <3>1, <4>1, <4>2, <4>3
    <3>2. CASE c # t
      <4>1. /\ c \in armed \ aborted /\ c \in 1..issued /\ registry[task[c].name] = c
            /\ task[c].name # task[t].name
            BY <1>1, <1>7, <2>0, <2>1, <3>2 DEF ArmedInv
      <4>2. record'[task[c].name] = record[task[c].name] /\ task'[c].name = task[c].name
            BY <1>1, <1>2, <1>7, <4>1 DEF Moves
      <4>3. t \notin Carried(c)'
            BY <1>1, <1>2, <2>0, <3>2 DEF Carried
      <4>4. Carried(c)' = Carried(c)
            BY <1>4, <4>1, <4>3
      <4>5. PICK u \in Carried(c) : /\ record[task[c].name].permissions = task[u].permissions
                                    /\ \A s \in Carried(c) : s <= u
            BY <1>1, <4>1 DEF WrittenInv
      <4>6. task'[u].permissions = task[u].permissions
            BY <1>1, <4>5 DEF Carried, Moves
      <4> QED
          BY <4>2, <4>4, <4>5, <4>6
    <3> QED
        BY <3>1, <3>2
  <2> QED
      BY <1>3, <2>1 DEF PermissionsInv, WrittenInv
<1> QED
    BY <1>1, <1>5, <1>6, <1>7 DEF Writes

(* A task that joins is not carried out yet.                                *)
LEMMA JoiningKeepsWritten ==
  ASSUME GatewayInv, WrittenInv, NEW new, Joins(new)
  PROVE  WrittenInv'
<1>1. armed \subseteq 1..issued /\ issued \in Nat
      BY OfIssued DEF GatewayInv, IssueInv
<1>2. \A c \in 1..issued : Carried(c)' = Carried(c)
      BY <1>1 DEF Carried, Own, Joins
<1> QED
    BY <1>1, <1>2, WrittenStays DEF Joins, Carried

LEMMA DeclaringKeepsAsked ==
  ASSUME GatewayInv, HeldInv, AskedInv, NEW i \in Components, NEW r, NEW new, Joins(new),
         comp' = [comp EXCEPT ![i] = r], r.controller = issued + 1, r.name = new.name,
         r.permissions = new.permissions, new.kind # "refresh"
  PROVE  AskedInv'
<1>1. /\ issued \in Nat /\ \A s \in 1..issued : task[s].of \in 0..issued
      /\ \A j \in Components : comp[j].controller \in 0..issued
      /\ comp'[i] = r /\ \A j \in Components : j # i => comp'[j] = comp[j]
      BY OfIssued DEF GatewayInv, TypeOK, IssueInv
<1>2. /\ \A s \in 1..issued : Own(s)' = Own(s) /\ Own(s) \in 0..issued
      /\ \A s \in 1..issued' : s = issued + 1 => Own(s)' = issued + 1
      BY <1>1 DEF Own, Joins
<1> SUFFICES ASSUME NEW j \in Components, comp'[j].controller # Nobody
             PROVE  LET c == comp'[j].controller IN
                    /\ \E t \in 1..issued' :
                         /\ Own(t)' = c /\ task'[t].permissions = comp'[j].permissions
                         /\ \A s \in 1..issued' : Own(s)' = c => s <= t
                    /\ comp'[j].due = None =>
                         \A t \in 1..issued' : Own(t)' = c => task'[t].name = comp'[j].name
    BY DEF AskedInv
<1>3. CASE j = i
  <2>1. \A s \in 1..issued' : Own(s)' = issued + 1 => s = issued + 1
        BY <1>1, <1>2 DEF Joins
  <2> QED
      BY <1>1, <1>2, <1>3, <2>1 DEF Joins
<1>4. CASE j # i
  <2>1. comp'[j] = comp[j] /\ comp[j].controller # issued + 1
        BY <1>1, <1>4
  <2> QED
      BY <1>1, <1>2, <2>1 DEF AskedInv, Joins
<1> QED
    BY <1>3, <1>4

LEMMA RefreshingKeepsAsked ==
  ASSUME GatewayInv, HeldInv, AskedInv, NEW i \in Components, NEW new, Joins(new),
         new.kind = "refresh", new.of = comp[i].controller, NEW d, NEW p, new.permissions = p,
         comp' = [comp EXCEPT ![i].permissions = p, ![i].due = d],
         comp[i].due = None, d = None => new.name = comp[i].name
  PROVE  AskedInv'
<1>1. /\ issued \in Nat /\ \A j \in Components : comp[j].controller \in 0..issued
      /\ comp'[i].controller = comp[i].controller /\ comp'[i].name = comp[i].name
      /\ comp'[i].permissions = p /\ comp'[i].due = d
      /\ \A j \in Components : j # i => comp'[j] = comp[j]
      BY OfIssued DEF GatewayInv, TypeOK, IssueInv, CompRecord
<1>2. /\ \A s \in 1..issued : Own(s)' = Own(s)
      /\ \A s \in 1..issued' : s = issued + 1 => Own(s)' = comp[i].controller
      BY <1>1 DEF Own, Joins
<1> SUFFICES ASSUME NEW j \in Components, comp'[j].controller # Nobody
             PROVE  LET c == comp'[j].controller IN
                    /\ \E t \in 1..issued' :
                         /\ Own(t)' = c /\ task'[t].permissions = comp'[j].permissions
                         /\ \A s \in 1..issued' : Own(s)' = c => s <= t
                    /\ comp'[j].due = None =>
                         \A t \in 1..issued' : Own(t)' = c => task'[t].name = comp'[j].name
    BY DEF AskedInv
<1>3. CASE j = i
  <2>1. /\ issued + 1 \in 1..issued' /\ \A s \in 1..issued' : s <= issued + 1
        /\ task'[issued + 1].permissions = p
        BY <1>1 DEF Joins
  <2>2. ASSUME d = None, NEW t \in 1..issued', Own(t)' = comp[i].controller
        PROVE  task'[t].name = comp[i].name
        BY <1>1, <1>2, <1>3, <2>2 DEF AskedInv, Joins
  <2> QED
      BY <1>1, <1>2, <1>3, <2>1, <2>2
<1>4. CASE j # i
  <2>1. comp'[j] = comp[j] /\ comp[j].controller # comp[i].controller
        BY <1>1, <1>4 DEF HeldInv
  <2>2. \A s \in 1..issued' : Own(s)' = comp[j].controller =>
          s \in 1..issued /\ Own(s) = comp[j].controller /\ task'[s] = task[s]
        BY <1>1, <1>2, <2>1 DEF Joins
  <2>3. PICK t \in 1..issued : /\ Own(t) = comp[j].controller
                               /\ task[t].permissions = comp[j].permissions
                               /\ \A s \in 1..issued : Own(s) = comp[j].controller => s <= t
        BY <2>1 DEF AskedInv
  <2>4. t \in 1..issued' /\ Own(t)' = comp[j].controller /\ task'[t] = task[t]
        BY <1>2, <2>3 DEF Joins
  <2>5. comp[j].due = None => \A s \in 1..issued : Own(s) = comp[j].controller =>
                                                   task[s].name = comp[j].name
        BY <2>1 DEF AskedInv
  <2> QED
      BY <2>1, <2>2, <2>3, <2>4, <2>5
<1> QED
    BY <1>3, <1>4

LEMMA WithdrawingKeepsPermissions ==
  ASSUME GatewayInv, PermissionsInv, NEW i \in Components, Abort(comp[i].controller),
         NEW r, r.controller = Nobody, comp' = [comp EXCEPT ![i] = r], UNCHANGED <<issued, task>>
  PROVE  PermissionsInv'
<1>1. /\ comp'[i] = r /\ \A j \in Components : j # i => comp'[j] = comp[j]
      /\ armed' = armed /\ record' = Cleared(comp[i].controller) /\ aborted \subseteq aborted'
      /\ comp[i].controller \in aborted' \/ comp[i].controller = Nobody
      BY DEF Abort, GatewayInv, TypeOK
<1>2. AskedInv'
      BY <1>1 DEF PermissionsInv, AskedInv, Own
<1>3. WrittenInv'
  <2>1. \A c \in armed \ aborted' : record'[task[c].name] = record[task[c].name]
        BY <1>1, ClearedKeepsEntries
  <2>2. \A c \in armed' \ aborted' : Carried(c)' = Carried(c) /\ c \in armed \ aborted
        BY <1>1 DEF Carried, Own
  <2> QED
      BY <1>1, <2>1, <2>2, WrittenStays DEF PermissionsInv
<1> QED
    BY <1>2, <1>3 DEF PermissionsInv

LEMMA RenderKeepsPermissions ==
  ASSUME GatewayInv, OwnersInv, PermissionsInv, NEW i \in Components, Render(i)
  PROVE  PermissionsInv'
<1>1. /\ comp \in [Components -> CompRecord(Controllers)] /\ HeldInv /\ AskedInv /\ WrittenInv
      BY DEF GatewayInv, TypeOK, OwnersInv, PermissionsInv
<1>2. ASSUME NEW n \in Names, NEW p \in Permissions, Mount(i, n, p)
      PROVE  PermissionsInv'
  <2>1. CASE n \in Reserved
    <3> DEFINE r == [name |-> n, permissions |-> p, due |-> None, controller |-> Nobody]
    <3>1. /\ comp' = [comp EXCEPT ![i] = r] /\ r.controller = Nobody
          /\ UNCHANGED <<issued, task, aborted, armed, registry, record>>
          BY <1>2, <2>1 DEF Mount, tools
    <3> HIDE DEF r
    <3>2. AskedInv'
          BY <1>1, <3>1 DEF AskedInv, Own
    <3>3. WrittenInv'
          BY <1>1, <3>1 DEF WrittenInv, Carried, Own
    <3> QED
        BY <3>2, <3>3 DEF PermissionsInv
  <2>2. CASE n \notin Reserved
    <3> DEFINE r == [name |-> n, permissions |-> p, due |-> None, controller |-> issued + 1]
               new == NewTask("enqueue", n, {n}, Nobody, p)
    <3>1. /\ comp' = [comp EXCEPT ![i] = r] /\ r.controller = issued + 1 /\ r.name = new.name
          /\ r.permissions = new.permissions /\ new.kind # "refresh"
          /\ Issue(new) /\ UNCHANGED tools /\ new.pc = "queued"
          BY <1>2, <2>2 DEF Mount, NewTask
    <3> HIDE DEF r, new
    <3> QED
        BY <1>1, <3>1, IssueJoins, DeclaringKeepsAsked, JoiningKeepsWritten DEF PermissionsInv
  <2> QED
      BY <2>1, <2>2
<1>3. ASSUME NEW n \in Names, NEW d, NEW p, Permit(i, n, d, p)
      PROVE  PermissionsInv'
  <2> DEFINE new == NewTask("refresh", n, {n}, comp[i].controller, p)
  <2>1. /\ Issue(new) /\ UNCHANGED tools /\ new.pc = "queued" /\ new.kind = "refresh"
        /\ new.of = comp[i].controller /\ new.permissions = p /\ new.name = n
        /\ comp' = [comp EXCEPT ![i].permissions = p, ![i].due = d]
        /\ comp[i].due = None /\ (d = n \/ n = comp[i].name) /\ None \notin Names
        BY <1>3, GatewayAssumption DEF Permit, NewTask
  <2>2. d = None => new.name = comp[i].name
        BY <1>2, <2>1
  <2> HIDE DEF new
  <2> QED
      BY <1>1, <2>1, <2>2, IssueJoins, RefreshingKeepsAsked, JoiningKeepsWritten DEF PermissionsInv
<1>4. ASSUME NEW n \in Names, Change(i, n)
      PROVE  PermissionsInv'
  <2> DEFINE r == [comp[i] EXCEPT !.name = n, !.controller = issued + 1, !.due = None]
             new == NewTask("replace", n, {n, comp[i].name}, comp[i].controller, comp[i].permissions)
  <2>1. /\ comp' = [comp EXCEPT ![i] = r] /\ Issue(new) /\ UNCHANGED tools
        /\ new.pc = "queued" /\ new.kind # "refresh" /\ new.name = n
        /\ new.permissions = comp[i].permissions
        BY <1>1, <1>4 DEF Change, Declares, NewTask
  <2>2. r.controller = issued + 1 /\ r.name = new.name /\ r.permissions = new.permissions
        BY <1>1, <2>1 DEF CompRecord
  <2> HIDE DEF r, new
  <2> QED
      BY <1>1, <2>1, <2>2, IssueJoins, DeclaringKeepsAsked, JoiningKeepsWritten DEF PermissionsInv
<1>5. ASSUME NEW n \in Names, ChangeToReserved(i, n)
      PROVE  PermissionsInv'
  <2> DEFINE r == [comp[i] EXCEPT !.name = n, !.controller = Nobody, !.due = None]
  <2>1. /\ comp' = [comp EXCEPT ![i] = r] /\ Abort(comp[i].controller) /\ UNCHANGED <<issued, task>>
        BY <1>1, <1>5 DEF ChangeToReserved
  <2>2. r.controller = Nobody
        BY <1>1 DEF CompRecord
  <2> HIDE DEF r
  <2> QED
      BY <2>1, <2>2, WithdrawingKeepsPermissions
<1>6. ASSUME Unmount(i)
      PROVE  PermissionsInv'
      BY <1>6, WithdrawingKeepsPermissions DEF Unmount, NotMounted
<1> QED
    BY <1>2, <1>3, <1>4, <1>5, <1>6 DEF Render

LEMMA EnvironmentKeepsPermissions ==
  ASSUME GatewayInv, PermissionsInv,
         Open \/ Close \/ \E n \in Names : ForeignTakes(n) \/ ForeignLeaves(n)
  PROVE  PermissionsInv'
<1>1. /\ UNCHANGED <<comp, issued, aborted, armed, record>>
      /\ \A s \in 1..issued :
           /\ task'[s].kind = task[s].kind /\ task'[s].of = task[s].of
           /\ task'[s].name = task[s].name /\ task'[s].permissions = task[s].permissions
           /\ task'[s].pc = "done" <=> task[s].pc = "done"
  <2>1. CASE \E pc \in {"admitted", "released"} : task' = Woken(pc)
        BY <2>1 DEF Woken, Open, Close, ForeignTakes, ForeignLeaves, tools, TaskRecord, GatewayInv,
                    TypeOK
  <2>2. CASE task' = task
        BY <2>2 DEF Open, Close, ForeignTakes, ForeignLeaves, tools
  <2> QED
      BY <2>1, <2>2 DEF Open, Close, ForeignTakes, ForeignLeaves
<1>2. \A c \in 1..issued : Carried(c)' = Carried(c) /\ Own(c)' = Own(c)
      BY <1>1 DEF Carried, Own
<1>3. AskedInv'
      BY <1>1, <1>2 DEF PermissionsInv, AskedInv
<1>4. WrittenInv'
  <2>1. armed \subseteq 1..issued
        BY DEF GatewayInv, IssueInv
  <2> QED
      BY <1>1, <1>2, <2>1, WrittenStays DEF PermissionsInv, Carried
<1> QED
    BY <1>3, <1>4 DEF PermissionsInv

(* The whole invariant.                                                     *)
PageInv == GatewayInv /\ OwnersInv /\ PermissionsInv

LEMMA PageInit == Init => PageInv
<1> SUFFICES ASSUME Init PROVE PageInv
    OBVIOUS
<1>1. OwnersInv /\ PermissionsInv
      BY DEF Init, OwnersInv, KindInv, LeavingInv, HeldInv, OwnedInv, PermissionsInv, AskedInv,
             WrittenInv, NotMounted
<1> QED
    BY <1>1, InitHolds DEF PageInv

LEMMA PageStep == PageInv /\ [Next]_vars => PageInv'
<1> SUFFICES ASSUME GatewayInv, OwnersInv, PermissionsInv, [Next]_vars
             PROVE  OwnersInv' /\ PermissionsInv'
    BY StepKeeps DEF PageInv
<1>1. CASE UNCHANGED vars
      BY <1>1 DEF vars, OwnersInv, KindInv, LeavingInv, HeldInv, OwnedInv, PermissionsInv, AskedInv,
                  WrittenInv, Carried, Own, Settled
<1>2. CASE Next
      BY <1>2, WorkKeepsOwners, RenderKeepsOwners, EnvironmentKeepsOwners, WorkKeepsPermissions,
         RenderKeepsPermissions, EnvironmentKeepsPermissions DEF Next
<1> QED
    BY <1>1, <1>2

LEMMA PageCorrect == Spec => []PageInv
  BY PageInit, PageStep, PTL DEF Spec

(* What the invariant says of a page at rest.                               *)
LEMMA PageLeavesNothing == PageInv => NothingLeftBehind
<1> SUFFICES ASSUME PageInv, \A t \in 1..issued : Settled(t), NEW n \in Names, registry[n] \in Tasks
             PROVE  \/ \E i \in Components : comp[i].name = n /\ comp[i].controller = registry[n]
                    \/ Stranded(registry[n])
    BY DEF NothingLeftBehind, AtRest
<1> DEFINE c == registry[n]
<1>1. /\ c \in 1..issued /\ c \notin aborted /\ task[c].name = n /\ c # Nobody
      /\ task[c].kind # "refresh"
      BY DEF PageInv, GatewayInv, ToolsInv, HolderInv, OwnersInv, KindInv, Nobody
<1>2. CASE \E i \in Components : comp[i].controller = c
      BY <1>1, <1>2 DEF PageInv, OwnersInv, HeldInv
<1>3. CASE \E t \in 1..issued : task[t].kind = "replace" /\ task[t].of = c
      BY <1>1, <1>3 DEF PageInv, OwnersInv, LeavingInv, Stranded
<1> QED
    BY <1>1, <1>2, <1>3 DEF PageInv, OwnersInv, OwnedInv

LEMMA PageConverges == PageInv => Converges
<1> SUFFICES ASSUME PageInv, AtRest, NEW i \in Components, Mounted(i), comp[i].controller # Nobody,
                    \A t \in Mine(i) : task[t].pc = "done"
             PROVE  /\ registry[comp[i].name] = comp[i].controller
                    /\ record[comp[i].name] = [controller  |-> comp[i].controller,
                                               permissions |-> comp[i].permissions]
    BY DEF Converges
<1> DEFINE c == comp[i].controller
<1>1. /\ c \in 1..issued /\ c \notin aborted /\ task[c].name = comp[i].name
      /\ task[c].kind # "refresh" /\ comp[i].due = None
      BY DEF PageInv, GatewayInv, IssueInv, OwnersInv, HeldInv, AtRest, Nobody
<1>2. c \in armed \ aborted
      BY <1>1 DEF Mine, Own, PageInv, OwnersInv, KindInv
<1>3. /\ registry[comp[i].name] = c /\ record[comp[i].name].controller = c
      /\ record \in [Names -> Entry] /\ comp[i].name \in Names
      BY <1>1, <1>2 DEF PageInv, GatewayInv, ToolsInv, ArmedInv, TypeOK, TaskRecord
<1>4. PICK t \in 1..issued : /\ Own(t) = c /\ task[t].permissions = comp[i].permissions
                             /\ \A s \in 1..issued : Own(s) = c => s <= t
      BY DEF PageInv, PermissionsInv, AskedInv
<1>5. t \in Carried(c)
      BY <1>1, <1>4 DEF PageInv, PermissionsInv, AskedInv, Carried, Mine
<1>6. PICK u \in Carried(c) : /\ record[task[c].name].permissions = task[u].permissions
                              /\ \A s \in Carried(c) : s <= u
      BY <1>2 DEF PageInv, PermissionsInv, WrittenInv
<1>7. u = t
      BY <1>4, <1>5, <1>6 DEF Carried
<1> QED
    BY <1>1, <1>3, <1>4, <1>6, <1>7 DEF Entry

(* With no work pending, every name this library holds belongs to a mounted  *)
(* component that declares it now, or was stranded by an overtaken            *)
(* replacement (use-mcp-tool.ts, registration.ts).                          *)
THEOREM NobodyLeftBehind == Spec => []NothingLeftBehind
<1> QED
    BY PageLeavesNothing, PageCorrect, PTL

(* With no work pending, what a component declares and saw carried out is    *)
(* what the registry and the record hold, its permissions included           *)
(* (registration.ts, performRefresh).                                       *)
THEOREM DeclaredIsOffered == Spec => []Converges
<1> QED
    BY PageConverges, PageCorrect, PTL

(* A name is refused only while another script holds it, or a live            *)
(* registration that no earlier task was to withdraw, or a stranded one:     *)
(* the strict-mode trap never springs (registration.ts, the chains).         *)
THEOREM NoSpuriousRefusal == Spec => RefusalIsGenuine
<1> DEFINE Genuine(t) ==
      LET holder == registry'[task[t].name] IN
      \/ holder = Foreign
      \/ Stranded(holder)
      \/ holder \notin aborted /\ ~\E s \in 1..(t - 1) : task[s].kind = "replace" /\ task[s].of = holder
<1>1. ASSUME PageInv, [Next]_vars, NEW t \in 1..issued, task[t].pc # "refused", task'[t].pc = "refused"
      PROVE  Genuine(t)
  <2>1. \A s \in 1..issued : task[s] \in TaskRecord
        BY <1>1 DEF PageInv, GatewayInv, TypeOK
  <2>2. Register(t) \/ Replace(t)
    <3>1. CASE \E s \in 1..issued : Work(s)
      <4>1. PICK s \in 1..issued : Work(s)
            BY <3>1
      <4>2. s = t
            BY <1>1, <4>1, WorkMoves DEF PageInv, OwnersInv, Moves
      <4>3. ASSUME NEW pc \in (Stages \cup Settlements) \ {"refused"}, Goes(t, pc)
            PROVE  FALSE
            BY <1>1, <4>3, GoesKeepsTasks DEF PageInv, GatewayInv, TypeOK
      <4>4. ~Start(t) /\ ~Released(t) /\ ~Admitted(t) /\ ~CompileFails(t) /\ ~Compiled(t)
            BY <4>3 DEF Start, Released, Admitted, CompileFails, Compiled, GiveUp, Stages, Settlements
      <4>5. ~Record(t)
            BY <4>3 DEF Record, Settlements
      <4> QED
          BY <4>1, <4>2, <4>4, <4>5 DEF Work, Continue
    <3>2. CASE \E i \in Components : Render(i)
      <4>1. UNCHANGED task \/ \E new : Issue(new)
            BY <3>2 DEF Render, Mount, Permit, Change, ChangeToReserved, Unmount
      <4>2. ASSUME NEW new, Issue(new)
            PROVE  task'[t] = task[t]
            BY <1>1, <4>2, OfIssued DEF Issue, PageInv
      <4> QED
          BY <1>1, <4>1, <4>2
    <3>3. CASE Open \/ Close
          BY <1>1, <2>1, <3>3 DEF Open, Close, Woken, TaskRecord
    <3>4. CASE UNCHANGED task
          BY <1>1, <3>4
    <3> QED
        BY <1>1, <3>1, <3>2, <3>3, <3>4 DEF Next, vars, ForeignTakes, ForeignLeaves
  <2> DEFINE h == registry'[task[t].name]
  <2>3. /\ task[t].pc = "resolving" /\ h # Nobody /\ h = registry[task[t].name]
        /\ task[t].name \in Names /\ registry \in [Names -> Controllers \cup {Foreign}]
    <3>1. /\ task[t].pc = "resolving" /\ task[t] \in TaskRecord
          /\ registry \in [Names -> Controllers \cup {Foreign}]
          BY <1>1, <2>1, <2>2 DEF Register, Replace, PageInv, GatewayInv, TypeOK
    <3>2. ASSUME NEW pc \in (Stages \cup Settlements) \ {"refused"}, Goes(t, pc)
          PROVE  FALSE
          BY <1>1, <3>2, GoesKeepsTasks DEF PageInv, GatewayInv, TypeOK
    <3>3. CASE Register(t)
      <4>1. RegisterTool(t, registry)
            BY <3>2, <3>3 DEF Register, Settlements
      <4> QED
          BY <3>1, <3>2, <4>1 DEF RegisterTool, Stages, TaskRecord
    <3>4. CASE Replace(t)
      <4>1. RegisterTool(t, IF task[t].of = Nobody THEN registry ELSE Without(task[t].of))
            BY <3>2, <3>4 DEF Replace, Settlements
      <4> QED
          BY <3>1, <3>2, <4>1 DEF RegisterTool, Stages, TaskRecord, Without
    <3> QED
        BY <2>2, <3>3, <3>4
  <2>4. SUFFICES ASSUME h # Foreign, ~Stranded(h)
                 PROVE  /\ h \notin aborted
                        /\ ~\E s \in 1..(t - 1) : task[s].kind = "replace" /\ task[s].of = h
        OBVIOUS
  <2>5. h \in 1..issued /\ h \notin aborted /\ task[h].name = task[t].name
        BY <1>1, <2>3, <2>4 DEF PageInv, GatewayInv, ToolsInv, HolderInv, Controllers
  <2>6. ASSUME NEW s \in 1..(t - 1), task[s].kind = "replace", task[s].of = h
        PROVE  FALSE
    <3>1. s \in 1..issued /\ s < t
          BY <1>1, OfIssued DEF PageInv
    <3>2. task[s].held \cap task[t].held # {}
          BY <1>1, <2>3, <2>5, <2>6, <3>1
             DEF PageInv, OwnersInv, LeavingInv, GatewayInv, IssueInv
    <3>3. Settled(s)
          BY <1>1, <2>3, <3>1, <3>2 DEF PageInv, GatewayInv, ChainInv
    <3> QED
        BY <1>1, <2>3, <2>4, <2>5, <2>6, <3>1, <3>3 DEF PageInv, OwnersInv, LeavingInv, Stranded
  <2> QED
      BY <2>5, <2>6
<1>2. PageInv /\ [Next]_vars => [\A t \in 1..issued :
        (task[t].pc # "refused" /\ task'[t].pc = "refused") => Genuine(t)]_vars
      BY <1>1
<1> QED
    BY <1>2, PageCorrect, PTL DEF Spec, RefusalIsGenuine

-----------------------------------------------------------------------------
(***************************************************************************)
(* Nobody holds the chains.                                                *)
(***************************************************************************)
(* Tasks are issued under later and later epochs; and who waits, waits for    *)
(* the provider it was issued under, which has not answered.                 *)
WaitInv ==
  /\ \A s, t \in 1..issued : s <= t => task[s].at <= task[t].at
  /\ \A t \in 1..issued : task[t].at <= epoch
  /\ \A t \in 1..issued : task[t].pc = "waiting" => ~open /\ task[t].at = epoch

(* Where the tasks keep the epochs they were issued in.                      *)
LEMMA StayingWaits ==
  ASSUME GatewayInv, WaitInv, issued' = issued, epoch \in Nat, epoch' \in Nat, epoch <= epoch',
         \A s \in 1..issued : task'[s].at = task[s].at,
         \A s \in 1..issued : task'[s].pc = "waiting" => ~open' /\ task[s].at = epoch'
  PROVE  WaitInv'
<1>1. \A s \in 1..issued : task[s].at \in Nat
      BY GatewayAssumption DEF GatewayInv, TypeOK, TaskRecord
<1>2. \A s \in 1..issued : task[s].at <= epoch'
      BY <1>1 DEF WaitInv
<1> QED
    BY <1>2 DEF WaitInv

LEMMA WorkWaits ==
  ASSUME GatewayInv, WaitInv, NEW t \in 1..issued, Work(t)
  PROVE  WaitInv'
<1>1. /\ task \in [1..issued -> TaskRecord] /\ task[t] \in TaskRecord
      /\ epoch \in Nat /\ UNCHANGED <<issued, open, epoch>>
      BY GatewayAssumption DEF GatewayInv, TypeOK, Work, Continue, Start, Released, Admitted, Register,
         Replace, Record, CompileFails, Compiled
<1>2. ASSUME NEW pc, Goes(t, pc), pc = "waiting" => ~open /\ task[t].at = epoch
      PROVE  WaitInv'
  <2>1. task' = [task EXCEPT ![t] = [task[t] EXCEPT !.pc = pc]]
        BY <1>2 DEF Goes
  <2>2. /\ [task[t] EXCEPT !.pc = pc].at = task[t].at
        /\ [task[t] EXCEPT !.pc = pc].pc = pc
        BY <1>1 DEF TaskRecord
  <2>3. \A s \in 1..issued : s # t => task'[s] = task[s]
        BY <1>1, <2>1
  <2>4. task'[t].at = task[t].at /\ task'[t].pc = pc
        BY <1>1, <2>1, <2>2
  <2>5. \A s \in 1..issued : task'[s].at = task[s].at
        BY <2>3, <2>4
  <2>6. \A s \in 1..issued : task'[s].pc = "waiting" => ~open' /\ task[s].at = epoch'
        BY <1>1, <1>2, <2>3, <2>4 DEF WaitInv
  <2> QED
      BY <1>1, <2>5, <2>6, StayingWaits
<1>3. CASE Start(t)
  <2>1. \/ ~open /\ task[t].at = epoch /\ Goes(t, "waiting")
        \/ \E pc \in (Stages \cup Settlements) \ {"waiting"} : Goes(t, pc)
        BY <1>3 DEF Start, GiveUp, Stages, Settlements
  <2> QED
      BY <1>2, <2>1
<1>4. CASE Work(t) /\ ~Start(t)
  <2>1. \E pc \in (Stages \cup Settlements) \ {"waiting"} : Goes(t, pc)
        BY <1>4 DEF Work, Continue, Released, Admitted, Register, RegisterTool, Replace, Record, CompileFails,
           Compiled, GiveUp, Stages, Settlements
  <2> QED
      BY <1>2, <2>1
<1> QED
    BY <1>3, <1>4

LEMMA RenderWaits ==
  ASSUME GatewayInv, WaitInv, NEW i \in Components, Render(i)
  PROVE  WaitInv'
<1>1. epoch \in Nat /\ issued \in Nat /\ UNCHANGED <<open, epoch>>
  <2>1. epoch \in Nat /\ issued \in Nat
        BY GatewayAssumption, OfIssued DEF GatewayInv, TypeOK
  <2>2. UNCHANGED <<open, epoch>>
        BY DEF Render, Mount, Permit, Change, ChangeToReserved, Unmount
  <2> QED
      BY <2>1, <2>2
<1>2. CASE UNCHANGED <<issued, task>>
      BY <1>1, <1>2, StayingWaits DEF WaitInv
<1>3. ASSUME NEW kind, NEW n, NEW held, NEW of, NEW p, Issue(NewTask(kind, n, held, of, p))
      PROVE  WaitInv'
  <2>1. /\ issued' = issued + 1
        /\ task'[issued + 1] = NewTask(kind, n, held, of, p)
        /\ \A s \in 1..issued : task'[s] = task[s]
        BY <1>1, <1>3 DEF Issue
  <2>2. /\ NewTask(kind, n, held, of, p).at = epoch
        /\ NewTask(kind, n, held, of, p).pc = "queued"
        BY DEF NewTask
  <2>3. \A s \in 1..issued' : s \in 1..issued \/ s = issued + 1
        BY <1>1, <2>1
  <2> QED
      BY <1>1, <2>1, <2>2, <2>3 DEF WaitInv
<1>4. UNCHANGED <<issued, task>> \/ \E kind, n, held, of, p : Issue(NewTask(kind, n, held, of, p))
  <2>1. ASSUME NEW n, NEW p, Mount(i, n, p)
        PROVE  UNCHANGED <<issued, task>> \/ \E kind, m, held, of, q : Issue(NewTask(kind, m, held, of, q))
        BY <2>1 DEF Mount
  <2>2. ASSUME NEW n, NEW d, NEW p, Permit(i, n, d, p)
        PROVE  \E kind, m, held, of, q : Issue(NewTask(kind, m, held, of, q))
        BY <2>2 DEF Permit
  <2>3. ASSUME NEW n, Change(i, n)
        PROVE  \E kind, m, held, of, q : Issue(NewTask(kind, m, held, of, q))
        BY <2>3 DEF Change
  <2>4. ASSUME NEW n, ChangeToReserved(i, n) \/ Unmount(i)
        PROVE  UNCHANGED <<issued, task>>
        BY <2>4 DEF ChangeToReserved, Unmount
  <2> QED
      BY <2>1, <2>2, <2>3, <2>4 DEF Render
<1> QED
    BY <1>2, <1>3, <1>4

LEMMA EnvironmentWaits ==
  ASSUME GatewayInv, WaitInv,
         Open \/ Close \/ \E n \in Names : ForeignTakes(n) \/ ForeignLeaves(n)
  PROVE  WaitInv'
<1>1. /\ task \in [1..issued -> TaskRecord] /\ epoch \in Nat /\ issued' = issued
      /\ epoch' \in Nat /\ epoch <= epoch'
      BY GatewayAssumption DEF GatewayInv, TypeOK, Open, Close, ForeignTakes, ForeignLeaves
<1>2. ASSUME NEW pc \in {"admitted", "released"}, task' = Woken(pc)
      PROVE  \A s \in 1..issued : task'[s].at = task[s].at /\ task'[s].pc # "waiting"
      BY <1>1, <1>2 DEF Woken, TaskRecord
<1>3. CASE Open \/ Close
  <2>1. task' = Woken("admitted") \/ task' = Woken("released")
        BY <1>3 DEF Open, Close
  <2> QED
      BY <1>1, <1>2, <2>1, StayingWaits
<1>4. CASE \E n \in Names : ForeignTakes(n) \/ ForeignLeaves(n)
      BY <1>4 DEF WaitInv, ForeignTakes, ForeignLeaves
<1> QED
    BY <1>3, <1>4

(* Of some numbers one is the least. *)
LEMMA LeastNumber ==
  ASSUME NEW S, S \subseteq Nat, S # {}
  PROVE  \E r \in S : \A q \in S : r <= q
<1> DEFINE Before == OpToRel(<, Nat)
<1>1. \A x, y \in Nat : <<y, x>> \in Before <=> y < x
      BY DEF OpToRel
<1>2. IsWellFoundedOn(Before, Nat)
      BY NatLessThanWellFounded
<1> HIDE DEF Before
<1>3. PICK x \in S : \A y \in S : ~(<<y, x>> \in Before)
      BY <1>2, WFMin
<1>4. \A q \in S : ~(q < x) /\ q \in Nat /\ x \in Nat
      BY <1>1, <1>3
<1> QED
    BY <1>4

(* The earliest task not settled is at the head of its chains.               *)
LEMMA WaitersAside ==
  ASSUME GatewayInv, WaitInv
  PROVE  SomeTaskCanGo
<1> SUFFICES ASSUME NEW t \in 1..issued, ~Settled(t), open \/ task[t].at # epoch
             PROVE  \E s \in 1..t : ~Settled(s) /\ Ready(s) /\ task[s].pc # "waiting"
    BY DEF SomeTaskCanGo
<1> DEFINE owed == {s \in 1..t : ~Settled(s)}
<1>1. issued \in Nat /\ t \in Nat /\ 1..t \subseteq 1..issued /\ t \in owed
      BY OfIssued
<1>2. PICK s \in owed : \A r \in owed : s <= r
  <2>1. owed \subseteq Nat /\ owed # {}
        BY <1>1
  <2> HIDE DEF owed
  <2> QED
      BY <2>1, LeastNumber
<1>3. s \in 1..t /\ s \in 1..issued /\ ~Settled(s) /\ s <= t
      BY <1>1, <1>2
<1>4. Ready(s)
  <2> SUFFICES ASSUME NEW r \in 1..(s - 1), ~Settled(r) PROVE FALSE
      BY DEF Ready
  <2>1. r \in owed /\ ~(s <= r)
        BY <1>1, <1>3
  <2> QED
      BY <1>2, <2>1
<1>5. task[s].pc # "waiting"
  <2>1. task[s].at \in Nat /\ task[t].at \in Nat /\ epoch \in Nat
        BY <1>3, GatewayAssumption DEF GatewayInv, TypeOK, TaskRecord
  <2>2. task[s].at <= task[t].at /\ task[t].at <= epoch
        BY <1>3 DEF WaitInv
  <2>3. open \/ task[s].at # epoch
        BY <2>1, <2>2
  <2> QED
      BY <1>3, <2>3 DEF WaitInv
<1> QED
    BY <1>3, <1>4, <1>5

(* Whatever is owed while a provider is there, or to one that has gone, has at  *)
(* the head of its chains a task that can go on (registration.ts, performers): *)
(* the safety half of EndedProviderOwesNothing, for any number of tasks.      *)
THEOREM ChainsDoNotBlock == Spec => []SomeTaskCanGo
<1>1. Init => WaitInv
      BY DEF Init, WaitInv
<1>2. GatewayInv /\ WaitInv /\ [Next]_vars => WaitInv'
  <2> SUFFICES ASSUME GatewayInv, WaitInv, [Next]_vars PROVE WaitInv'
      OBVIOUS
  <2>1. CASE UNCHANGED vars
        BY <2>1 DEF vars, WaitInv
  <2>2. CASE Next
        BY <2>2, WorkWaits, RenderWaits, EnvironmentWaits DEF Next
  <2> QED
      BY <2>1, <2>2
<1>3. GatewayInv /\ WaitInv => SomeTaskCanGo
      BY WaitersAside
<1> QED
    BY <1>1, <1>2, <1>3, GatewayCorrect, PTL DEF Spec

=============================================================================
