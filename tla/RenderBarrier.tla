---------------------------- MODULE RenderBarrier ----------------------------
(***************************************************************************)
(* ToolCallContext.afterRender(): a handler that has changed the            *)
(* application's state waits for the commit that shows the change            *)
(* (provider.tsx, invocation.ts, and the store adapters and the state tools *)
(* built on it). One provider, from strict mode's remount to its unmount.    *)
(*                                                                         *)
(* React is the environment: state set before a render is begun is in that   *)
(* render, unless it was deferred; a commit's passive effects run, children *)
(* before parents, before the next render is begun.                         *)
(***************************************************************************)
EXTENDS Naturals, FiniteSets

CONSTANTS
  Handlers,  \* tool calls, each changing the application's state once
  Deferred   \* those that change it in a transition, which React may hold back

ASSUME DeferredAssumption == Deferred \subseteq Handlers

VARIABLES
  tree,       \* strict: strict mode's remount is owed; up; leaving: unmounted; gone: cleaned up
  torn,       \* tornRef
  issued,     \* issuedTickRef
  renderTick, \* of the last commit
  waiters,    \* pendingRendersRef: records of the call and the tick it waits for
  scheduled,  \* changes React has and no commit shows yet
  shown,      \* changes the page shows
  effects,    \* the last commit's effects: run; due; or due with the tick changed
  phase,      \* per call
  reported    \* per call: the changes its answer reports from

react == <<tree, renderTick, scheduled, shown, effects>>
barrier == <<torn, issued, waiters>>
barrierVars == <<react, barrier, phase, reported>>

BarrierInit ==
  /\ tree = "strict"
  /\ torn = FALSE
  /\ issued = 0
  /\ renderTick = 0
  /\ waiters = {}
  /\ scheduled = {}
  /\ shown = {}
  /\ effects = "run"
  /\ phase = [c \in Handlers |-> "running"]
  /\ reported = [c \in Handlers |-> {}]

-----------------------------------------------------------------------------
(***************************************************************************)
(* The mount effect and the drain.                                         *)
(***************************************************************************)
Resumed(settled) ==
  [c \in Handlers |-> IF phase[c] = "waiting" /\ \E w \in settled : w.call = c
                   THEN "resumed" ELSE phase[c]]

(* The mount effect's setup. *)
SetUp == FALSE

(* Faulty CleanedUp: the waiters are settled, and later ones let in.         *)
CleanedUpOnce == torn

(* Its cleanup latches, then settles everyone. *)
CleanedUp == TRUE

(* StrictMode runs the cleanup and the setup of a mount in one go.          *)
StrictRemount ==
  /\ tree = "strict"
  /\ tree' = "up"
  /\ torn' = SetUp
  /\ waiters' = {}
  /\ phase' = Resumed(waiters)
  /\ UNCHANGED <<issued, renderTick, scheduled, shown, effects, reported>>

(* React commits what is scheduled, and what of the deferred it pleases: the  *)
(* tick is among what is not deferred.                                      *)
Commit ==
  /\ tree = "up" /\ effects = "run"
  /\ scheduled # {} \/ issued # renderTick
  /\ \E held \in SUBSET (scheduled \cap Deferred) :
       /\ shown' = shown \cup (scheduled \ held)
       /\ scheduled' = held
  /\ renderTick' = issued
  /\ effects' = IF issued # renderTick THEN "drain" ELSE "due"
  /\ UNCHANGED <<tree, barrier, phase, reported>>

(* Faulty Reached: every waiter is settled by whatever commit comes.         *)
ReachedAll(w) == TRUE

(* The waiters this commit is for. *)
Reached(w) == w.tick <= renderTick

(* The effects of a commit, the provider's last: it settles the waiters of    *)
(* the ticks reached, if the tick changed.                                  *)
RunEffects ==
  /\ effects # "run"
  /\ effects' = "run"
  /\ IF effects = "drain" THEN /\ waiters' = {w \in waiters : ~Reached(w)}
                               /\ phase' = Resumed({w \in waiters : Reached(w)})
                          ELSE UNCHANGED <<waiters, phase>>
  /\ UNCHANGED <<tree, renderTick, scheduled, shown, torn, issued, reported>>

(* The tree is unmounted: no commit shows anything any more, and the effects  *)
(* still due of the last one are run.                                       *)
Unmount ==
  /\ tree = "up" /\ effects = "run"
  /\ tree' = "leaving"
  /\ UNCHANGED <<renderTick, scheduled, shown, effects, barrier, phase, reported>>

(* Its passive cleanups follow. *)
CleanUp ==
  /\ tree = "leaving"
  /\ tree' = "gone"
  /\ torn' = CleanedUp
  /\ waiters' = {}
  /\ phase' = Resumed(waiters)
  /\ UNCHANGED <<renderTick, scheduled, shown, effects, issued, reported>>

-----------------------------------------------------------------------------
(***************************************************************************)
(* A call. Its handler runs at any time between two steps of React, and in  *)
(* a child's effect of the commit the drain is about to run for.            *)
(***************************************************************************)
(* The action it is bound to changes the application's state, at once or     *)
(* after a request of its own.                                              *)
Act(c) ==
  /\ phase[c] = "running" /\ tree # "strict"
  /\ phase' = [phase EXCEPT ![c] = "acted"]
  /\ scheduled' = IF tree = "up" THEN scheduled \cup {c} ELSE scheduled
  /\ UNCHANGED <<tree, renderTick, shown, effects, barrier, reported>>

(* Or it rejects: nothing is waited for and nothing reported.                *)
ActionFails(c) ==
  /\ phase[c] = "running" /\ tree # "strict"
  /\ phase' = [phase EXCEPT ![c] = "failed"]
  /\ UNCHANGED <<react, barrier, reported>>

(* afterRender(): at once where there is no tree, else a waiter, recorded     *)
(* before the bump it waits for.                                            *)
AfterRender(c) ==
  /\ phase[c] = "acted"
  /\ IF torn
     THEN /\ phase' = [phase EXCEPT ![c] = "resumed"]
          /\ UNCHANGED barrier
     ELSE /\ issued' = issued + 1
          /\ waiters' = waiters \cup {[call |-> c, tick |-> issued + 1]}
          /\ phase' = [phase EXCEPT ![c] = "waiting"]
          /\ UNCHANGED torn
  /\ UNCHANGED <<react, reported>>

(* The call is cancelled: the wait rejects, the waiter stays behind.         *)
Cancel(c) ==
  /\ phase[c] \in {"running", "acted", "waiting"} /\ tree # "strict"
  /\ phase' = [phase EXCEPT ![c] = "cancelled"]
  /\ UNCHANGED <<react, barrier, reported>>

(* The handler goes on, and reports what the application holds by then.      *)
Report(c) ==
  /\ phase[c] = "resumed"
  /\ phase' = [phase EXCEPT ![c] = "answered"]
  /\ reported' = [reported EXCEPT ![c] = shown]
  /\ UNCHANGED <<react, barrier>>

(* A tool of useMcpState changes nothing and waits for nothing.              *)
ReadState(c) ==
  /\ phase[c] = "running" /\ tree # "strict"
  /\ phase' = [phase EXCEPT ![c] = "read"]
  /\ reported' = [reported EXCEPT ![c] = shown]
  /\ UNCHANGED <<react, barrier>>

-----------------------------------------------------------------------------
BarrierNext ==
  \/ StrictRemount \/ Commit \/ RunEffects \/ Unmount \/ CleanUp
  \/ \E c \in Handlers : Act(c) \/ ActionFails(c) \/ AfterRender(c) \/ Cancel(c)
  \/ \E c \in Handlers : Report(c) \/ ReadState(c)

BarrierSpec == BarrierInit /\ [][BarrierNext]_barrierVars

(* React commits what is scheduled and runs its effects. The application owes *)
(* no unmount and the agent no cancellation; a handler's own code returns.   *)
BarrierFairness ==
  /\ WF_barrierVars(Commit) /\ WF_barrierVars(RunEffects) /\ WF_barrierVars(CleanUp)
  /\ \A c \in Handlers : WF_barrierVars(AfterRender(c)) /\ WF_barrierVars(Report(c))

BarrierFairSpec == BarrierSpec /\ BarrierFairness

-----------------------------------------------------------------------------
BarrierTypeOK ==
  /\ tree \in {"strict", "up", "leaving", "gone"} /\ torn \in BOOLEAN
  /\ issued \in Nat /\ renderTick \in 0..issued
  /\ waiters \subseteq [call : Handlers, tick : 1..issued]
  /\ scheduled \subseteq Handlers /\ shown \subseteq Handlers
  /\ effects \in {"run", "due", "drain"}
  /\ phase \in [Handlers -> {"running", "acted", "waiting", "resumed", "answered", "read", "failed",
                          "cancelled"}]
  /\ reported \in [Handlers -> SUBSET Handlers]

(* A handler goes on only when the page shows what it changed before it       *)
(* waited, unless there is no page, or it asked for the change to be held     *)
(* back; and what it then reports says so (provider.tsx, afterRender).       *)
ReportedIsShown ==
  \A c \in Handlers \ Deferred :
    /\ phase[c] = "resumed" /\ ~torn => c \in shown
    /\ phase[c] = "answered" /\ tree = "up" => c \in reported[c]

(* A handler that waits is recorded in a tree that is still to be torn down,  *)
(* and a commit of its tick is still to come, or has come with its drain still *)
(* due: none is recorded behind the drain that would have answered it, to wait *)
(* for "a commit that can never come" (provider.tsx, mount effect).           *)
NobodyMissesTheDrain ==
  \A c \in Handlers : phase[c] = "waiting" =>
    /\ tree # "gone"
    /\ \E w \in waiters : w.call = c /\ (tree = "up" /\ Reached(w) => effects = "drain")

Unsettled == {c \in Handlers : phase[c] \in {"acted", "waiting", "resumed"}}

(* No handler waits for ever: each goes on, or its call is cancelled, also    *)
(* when the tree is torn down before, during or after it asked (provider.tsx, *)
(* mount effect). A call asks once, so nobody new is left waiting for good.   *)
EveryWaiterSettles == Unsettled # {} ~> Unsettled = {}
=============================================================================
