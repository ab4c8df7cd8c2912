------------------------------ MODULE MCProvider ------------------------------
(***************************************************************************)
(* The provider's two sides, each over a few times its effect is set up:    *)
(* its connection (ConnectionLifecycle), and the gateway of its components'  *)
(* tools, opened and closed (RegistrationGateway). They share no state;     *)
(* which of them moves is chosen at the start, and the other stays as it    *)
(* begins.                                                                  *)
(***************************************************************************)
EXTENDS ConnectionLifecycle

CONSTANTS
  Components, Names, Reserved, Permissions, None, Foreign, Contested, MaxTasks, MaxEpoch

VARIABLES
  comp, issued, task, aborted, armed, registry, record, open, epoch,
  side

registeringVars == <<comp, issued, task, aborted, armed, registry, record, open, epoch>>

Registering == INSTANCE RegistrationGateway

MCInit == side \in {"connection", "registration"} /\ Init /\ Registering!Init

MCNext ==
  /\ UNCHANGED side
  /\ \/ side = "connection" /\ Next /\ UNCHANGED registeringVars
     \/ side = "registration" /\ Registering!Next /\ UNCHANGED vars

(* What a side's fairness asks for is disabled in its initial state.         *)
MCSpec ==
  MCInit /\ [][MCNext]_<<vars, registeringVars, side>> /\ Scheduling /\ Registering!Fairness

(* What waits in a chain of the gateway has a task before it that can go on  *)
(* (registration.ts).                                                       *)
SomeTaskCanGo == Registering!SomeTaskCanGo

(* What was queued for a provider that has gone settles (registration.ts).   *)
EndedProviderOwesNothing == Registering!EndedProviderOwesNothing

=============================================================================
