------------------------------ MODULE AgentLink ------------------------------
(***************************************************************************)
(* What docs/connection-lifecycle.md promises a page, with no sockets, no   *)
(* attempts and no timers: connected is shown exactly while there is a      *)
(* channel, only a page that was never connected can end in error, and a    *)
(* channel that is lost is recovered until the provider goes.               *)
(***************************************************************************)
VARIABLES status, channel

vars == <<status, channel>>

Init == status = "disconnected" /\ channel = FALSE

Connect == status = "disconnected" /\ status' = "connecting" /\ UNCHANGED channel

Establish ==
  /\ status \in {"connecting", "reconnecting"}
  /\ status' = "connected" /\ channel' = TRUE

Lose == status = "connected" /\ status' = "reconnecting" /\ channel' = FALSE

Refuse == status = "connecting" /\ status' = "error" /\ UNCHANGED channel

Leave == status' = "disconnected" /\ channel' = FALSE

Next == Connect \/ Establish \/ Lose \/ Refuse \/ Leave

Spec == Init /\ [][Next]_vars

=============================================================================
