-------------------------- MODULE InspectionChannel --------------------------
(***************************************************************************)
(* The development inspection channel: window.__AGENT_MCP__, which a provider*)
(* installs if it is asked to and finds the slot empty (react/provider.tsx), *)
(* and the inspector that reads it once, when it is created, and then shows   *)
(* what the channel tells it (devtools/index.ts, call-log.ts, panel.ts).      *)
(*                                                                         *)
(* Channels are numbered as they are installed. That a subscriber hears of a *)
(* call's end only if it was there at its start is ObservationBus's.         *)
(***************************************************************************)
EXTENDS SequencesExt

CONSTANTS
  Providers,
  Snapshots,   \* what a provider's status and tool list may be
  RetainedCalls,
  MaxChannels, \* bound on the channels installed
  CallsBound,  \* bound on the calls begun
  NoChannel,   \* no channel: an empty slot, or none found
  Stranger     \* another script's value

(* Channels are numbered, and neither an empty slot nor another script's      *)
(* value is a number.                                                       *)
ASSUME ChannelAssumption ==
  /\ RetainedCalls \in Nat /\ MaxChannels \in Nat /\ CallsBound \in Nat
  /\ {NoChannel, Stranger} \cap Nat = {} /\ NoChannel # Stranger

VARIABLES
  slot,      \* the global: a channel, Stranger or NoChannel
  owner,     \* per channel, its provider
  channelOf, \* per provider, the channel it installed and has not removed
  snapshot,  \* per provider
  callOf,    \* per call, its provider
  ended,     \* the calls that have ended
  observed,  \* per channel, the first call its bus subscription hears of
  inspector, \* what was found, the log, its truncation, what is drawn; and, a
             \* history, the calls whose entry the log let go
  sink,      \* the channel the inspector's sinks are in, or NoChannel
  firstSeen, \* history: the first call begun since the inspector was created
  meddled    \* history: another script has written the global

channelVars == <<slot, owner, channelOf, snapshot, callOf, ended, observed, inspector, sink,
                 firstSeen, meddled>>

CallEntry(c, outcome) == [call |-> c, outcome |-> outcome]

-----------------------------------------------------------------------------
(***************************************************************************)
(* The call log: the calls in the order of their last event.                *)
(***************************************************************************)
Knows(log, c) == \E i \in DOMAIN log : log[i].call = c

Places(log, c) == {i \in DOMAIN log : log[i].call = c}

(* Map.delete: a call has one entry at most. *)
Without(log, c) ==
  IF Places(log, c) = {} THEN log ELSE RemoveAt(log, CHOOSE i \in Places(log, c) : TRUE)

(* One slot per call; what does not fit goes from the oldest.                *)
Kept(state, c, outcome) ==
  LET log == Append(Without(state.log, c), CallEntry(c, outcome)) IN
  IF Len(log) > RetainedCalls
  THEN [state EXCEPT !.log = Tail(log), !.truncated = TRUE, !.gone = @ \cup {Head(log).call}]
  ELSE [state EXCEPT !.log = log]

(* Faulty Accepted: an end whose start is gone is put back.                  *)
AcceptedAnyway(state, c, outcome) == Kept(state, c, outcome)

(* createCallLog().accept: an end whose start is gone is not put back.       *)
Accepted(state, c, outcome) ==
  IF outcome # "running" /\ ~Knows(state.log, c) THEN [state EXCEPT !.truncated = TRUE]
                                                 ELSE Kept(state, c, outcome)

(* draw(): newest first. *)
Drawn(state, shown) ==
  [state EXCEPT !.drawn = [snapshot |-> shown, calls |-> Reverse(state.log),
                           truncated |-> state.truncated]]

NoInspector == [found |-> NoChannel, open |-> FALSE]

ChannelInit ==
  /\ slot = NoChannel /\ owner = <<>> /\ channelOf = [p \in Providers |-> NoChannel]
  /\ snapshot \in [Providers -> Snapshots]
  /\ callOf = <<>> /\ ended = {} /\ observed = <<>>
  /\ inspector = NoInspector /\ sink = NoChannel /\ firstSeen = 1
  /\ meddled = FALSE

-----------------------------------------------------------------------------
(***************************************************************************)
(* The provider's layout effect, set up and cleaned up.                    *)
(***************************************************************************)
(* Claimed, not assigned: over another's value a provider reports, installs   *)
(* nothing, and tries again only when its effect is set up again.            *)
Install(p) ==
  /\ channelOf[p] = NoChannel /\ slot = NoChannel
  /\ Len(owner) < MaxChannels
  /\ slot' = Len(owner) + 1
  /\ owner' = Append(owner, p)
  /\ observed' = Append(observed, Len(callOf) + 1)
  /\ channelOf' = [channelOf EXCEPT ![p] = slot']
  /\ UNCHANGED <<snapshot, callOf, ended, inspector, sink, firstSeen, meddled>>

(* The sinks are cleared, and the slot if it is still this provider's.       *)
Uninstall(p) ==
  /\ channelOf[p] # NoChannel
  /\ channelOf' = [channelOf EXCEPT ![p] = NoChannel]
  /\ slot' = IF slot = channelOf[p] THEN NoChannel ELSE slot
  /\ sink' = IF sink = channelOf[p] THEN NoChannel ELSE sink
  /\ UNCHANGED <<owner, snapshot, callOf, ended, observed, inspector, firstSeen, meddled>>

(* Another script of the page writes the global, or deletes what it wrote.   *)
StrangerWrites ==
  /\ slot' \in {Stranger, NoChannel} \ {slot}
  /\ slot' = NoChannel => slot = Stranger
  /\ meddled' = TRUE
  /\ UNCHANGED <<owner, channelOf, snapshot, callOf, ended, observed, inspector, sink,
                 firstSeen>>

-----------------------------------------------------------------------------
(***************************************************************************)
(* The inspector.                                                          *)
(***************************************************************************)
Subscribed == inspector.open /\ sink # NoChannel

(* createInspector: a value that is no channel is not one. *)
Inspect ==
  /\ ~inspector.open
  /\ sink' = IF slot = Stranger THEN NoChannel ELSE slot
  /\ firstSeen' = Len(callOf) + 1
  /\ inspector' =
       Drawn([found |-> sink', open |-> TRUE, log |-> <<>>, truncated |-> FALSE, drawn |-> <<>>,
              gone |-> {}],
             IF sink' = NoChannel THEN {} ELSE {snapshot[owner[sink']]})
  /\ UNCHANGED <<slot, owner, channelOf, snapshot, callOf, ended, observed, meddled>>

Dispose ==
  /\ inspector.open
  /\ inspector' = NoInspector /\ sink' = NoChannel /\ firstSeen' = 1
  /\ UNCHANGED <<slot, owner, channelOf, snapshot, callOf, ended, observed, meddled>>

(* The connection's status or the bridged tools move, and the sinks are told. *)
SnapshotMoves(p) ==
  /\ \E s \in Snapshots \ {snapshot[p]} : snapshot' = [snapshot EXCEPT ![p] = s]
  /\ inspector' = IF Subscribed /\ owner[sink] = p THEN Drawn(inspector, {snapshot'[p]})
                                                  ELSE inspector
  /\ UNCHANGED <<slot, owner, channelOf, callOf, ended, observed, sink, firstSeen, meddled>>

(* A call's record reaches the channel, and its sinks one after another.     *)
Record(c, p, outcome) ==
  inspector' = IF Subscribed /\ owner[sink] = p /\ c >= observed[sink]
               THEN Drawn(Accepted(inspector, c, outcome), {snapshot[p]})
               ELSE inspector

CallBegins(p) ==
  /\ Len(callOf) < CallsBound
  /\ callOf' = Append(callOf, p)
  /\ Record(Len(callOf'), p, "running")
  /\ UNCHANGED <<slot, owner, channelOf, snapshot, ended, observed, sink, firstSeen,
                 meddled>>

CallEnds(c) ==
  /\ c \notin ended
  /\ ended' = ended \cup {c}
  /\ Record(c, callOf[c], "ended")
  /\ UNCHANGED <<slot, owner, channelOf, snapshot, callOf, observed, sink, firstSeen,
                 meddled>>

ChannelNext ==
  \/ \E p \in Providers : Install(p) \/ Uninstall(p) \/ SnapshotMoves(p) \/ CallBegins(p)
  \/ \E c \in DOMAIN callOf : CallEnds(c)
  \/ StrangerWrites \/ Inspect \/ Dispose

ChannelSpec == ChannelInit /\ [][ChannelNext]_channelVars

-----------------------------------------------------------------------------
(* While the channel it found is installed, the panel shows the provider's    *)
(* status as it is, a call as running exactly while it runs, no call whose    *)
(* beginning nobody saw or whose record was dropped for room, and, unless it  *)
(* says that calls were dropped, every call begun since it was created; an    *)
(* inspector created now finds a channel that lives, or none; and a provider  *)
(* refused the slot never costs the one that has it its channel, which stays  *)
(* there to be found as long as no other script writes it                    *)
(* (devtools/call-log.ts, accept; provider.tsx, "Claimed, not assigned").     *)
PanelTellsTheTruth ==
  /\ slot \notin {Stranger, NoChannel} => channelOf[owner[slot]] = slot
  /\ ~meddled => \A p \in Providers : channelOf[p] # NoChannel => slot = channelOf[p]
  /\ LET channel == inspector.found
         drawn == inspector.drawn
         calls == {drawn.calls[i] : i \in DOMAIN drawn.calls}
     IN inspector.open /\ channel # NoChannel /\ channelOf[owner[channel]] = channel =>
          /\ drawn.snapshot = {snapshot[owner[channel]]}
          /\ \A e \in calls : /\ e.outcome = "running" <=> e.call \notin ended
                             /\ e.call >= firstSeen /\ e.call \notin inspector.gone
          /\ \A c \in firstSeen..Len(callOf) :
               callOf[c] = owner[channel] => drawn.truncated \/ \E e \in calls : e.call = c
=============================================================================
