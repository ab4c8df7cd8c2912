------------------------- MODULE ConnectionLifecycle -------------------------
(***************************************************************************)
(* The provider's lifecycle effect (src/react/provider.tsx): mounting,      *)
(* attempts, recovery on the backoff schedule, teardown and the effect      *)
(* being rebuilt, over the runtime's connect and shutdown                   *)
(* (src/runtime/server.ts), the transport of each attempt, the published    *)
(* state machine (src/react/connection-state.ts), the schedule              *)
(* (src/transport/reconnect.ts) and the document claim                      *)
(* (src/webmcp/claim.ts).                                                   *)
(*                                                                         *)
(* An attempt, its runtime and its transport have one identity, a slot; a   *)
(* slot is used again once nothing of its attempt is left.                  *)
(***************************************************************************)
EXTENDS WebSocketTransport, FiniteSets, Naturals

CONSTANTS
  MaxSlots,         \* bound on the attempts something is left of at one time
  MaxMounts,        \* bound on the times the effect is set up
  LastInterval,     \* index of the last interval of the schedule
  ObserverMayThrow  \* whether onConnectionChange may throw

ASSUME LifecycleAssumption ==
  /\ MaxSlots \in Nat \ {0} /\ MaxMounts \in Nat
  /\ LastInterval \in Nat \ {0} /\ ObserverMayThrow \in BOOLEAN

Slots == 1..MaxSlots

NoRuntime == 0

VARIABLES
  mounted,    \* the effect is set up: not torn
  mounts,     \* times it was
  starting,   \* start() calls awaiting the registry: the mounted effect's, a torn one's
  claim,      \* the document claim
  serving,    \* gateway open, declarations adopted, claimed = true
  published,  \* publishedRef
  index,      \* of the schedule
  timer,      \* a recovery is pending
  current,    \* runtimeRef
  attempt,    \* the attempts
  failed      \* setMountFailure was called: the provider throws at its next render

vars == <<mounted, mounts, starting, claim, serving, published, index, timer, current,
          attempt, failed>>

Statuses == {"disconnected", "connecting", "connected", "reconnecting", "error"}

(* url: awaiting getUrl(); dialing: awaiting the handshake; subscribing:    *)
(* awaiting onToolChange(); baselining: awaiting publication.open();        *)
(* connected: reported so; over: none of the code awaits it any more.       *)
Awaiting == {"url", "dialing", "subscribing", "baselining"}

Stages == Awaiting \cup {"none", "connected", "over"}

Attempts ==
  [stage : Stages,
   first : BOOLEAN,        \* start()'s own, not a recovery
   torn : BOOLEAN,         \* its effect was cleaned up
   transport : Transports,
   window : BOOLEAN,       \* its publication window is open
   subscribed : BOOLEAN]   \* to the registry and the record

TypeOK ==
  /\ mounted \in BOOLEAN
  /\ mounts \in 0..MaxMounts
  /\ starting \subseteq {"mounted", "torn"}
  /\ claim \in {"free", "ours", "other"}
  /\ serving \in BOOLEAN
  /\ published \in Statuses
  /\ index \in 0..LastInterval
  /\ timer \in BOOLEAN
  /\ current \in Slots \cup {NoRuntime}
  /\ attempt \in [Slots -> Attempts]
  /\ failed \in BOOLEAN

NoAttempt ==
  [stage |-> "none", first |-> FALSE, torn |-> FALSE, transport |-> Unused,
   window |-> FALSE, subscribed |-> FALSE]

Init ==
  /\ mounted = FALSE
  /\ mounts = 0
  /\ starting = {}
  /\ claim = "free"
  /\ serving = FALSE
  /\ published = "disconnected"
  /\ index = 0
  /\ timer = FALSE
  /\ current = NoRuntime
  /\ attempt = [a \in Slots |-> NoAttempt]
  /\ failed = FALSE

InFlight(a) == attempt[a].stage \in Awaiting

(* An observer may have thrown, and the provider throws at its next render. *)
Failing == ObserverMayThrow /\ failed

-----------------------------------------------------------------------------
(***************************************************************************)
(* report().                                                               *)
(***************************************************************************)
Transitions ==
  [disconnected |-> {"connecting"},
   connecting   |-> {"connected", "error", "disconnected"},
   connected    |-> {"reconnecting", "disconnected"},
   reconnecting |-> {"reconnecting", "connecting", "connected", "disconnected"},
   error        |-> {"disconnected"}]

Permits(from, to) == to \in Transitions[from]

(* What is published once next was asked for. *)
Reported(from, next) == IF Permits(from, next) THEN next ELSE from

(* Whether the application's observer throws out of that report. *)
Throws(from, next) ==
  IF ObserverMayThrow /\ Permits(from, next) THEN BOOLEAN ELSE {FALSE}

-----------------------------------------------------------------------------
(***************************************************************************)
(* The runtime of an attempt.                                              *)
(***************************************************************************)

(* runtime.shutdown(): the protocol layer closes the transport it still has.*)
Shut(r) ==
  [r EXCEPT !.window = FALSE, !.subscribed = FALSE,
            !.transport = IF Detached(r.transport) THEN r.transport ELSE GivenUp(r.transport)]

(* No code awaits the attempt any more; its slot is free if nothing is left.*)
Over(r) ==
  IF Held(r.transport) \/ r.window \/ r.subscribed THEN [r EXCEPT !.stage = "over"]
  ELSE NoAttempt

LetGo(a) == IF current = a THEN NoRuntime ELSE current

(* attempt() up to its await of getUrl(), in the lowest slot that is free. *)
Begin(a, first) ==
  /\ attempt[a] = NoAttempt
  /\ \A b \in 1..(a - 1) : attempt[b] # NoAttempt
  /\ attempt' = [attempt EXCEPT ![a] =
       [NoAttempt EXCEPT !.stage = "url", !.first = first, !.transport = Started(Unused)]]
  /\ current' = a

(* schedule.next(), held at the last interval. *)
Advanced(i) == IF i = LastInterval THEN LastInterval ELSE i + 1

(* scheduleRecovery(), from a state that published from. An observer that   *)
(* throws leaves the timer unset, and again is then whatever called it.     *)
ScheduleRecovery(from) ==
  /\ published' = Reported(from, "reconnecting")
  /\ index' = Advanced(index)
  /\ \E throws \in Throws(from, "reconnecting") : timer' = (timer \/ ~throws)

(* The catch of a recovery attempt, for a throw of the observer within it:  *)
(* the loud channel, and another recovery from a state that published from, *)
(* with at steps of the schedule taken.                                     *)
RecoverLoudly(from, at) ==
  /\ failed' = TRUE
  /\ published' = Reported(from, "reconnecting")
  /\ index' = Advanced(at)
  /\ timer' \in {~throws : throws \in Throws(from, "reconnecting")}

(* Faulty Rejected: a recovery's failure is handled as a first attempt's.   *)
RejectedForGood(a, t, loud) ==
  /\ attempt' = [attempt EXCEPT ![a] = Over(Shut([@ EXCEPT !.transport = t]))]
  /\ current' = LetGo(a)
  /\ published' = IF loud \/ attempt[a].torn THEN published ELSE Reported(published, "error")
  /\ failed' = (failed \/ (loud /\ ~attempt[a].torn))
  /\ UNCHANGED <<mounted, mounts, starting, claim, serving, index, timer>>

(* connect() of a rejected, its transport t by then: attempt()'s catch, then*)
(* start()'s for a first attempt and the timer's for a recovery.  loud: not *)
(* a connection failure.                                                    *)
Rejected(a, t, loud) ==
  /\ attempt' = [attempt EXCEPT ![a] = Over(Shut([@ EXCEPT !.transport = t]))]
  /\ current' = LetGo(a)
  /\ \/ /\ attempt[a].torn
        /\ UNCHANGED <<published, index, timer, failed>>
     \/ /\ ~attempt[a].torn /\ attempt[a].first
        /\ published' = IF loud THEN published ELSE Reported(published, "error")
        /\ failed' = (failed \/ loud)
        /\ UNCHANGED <<index, timer>>
     \/ /\ ~attempt[a].torn /\ ~attempt[a].first
        /\ ScheduleRecovery(published)
        /\ UNCHANGED failed
  /\ UNCHANGED <<mounted, mounts, starting, claim, serving>>

-----------------------------------------------------------------------------
(***************************************************************************)
(* The effect and start().                                                 *)
(***************************************************************************)

(* A provider that failed to mount is another one by its next effect. *)
Mount ==
  /\ ~mounted /\ mounts < MaxMounts
  /\ mounted' = TRUE
  /\ mounts' = mounts + 1
  /\ starting' = starting \cup {"mounted"}
  /\ index' = 0
  /\ failed' = FALSE
  /\ UNCHANGED <<claim, serving, published, timer, current, attempt>>

(* ensureRegistry() rejected: no document, or loudly. *)
RegistryRefused ==
  /\ "mounted" \in starting
  /\ starting' = starting \ {"mounted"}
  /\ failed' \in {failed, TRUE}
  /\ UNCHANGED <<mounted, mounts, claim, serving, published, index, timer, current, attempt>>

(* claimDocument() threw. *)
ClaimRefused ==
  /\ "mounted" \in starting /\ claim # "free"
  /\ starting' = starting \ {"mounted"}
  /\ failed' = TRUE
  /\ UNCHANGED <<mounted, mounts, claim, serving, published, index, timer, current, attempt>>

(* Claim, gateway, declarations, the report and the first attempt. *)
Serve(a) ==
  /\ "mounted" \in starting /\ claim = "free"
  /\ starting' = starting \ {"mounted"}
  /\ claim' = "ours"
  /\ serving' = TRUE
  /\ published' = Reported(published, "connecting")
  /\ \E throws \in Throws(published, "connecting") :
       IF throws THEN failed' = TRUE /\ UNCHANGED <<current, attempt>>
       ELSE Begin(a, TRUE) /\ UNCHANGED failed
  /\ UNCHANGED <<mounted, mounts, index, timer>>

(* start() of an effect that was torn meanwhile. *)
TornStartReturns ==
  /\ "torn" \in starting
  /\ starting' = starting \ {"torn"}
  /\ UNCHANGED <<mounted, mounts, claim, serving, published, index, timer, current,
                 attempt, failed>>

(* The cleanup: at unmount, or before the effect is set up again. *)
Teardown ==
  /\ mounted
  /\ published' = Reported(published, "disconnected")
  /\ mounted' = FALSE
  /\ timer' = FALSE
  /\ current' = NoRuntime
  /\ serving' = FALSE
  /\ claim' = IF serving THEN "free" ELSE claim
  /\ starting' = IF starting = {} THEN {} ELSE {"torn"}
  /\ attempt' = [a \in Slots |->
       LET torn == [attempt[a] EXCEPT !.torn = attempt[a].stage # "none"]
           left == IF a = current THEN Shut(torn) ELSE torn
       IN  IF InFlight(a) THEN left ELSE Over(left)]
  /\ UNCHANGED <<mounts, index, failed>>

-----------------------------------------------------------------------------
(***************************************************************************)
(* An attempt, from await to await, and what the platform does to it.      *)
(***************************************************************************)
Becomes(a, r) ==
  /\ attempt' = [attempt EXCEPT ![a] = r]
  /\ UNCHANGED <<mounted, mounts, starting, claim, serving, published, index, timer,
                 current, failed>>

(* getUrl() rejected. *)
UrlRefused(a) ==
  /\ attempt[a].stage = "url"
  /\ Rejected(a, Ended(attempt[a].transport), FALSE)

(* getUrl() answered what the platform does not accept: the constructor     *)
(* threw.                                                                   *)
UrlUnusable(a) ==
  /\ attempt[a].stage = "url"
  /\ Rejected(a, Ended(attempt[a].transport), FALSE)

(* getUrl() answered in time. *)
UrlAnswered(a) ==
  /\ attempt[a].stage = "url" /\ ~attempt[a].transport.expired
  /\ Becomes(a, [attempt[a] EXCEPT !.stage = "dialing", !.transport = Dialed(@)])

(* It answered after the deadline: the socket is constructed and abandoned. *)
UrlAnsweredLate(a) ==
  /\ attempt[a].stage = "url" /\ attempt[a].transport.expired
  /\ Rejected(a, GivenUp(Dialed(attempt[a].transport)), FALSE)

(* Faulty DeadlineFires: cleared once the URL is there. *)
DeadlineFiresForUrl(a) ==
  /\ attempt[a].stage = "url" /\ ~attempt[a].transport.expired
  /\ Becomes(a, [attempt[a] EXCEPT !.transport.expired = TRUE])

(* The deadline settles the attempt; start() resumes at once unless getUrl()*)
(* is still pending.                                                        *)
DeadlineFires(a) ==
  \/ /\ attempt[a].stage = "url" /\ ~attempt[a].transport.expired
     /\ Becomes(a, [attempt[a] EXCEPT !.transport.expired = TRUE])
  \/ /\ attempt[a].stage = "dialing"
     /\ Rejected(a, GivenUp(attempt[a].transport), FALSE)

(* An error or a close of the socket before it opened. *)
DialFails(a) ==
  /\ attempt[a].stage = "dialing" /\ attempt[a].transport.socket = "dialing"
  /\ Rejected(a, GivenUp(attempt[a].transport), FALSE)

(* The socket opens: start() and server.connect() resolve, onclose is       *)
(* wrapped, the registry subscription is asked for.                         *)
Handshake(a) ==
  /\ attempt[a].stage = "dialing" /\ attempt[a].transport.socket = "dialing"
  /\ Becomes(a, [attempt[a] EXCEPT !.stage = "subscribing", !.transport = Opened(@)])

(* onToolChange() rejected. *)
SubscriptionFails(a) ==
  /\ attempt[a].stage = "subscribing"
  /\ Rejected(a, attempt[a].transport, TRUE)

(* Subscribed to both sources; publication.open() opens its window.         *)
Subscribed(a) ==
  /\ attempt[a].stage = "subscribing"
  /\ Becomes(a, [attempt[a] EXCEPT !.stage = "baselining", !.subscribed = TRUE,
                                   !.window = TRUE])

(* Faulty ConnectedTorn: returns without a shutdown. *)
ConnectedTornReturning(a) ==
  /\ attempt[a].stage = "baselining" /\ attempt[a].torn
  /\ Becomes(a, Over(attempt[a]))

(* connect() resolved for an effect that is gone. *)
ConnectedTorn(a) ==
  /\ attempt[a].stage = "baselining" /\ attempt[a].torn
  /\ Becomes(a, Over(Shut(attempt[a])))

(* connect() resolved on a channel that ended meanwhile: progress.ended. *)
ConnectedDead(a) ==
  /\ attempt[a].stage = "baselining" /\ ~attempt[a].torn /\ Detached(attempt[a].transport)
  /\ attempt' = [attempt EXCEPT ![a] = Over(Shut(@))]
  /\ current' = LetGo(a)
  /\ \/ /\ ScheduleRecovery(published)
        /\ timer' = TRUE
        /\ UNCHANGED failed
     \/ /\ TRUE \in Throws(published, "reconnecting")
        /\ RecoverLoudly("reconnecting", Advanced(index))
  /\ UNCHANGED <<mounted, mounts, starting, claim, serving>>

(* Faulty Established: does not ask whether the channel ended meanwhile. *)
EstablishedUnasked(a) ==
  /\ attempt[a].stage = "baselining" /\ ~attempt[a].torn
  /\ attempt' = [attempt EXCEPT ![a].stage = "connected"]
  /\ published' = Reported(published, "connected")
  /\ index' = 0
  /\ UNCHANGED <<mounted, mounts, starting, claim, serving, timer, current, failed>>

(* connect() resolved: established. *)
Established(a) ==
  /\ attempt[a].stage = "baselining" /\ ~attempt[a].torn /\ ~Detached(attempt[a].transport)
  /\ attempt' = [attempt EXCEPT ![a].stage = "connected"]
  /\ \E throws \in Throws(published, "connected") :
       IF throws /\ ~attempt[a].first THEN RecoverLoudly("connected", 0)
       ELSE /\ published' = Reported(published, "connected")
            /\ index' = 0
            /\ failed' = (failed \/ throws)
            /\ UNCHANGED timer
  /\ UNCHANGED <<mounted, mounts, starting, claim, serving, current>>

(* The peer or the network closes an open socket.  Whoever still listens is *)
(* told: the runtime closes its window, and an attempt that reported success*)
(* has lost its channel.                                                    *)
ChannelEnds(a) ==
  /\ attempt[a].transport.socket = "open"
  /\ LET r    == attempt[a]
         left == [r EXCEPT !.transport = Dropped(@),
                           !.window = @ /\ Detached(r.transport)]
     IN  IF r.stage = "connected"
         THEN /\ attempt' = [attempt EXCEPT ![a] = Over(Shut(left))]
              /\ current' = LetGo(a)
              /\ ScheduleRecovery(published)
              /\ UNCHANGED <<mounted, mounts, starting, claim, serving, failed>>
         ELSE Becomes(a, IF InFlight(a) THEN left ELSE Over(left))

(* Faulty TimerFires: gives up at the end of the schedule. *)
TimerFiresBounded(a) ==
  /\ timer /\ index < LastInterval
  /\ timer' = FALSE
  /\ Begin(a, FALSE)
  /\ UNCHANGED <<mounted, mounts, starting, claim, serving, published, index, failed>>

(* The recovery's timer: a new runtime, a new transport, a new credential.  *)
(* No interval is as short as the render in which a failed provider throws, *)
(* which unmounts it.                                                       *)
TimerFires(a) ==
  /\ timer /\ ~failed
  /\ timer' = FALSE
  /\ Begin(a, FALSE)
  /\ UNCHANGED <<mounted, mounts, starting, claim, serving, published, index, failed>>

(* Another provider of the document takes the claim, or gives it back. *)
OtherProvider ==
  /\ \/ claim = "free" /\ claim' = "other"
     \/ claim = "other" /\ claim' = "free"
  /\ UNCHANGED <<mounted, mounts, starting, serving, published, index, timer, current,
                 attempt, failed>>

Platform(a) ==
  \/ UrlRefused(a) \/ UrlUnusable(a) \/ UrlAnswered(a) \/ UrlAnsweredLate(a)
  \/ DeadlineFires(a) \/ DialFails(a) \/ Handshake(a)
  \/ SubscriptionFails(a) \/ Subscribed(a) \/ ChannelEnds(a)

Resolves(a) == ConnectedTorn(a) \/ ConnectedDead(a) \/ Established(a)

Next ==
  \/ Mount \/ RegistryRefused \/ ClaimRefused \/ TornStartReturns \/ Teardown
  \/ OtherProvider
  \/ \E a \in Slots : Serve(a) \/ Platform(a) \/ Resolves(a) \/ TimerFires(a)

Spec == Init /\ [][Next]_vars

(* What runs by itself: timers, and the continuations of settled awaits. *)
Scheduling ==
  /\ \A a \in Slots : WF_vars(DeadlineFires(a))
  /\ \A a \in Slots : WF_vars(SubscriptionFails(a) \/ Subscribed(a))
  /\ \A a \in Slots : WF_vars(Resolves(a))
  /\ WF_vars(\E a \in Slots : TimerFires(a))

(* An application whose getUrl() settles. *)
Supplier ==
  \A a \in Slots :
    WF_vars(UrlRefused(a) \/ UrlUnusable(a) \/ UrlAnswered(a) \/ UrlAnsweredLate(a))

(* A gateway that is there again at some time: no step of the attempts that *)
(* could succeed over and over fails every time.                            *)
Gateway ==
  /\ SF_vars(\E a \in Slots : UrlAnswered(a))
  /\ SF_vars(\E a \in Slots : Handshake(a))
  /\ SF_vars(\E a \in Slots : Subscribed(a) /\ Sendable(attempt[a].transport))
  /\ SF_vars(\E a \in Slots : Established(a))

(* Of getUrl() and the gateway nothing is promised: what rests on them says so. *)
FairSpec == Spec /\ Scheduling

-----------------------------------------------------------------------------
(***************************************************************************)
(* Properties.                                                             *)
(***************************************************************************)

(* Of one mounted provider there is at most one thing under way: a pending  *)
(* recovery, an attempt in flight or an established channel, and the last   *)
(* two are the runtime runtimeRef names.  Two sockets of one page present   *)
(* as duplicate tool calls (the cleanup of provider.tsx).  A provider whose *)
(* observer threw has its timer beside the channel until its next render    *)
(* unmounts it, and the timer does not fire before.                         *)
OneChannel ==
  LET live == {a \in Slots : attempt[a].stage # "none" /\ ~attempt[a].torn}
  IN  /\ live \subseteq {current}
      /\ timer /\ ~Failing => live = {}
      /\ Cardinality({a \in Slots : Sendable(attempt[a].transport)}) <= 1

(* Teardown leaves no timer, no runtime to reach, no claim and no usable    *)
(* channel, and an attempt it overtook ends with nothing subscribed and no  *)
(* window open, whichever await it was in.                                  *)
NothingOutlivesTeardown ==
  /\ ~mounted => ~timer /\ current = NoRuntime /\ ~serving /\ claim # "ours"
  /\ \A a \in Slots : attempt[a].torn =>
       /\ ~Sendable(attempt[a].transport)
       /\ attempt[a].stage = "over" => ~attempt[a].window /\ ~attempt[a].subscribed

(* What the page shows as being recovered is being recovered: recovery is   *)
(* not bounded by a count and does not give up (connection-state.ts).       *)
RecoveryNeverGivesUp ==
  published = "reconnecting" => timer \/ (current # NoRuntime /\ InFlight(current))

(* Only an established channel, or another effect, puts the schedule back:  *)
(* a reset by an attempt that failed is a retry storm (reconnect.ts).       *)
BackoffNeverRestarts ==
  [][index' < index =>
       \/ mounts' > mounts
       \/ \E a \in Slots : attempt[a].stage # "connected" /\ attempt'[a].stage = "connected"
    ]_vars

(* A page that is being recovered reaches its agent again, unless it is torn *)
(* down or failing loudly, where the application's getUrl() settles and the *)
(* gateway is there again at some time (the lifecycle effect, provider.tsx). *)
RecoveryReachesTheAgent ==
  Supplier /\ Gateway =>
    (published = "reconnecting" ~> (published \in {"connected", "disconnected"} \/ failed))

(* An attempt that has its URL does not stay in flight forever, whatever the *)
(* gateway does or leaves undone: before the handshake the deadline ends it, *)
(* also one whose effect is gone (start() in websocket.ts, attempt() in     *)
(* provider.tsx).                                                           *)
DialedAttemptSettles ==
  \A a \in Slots : InFlight(a) /\ attempt[a].stage # "url" ~> ~InFlight(a)

(* "The deadline covers the WHOLE attempt - obtaining the URL as well as     *)
(* opening the socket" (start() in websocket.ts): no attempt stays in flight *)
(* forever, whether getUrl() answers or not.                                *)
DeadlineCoversTheAttempt ==
  \A a \in Slots : InFlight(a) ~> ~InFlight(a)

(* There is a channel: the current attempt's, established and usable.       *)
Channel ==
  /\ current # NoRuntime
  /\ attempt[current].stage = "connected" /\ Sendable(attempt[current].transport)

(* What is shown as connected is connected, and a channel is shown as one   *)
(* unless the provider fails loudly, whatever an observer of the reports    *)
(* throws and in whichever of them (report() in provider.tsx).              *)
StatusTellsTheChannel ==
  /\ published = "connected" => Channel
  /\ Channel /\ ~Failing => published = "connected"

Link == INSTANCE AgentLink WITH status <- published, channel <- Channel

(* The provider implements the link: what it publishes is what there is.    *)
ImplementsLink == Link!Spec

(* "Resolving means sendable" (start() in websocket.ts).                    *)
ResolvingMeansSendable ==
  [][\A a \in Slots :
       attempt[a].stage = "dialing" /\ attempt'[a].stage = "subscribing"
         => Sendable(attempt'[a].transport)]_vars

=============================================================================
