--------------------------- MODULE ObservationBus ---------------------------
(***************************************************************************)
(* The observation bus (src/runtime/observation.ts): calls report when they *)
(* begin and how they end, and whoever subscribed hears of it later, in a   *)
(* microtask.                                                              *)
(*                                                                         *)
(* A sink is application code on the bus's own stack: while it runs it may  *)
(* subscribe, unsubscribe, cause a call to begin or to end, and throw.      *)
(* What it throws is caught and reported, and changes nothing else.         *)
(* Subscriptions are numbered in the order in which a Set walks them, calls *)
(* by a counter that every provider's bus shares.                          *)
(***************************************************************************)
EXTENDS Naturals, SequencesExt

CONSTANTS
  MaxCalls,   \* bound on the ids issued
  MaxSubs     \* bound on the subscriptions made

ASSUME BusAssumption == MaxCalls \in Nat /\ MaxSubs \in Nat

VARIABLES
  currentCall, \* currentCallId()
  begun,      \* the calls that began on this bus
  settled,    \* those of them whose terminal was published
  since,      \* per subscription: the first call it is to hear of
  subscribed,  \* subscriptions not withdrawn
  queue,      \* events published and not yet taken by a drain
  draining,   \* a drain is scheduled
  walk,       \* what the running drain has still to deliver, present item first
  hearing,    \* the subscription whose sink runs, 0 before the item's first
  log,        \* history: everything published
  received    \* history: what each sink was given

busVars == <<currentCall, begun, settled, since, subscribed, queue, draining, walk, hearing, log, received>>

Calls == 1..MaxCalls

Event == [call : Calls, phase : {"start", "terminal"}]

Subs == 1..Len(since)

(* A drain is scheduled whenever something waits for one. *)
BusTypeOK ==
  /\ currentCall \in 0..MaxCalls
  /\ begun \subseteq 1..currentCall /\ settled \subseteq begun
  /\ since \in Seq(1..(currentCall + 1)) /\ Len(since) <= MaxSubs
  /\ subscribed \subseteq Subs
  /\ queue \in Seq(Event) /\ walk \in Seq(Event)
  /\ draining \in BOOLEAN /\ (queue # <<>> /\ walk = <<>> => draining)
  /\ hearing \in 0..Len(since) /\ (hearing # 0 => walk # <<>>)
  /\ log \in Seq(Event)
  /\ received \in Seq(Seq(Event)) /\ Len(received) = Len(since)

BusInit ==
  /\ currentCall = 0
  /\ begun = {}
  /\ settled = {}
  /\ since = <<>>
  /\ subscribed = {}
  /\ queue = <<>>
  /\ draining = FALSE
  /\ walk = <<>>
  /\ hearing = 0
  /\ log = <<>>
  /\ received = <<>>

-----------------------------------------------------------------------------
(***************************************************************************)
(* The application, in a turn of its own or from a sink.                   *)
(***************************************************************************)
InApplication == walk = <<>> \/ hearing # 0

(* Faulty Since: the last id issued, not the next.                          *)
SinceLast == currentCall

(* The next id that will be issued. *)
Since == currentCall + 1

Subscribe ==
  /\ InApplication /\ Len(since) < MaxSubs
  /\ since' = Append(since, Since)
  /\ subscribed' = subscribed \cup {Len(since) + 1}
  /\ received' = Append(received, <<>>)
  /\ UNCHANGED <<currentCall, begun, settled, queue, draining, walk, hearing, log>>

Unsubscribe(s) ==
  /\ InApplication /\ s \in subscribed
  /\ subscribed' = subscribed \ {s}
  /\ UNCHANGED <<currentCall, begun, settled, since, queue, draining, walk, hearing, log, received>>

Publish(e) ==
  /\ queue' = Append(queue, e)
  /\ log' = Append(log, e)
  /\ draining' = TRUE

(* beginIfObserved: with nobody listening the call is not observed at all.  *)
Begin ==
  /\ InApplication /\ subscribed # {} /\ currentCall < MaxCalls
  /\ currentCall' = currentCall + 1
  /\ begun' = begun \cup {currentCall'}
  /\ Publish([call |-> currentCall', phase |-> "start"])
  /\ UNCHANGED <<settled, since, subscribed, walk, hearing, received>>

(* A call that began on another provider's bus.                             *)
BeginElsewhere ==
  /\ InApplication /\ currentCall < MaxCalls
  /\ currentCall' = currentCall + 1
  /\ UNCHANGED <<begun, settled, since, subscribed, queue, draining, walk, hearing, log, received>>

(* finishResult or finishError; a second terminal is reported, not published. *)
Finish(c) ==
  /\ InApplication /\ c \in begun \ settled
  /\ settled' = settled \cup {c}
  /\ Publish([call |-> c, phase |-> "terminal"])
  /\ UNCHANGED <<currentCall, begun, since, subscribed, walk, hearing, received>>

-----------------------------------------------------------------------------
(***************************************************************************)
(* The drain, from sink to sink.                                           *)
(***************************************************************************)

(* The microtask: what is queued now is walked, what comes later is not. *)
Drain ==
  /\ draining /\ walk = <<>>
  /\ draining' = FALSE
  /\ walk' = queue
  /\ queue' = <<>>
  /\ hearing' = 0
  /\ UNCHANGED <<currentCall, begun, settled, since, subscribed, log, received>>

(* Those of the live subscriptions still to be given the present item.      *)
Remaining == {s \in subscribed : s > hearing /\ since[s] <= Head(walk).call}

(* Faulty Deliver: what a sink throws ends the drain.                       *)
DeliverUnguarded ==
  /\ walk # <<>> /\ Remaining # {}
  /\ LET s == CHOOSE s \in Remaining : \A r \in Remaining : s <= r IN
       /\ received' = [received EXCEPT ![s] = Append(@, Head(walk))]
       /\ \E throws \in BOOLEAN :
            /\ hearing' = IF throws THEN 0 ELSE s
            /\ walk' = IF throws THEN <<>> ELSE walk
  /\ UNCHANGED <<currentCall, begun, settled, since, subscribed, queue, draining, log>>

Deliver ==
  /\ walk # <<>> /\ Remaining # {}
  /\ hearing' = CHOOSE s \in Remaining : \A r \in Remaining : s <= r
  /\ received' = [received EXCEPT ![hearing'] = Append(@, Head(walk))]
  /\ UNCHANGED <<currentCall, begun, settled, since, subscribed, queue, draining, walk, log>>

(* The item was walked; the last one ends the drain. *)
Walked ==
  /\ walk # <<>> /\ Remaining = {}
  /\ walk' = Tail(walk)
  /\ hearing' = 0
  /\ draining' = (draining \/ (walk' = <<>> /\ queue # <<>>))
  /\ UNCHANGED <<currentCall, begun, settled, since, subscribed, queue, log, received>>

-----------------------------------------------------------------------------
BusApplication ==
  \/ Subscribe \/ Begin \/ BeginElsewhere
  \/ \E s \in Subs : Unsubscribe(s)
  \/ \E c \in begun : Finish(c)

BusNext == BusApplication \/ Drain \/ Deliver \/ Walked

BusSpec == BusInit /\ [][BusNext]_busVars

-----------------------------------------------------------------------------
(***************************************************************************)
(* Properties.                                                             *)
(***************************************************************************)

(* What a sink is given is a story it can read: of every call it hears the  *)
(* beginning, then at most one ending, never an ending whose beginning went *)
(* to somebody else.                                                        *)
WellPaired ==
  \A s \in Subs : \A i \in DOMAIN received[s] :
    LET e == received[s][i]
        Earlier(phase) == \E k \in 1..(i - 1) : received[s][k] = [call |-> e.call, phase |-> phase]
    IN  /\ (e.phase = "terminal") = Earlier("start")
        /\ ~Earlier("terminal")

(* What the drains have still to give to s. *)
Pending(s) ==
  (IF walk # <<>> /\ s <= hearing THEN Tail(walk) ELSE walk) \o queue

(* Whatever sinks do to the bus or throw while they are being delivered to, *)
(* what the drains have still to give a live subscription is the end of     *)
(* what was published; of what comes before it, each event of the calls it  *)
(* is to hear of was given, once and in the order of publication.           *)
ExactlyOnceInOrder ==
  \A s \in subscribed :
    LET given == received[s]
        Wanted(e) == e.call >= since[s]
        told == Len(log) - Len(Pending(s))
    IN  /\ \A k \in DOMAIN Pending(s) : Pending(s)[k] = log[told + k]
        /\ \A i \in 1..told : Wanted(log[i]) => Contains(given, log[i])
        /\ \A k \in DOMAIN given : \E i \in 1..told : given[k] = log[i] /\ Wanted(log[i])
        /\ \A k, l \in DOMAIN given : \A i, j \in DOMAIN log :
             k < l /\ given[k] = log[i] /\ given[l] = log[j] => i < j

(* Someone is to hear of an event and has not. *)
Behind ==
  \E s \in subscribed : \E i \in DOMAIN log :
    log[i].call >= since[s] /\ ~Contains(received[s], log[i])

(* When no drain is scheduled and none runs, nobody is behind: whatever was   *)
(* published while sinks ran, ended or threw has a drain of its own to come  *)
(* (observation.ts, publish and the end of drain).                          *)
HeardAtRest == ~draining /\ walk = <<>> => ~Behind

=============================================================================
