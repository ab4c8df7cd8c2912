------------------------- MODULE ToolListPublisher -------------------------
(***************************************************************************)
(* The tool-list publisher of src/runtime/tool-list-publication.ts, driven  *)
(* the way createMcpRuntime (src/runtime/server.ts) drives it: the loop that *)
(* decides whether a connected agent must be told that its tool set moved.  *)
(*                                                                         *)
(* A derivation is three steps, because currentListing() awaits the         *)
(* registry before it looks at the ownership record, and its caller awaits  *)
(* the result: what the pass enumerated, what it derived from that and the  *)
(* record of a later moment, and the continuation that uses the answer.  A  *)
(* send is likewise started in one step and settled in another.             *)
(*                                                                         *)
(* Derivations of one window are assumed to settle in the order they were   *)
(* issued (one getTools() queue, equal chains of awaits), which orders a    *)
(* window's baseline before its drains.                                     *)
(***************************************************************************)
EXTENDS DerivedListing, Naturals

CONSTANT MaxEpoch   \* bound on the publisher's epochs (windows closed)

ASSUME PublisherAssumption == MaxEpoch \in Nat

VARIABLES
  registry,     \* what getTools() would answer at this instant
  record,       \* what the ownership record, permissions and grants would
  unsignalled,  \* an event of the page is on its way to signal()
  open,         \* the publication window
  epoch,        \* incremented by every close
  last,         \* lastReconciled: the token of what the agent was last told
  dirty,        \* a signal no pass has accounted for
  pc,           \* the drain: draining is pc # "idle"
  mine,         \* the epoch the running drain captured
  read,         \* what the running pass carries: a registry, then a listing
  baseline,     \* per epoch, that window's open() and what it carries
  alarm,        \* a failure was reported and no later pass has begun
  registries,   \* history: the registries of this window
  records       \* history: the records of this window

seen  == <<registries, records>>
page  == <<registry, record, seen>>
vars  == <<page, unsignalled, open, epoch, last, dirty, pc, mine, read,
           baseline, alarm>>

Epochs == 0..MaxEpoch

(* One open() call, and a derivation's carried value at each of its stages. *)
Unopened == [at |-> "unopened", read |-> None]
Opened   == [at |-> "enumerating", read |-> None]
Done     == [at |-> "done", read |-> None]

Stages == {"unopened", "enumerating", "deriving", "comparing", "done"}
Carries(at, value) ==
  /\ at = "deriving" => value \in Registries
  /\ at \in {"comparing", "sending"} => value \in Listings
  /\ at \notin {"deriving", "comparing", "sending"} => value = None

Pending(e) == baseline[e].at \in {"enumerating", "deriving", "comparing"}

TypeOK ==
  /\ registry \in Registries /\ registries \in SUBSET Registries
  /\ record \in Records /\ records \in SUBSET Records
  /\ unsignalled \in BOOLEAN /\ open \in BOOLEAN
  /\ dirty \in BOOLEAN /\ alarm \in BOOLEAN
  /\ epoch \in Epochs /\ mine \in Epochs
  /\ last \in Listings \cup {None}
  /\ pc \in {"idle", "enumerating", "deriving", "comparing", "sending", "unwinding"}
  /\ Carries(pc, read)
  /\ read \in Registries \cup Listings \cup {None}
  /\ baseline \in [Epochs -> [at : Stages, read : Registries \cup Listings \cup {None}]]
  /\ \A e \in Epochs : Carries(baseline[e].at, baseline[e].read)

Init ==
  /\ registry \in Registries
  /\ record \in Records
  /\ unsignalled = FALSE
  /\ open = FALSE
  /\ epoch = 0
  /\ last = None
  /\ dirty = FALSE
  /\ pc = "idle"
  /\ mine = 0
  /\ read = None
  /\ baseline = [e \in Epochs |-> Unopened]
  /\ alarm = FALSE
  /\ registries = {}
  /\ records = {}

-----------------------------------------------------------------------------
(***************************************************************************)
(* The drain.                                                              *)
(***************************************************************************)

(* Faulty Stale: the epoch is not compared, so a reopened window looks like  *)
(* the one the pass began in.                                               *)
StaleWithoutEpoch(e) == ~open \/ e \notin Epochs

(* `!open || epoch !== mine`: this pass belongs to a connection that ended. *)
Stale(e) == ~open \/ epoch # e

(* One turn of the while loop: the dirty bit is consumed before deriving.   *)
BeginPass ==
  /\ dirty' = FALSE
  /\ pc' = "enumerating"
  /\ read' = None
  /\ alarm' = FALSE

(* drain() settles, whatever the pass carried is gone. *)
Return == pc' = "unwinding" /\ read' = None

(* startDrain *)
StartDrain == BeginPass /\ mine' = epoch

(* The while test, reached after a pass that had nothing to say or said it. *)
LoopOrReturn ==
  IF dirty
  THEN BeginPass
  ELSE Return /\ UNCHANGED <<dirty, alarm>>

(* signal() *)
Signal ==
  \/ ~open /\ UNCHANGED <<dirty, pc, mine, read, alarm>>
  \/ open /\ pc = "idle" /\ StartDrain
  \/ open /\ pc # "idle" /\ dirty' = TRUE /\ UNCHANGED <<pc, mine, read, alarm>>

(* getTools() answers this pass, after it has answered this window's open(). *)
DrainEnumerates ==
  /\ pc = "enumerating"
  /\ baseline[mine].at # "enumerating"
  /\ pc' = "deriving"
  /\ read' = registry
  /\ UNCHANGED <<page, unsignalled, open, epoch, last, dirty, mine, baseline, alarm>>

(* deriveListing: that registry, and the record as it is by now. *)
DrainDerives ==
  /\ pc = "deriving"
  /\ baseline[mine].at \notin {"enumerating", "deriving"}
  /\ pc' = "comparing"
  /\ read' = Derived(read, record)
  /\ UNCHANGED <<page, unsignalled, open, epoch, last, dirty, mine, baseline, alarm>>

(* The derivation rejected: out of drain(), into `.catch(report)`. *)
DrainReadFails ==
  /\ pc = "enumerating"
  /\ Return
  /\ alarm' = TRUE
  /\ UNCHANGED <<page, unsignalled, open, epoch, last, dirty, mine, baseline>>

(* The continuation of `await options.derive()`. *)
DrainCompares ==
  /\ pc = "comparing"
  /\ ~Pending(mine)
  /\ \/ Stale(mine) /\ Return /\ UNCHANGED <<dirty, alarm>>
     \/ ~Stale(mine) /\ read = last /\ LoopOrReturn
     \/ ~Stale(mine) /\ read # last /\ pc' = "sending"
        /\ UNCHANGED <<dirty, read, alarm>>
  /\ UNCHANGED <<page, unsignalled, open, epoch, last, mine, baseline>>

(* Faulty SendSettles: returns without looking at the dirty bit. *)
SendSettlesOnce ==
  /\ pc = "sending"
  /\ pc' = "idle" /\ read' = None
  /\ last' = IF Stale(mine) THEN last ELSE read
  /\ UNCHANGED <<page, unsignalled, open, epoch, dirty, mine, baseline, alarm>>

(* `await options.send()` resolved: only now is the token advanced. *)
SendSettles ==
  /\ pc = "sending"
  /\ \/ Stale(mine) /\ Return /\ UNCHANGED <<last, dirty, alarm>>
     \/ ~Stale(mine) /\ last' = read /\ LoopOrReturn
  /\ UNCHANGED <<page, unsignalled, open, epoch, mine, baseline>>

(* Faulty SendFails: the token is advanced although nothing was delivered. *)
SendFailsAdvancing ==
  /\ pc = "sending"
  /\ Return
  /\ last' = read
  /\ UNCHANGED <<page, unsignalled, open, epoch, dirty, mine, baseline, alarm>>

(* It rejected: silent for a closed window, reported otherwise. *)
SendFails ==
  /\ pc = "sending"
  /\ Return
  /\ alarm' = IF Stale(mine) THEN alarm ELSE TRUE
  /\ UNCHANGED <<page, unsignalled, open, epoch, last, dirty, mine, baseline>>

(* Faulty DrainFinally: no restart. *)
DrainFinallyWithoutRestart ==
  /\ pc = "unwinding"
  /\ pc' = "idle"
  /\ UNCHANGED <<page, unsignalled, open, epoch, last, dirty, mine, read, baseline, alarm>>

(* startDrain's `finally`: a drain that returned early may leave work behind. *)
DrainFinally ==
  /\ pc = "unwinding"
  /\ IF dirty /\ open
     THEN StartDrain
     ELSE pc' = "idle" /\ UNCHANGED <<dirty, mine, read, alarm>>
  /\ UNCHANGED <<page, unsignalled, open, epoch, last, baseline>>

-----------------------------------------------------------------------------
(***************************************************************************)
(* The page.                                                               *)
(***************************************************************************)

PageMoves(r, o) ==
  /\ registry' = r
  /\ record' = o
  /\ registries' = IF open THEN registries \cup {r} ELSE registries
  /\ records' = IF open THEN records \cup {o} ELSE records

(* A registration or a withdrawal, by this library or another script, of    *)
(* whatever is registered already (r = registry): toolchange follows.       *)
RegistryChanges(r) ==
  /\ PageMoves(r, record)
  /\ unsignalled' = TRUE
  /\ UNCHANGED <<open, epoch, last, dirty, pc, mine, read, baseline, alarm>>

(* The ownership record's add and remove announce in the same turn. *)
OwnershipChanges(n, f) ==
  /\ PageMoves(registry, [record EXCEPT ![n] = f])
  /\ Signal
  /\ UNCHANGED <<unsignalled, open, epoch, last, baseline>>

(* A built-in granted or no longer: the set moves in the layout effect, the *)
(* provider's passive effect calls capabilitiesChanged() later.             *)
CapabilitiesChange(n, f) ==
  /\ PageMoves(registry, [record EXCEPT ![n] = f])
  /\ unsignalled' = TRUE
  /\ UNCHANGED <<open, epoch, last, dirty, pc, mine, read, baseline, alarm>>

(* toolchange, or the passive effect, arrives. *)
EventArrives ==
  /\ unsignalled
  /\ unsignalled' = FALSE
  /\ Signal
  /\ UNCHANGED <<page, open, epoch, last, baseline>>

-----------------------------------------------------------------------------
(***************************************************************************)
(* The window.                                                             *)
(***************************************************************************)

(* open(), up to its await. *)
Open ==
  /\ ~open /\ baseline[epoch] = Unopened
  /\ open' = TRUE
  /\ baseline' = [baseline EXCEPT ![epoch] = Opened]
  /\ registries' = {registry}
  /\ records' = {record}
  /\ UNCHANGED <<registry, record, unsignalled, epoch, last, dirty, pc, mine, read, alarm>>

OpenEnumerates(e) ==
  /\ baseline[e].at = "enumerating"
  /\ baseline' = [baseline EXCEPT ![e] = [at |-> "deriving", read |-> registry]]
  /\ UNCHANGED <<page, unsignalled, open, epoch, last, dirty, pc, mine, read, alarm>>

OpenDerives(e) ==
  /\ baseline[e].at = "deriving"
  /\ baseline' = [baseline EXCEPT ![e] =
                    [at |-> "comparing", read |-> Derived(baseline[e].read, record)]]
  /\ UNCHANGED <<page, unsignalled, open, epoch, last, dirty, pc, mine, read, alarm>>

(* The baseline derivation rejected, so connect() rejects to its caller. *)
OpenReadFails(e) ==
  /\ baseline[e].at = "enumerating"
  /\ baseline' = [baseline EXCEPT ![e] = Done]
  /\ alarm' = IF Stale(e) THEN alarm ELSE TRUE
  /\ UNCHANGED <<page, unsignalled, open, epoch, last, dirty, pc, mine, read>>

(* The continuation of open()'s await: what the agent will read first. *)
OpenReturns(e) ==
  /\ baseline[e].at = "comparing"
  /\ last' = IF Stale(e) THEN last ELSE baseline[e].read
  /\ baseline' = [baseline EXCEPT ![e] = Done]
  /\ UNCHANGED <<page, unsignalled, open, epoch, dirty, pc, mine, read, alarm>>

(* close(): idempotent, from shutdown() or from the channel ending. *)
Close ==
  /\ epoch < MaxEpoch
  /\ open' = FALSE
  /\ dirty' = FALSE
  /\ epoch' = epoch + 1
  /\ last' = None
  /\ registries' = {} /\ records' = {}
  /\ UNCHANGED <<registry, record, unsignalled, pc, mine, read, baseline, alarm>>

-----------------------------------------------------------------------------
Drain ==
  \/ DrainEnumerates \/ DrainDerives \/ DrainReadFails \/ DrainCompares
  \/ SendSettles \/ SendFails \/ DrainFinally

Baseline(e) ==
  OpenEnumerates(e) \/ OpenDerives(e) \/ OpenReadFails(e) \/ OpenReturns(e)

PageChanges ==
  \/ \E r \in Registries : RegistryChanges(r)
  \/ \E n \in Names \ BuiltIns, f \in Fields \cup {None} : OwnershipChanges(n, f)
  \/ \E n \in BuiltIns, f \in Fields \cup {None} : CapabilitiesChange(n, f)

Next ==
  \/ PageChanges
  \/ EventArrives
  \/ Drain
  \/ Open
  \/ \E e \in Epochs : Baseline(e)
  \/ Close

(* The event loop runs what was scheduled: events are delivered, promises   *)
(* that the library awaits settle one way or the other.  Nothing obliges    *)
(* the page to change, or anyone to open or close a window.                 *)
Fairness ==
  /\ WF_vars(EventArrives)
  /\ WF_vars(Drain)
  /\ \A e \in Epochs : WF_vars(Baseline(e))

Spec == Init /\ [][Next]_vars /\ Fairness

-----------------------------------------------------------------------------
(***************************************************************************)
(* Properties                                                              *)
(***************************************************************************)

(* Nothing is scheduled: no event on its way, no pass, no baseline pending. *)
AtRest == ~unsignalled /\ pc = "idle" /\ ~Pending(epoch)

(* No signal is lost.  An open publisher with nothing scheduled has told    *)
(* the agent what the page holds, or has reported that it could not: never  *)
(* a stale agent that nobody will ever correct (the dirty bit and the       *)
(* restart in startDrain's finally).                                        *)
NoLostSignal == (open /\ AtRest) => (last = Derived(registry, record) \/ alarm)

(* What the agent is believed to know was derived in this very window, from *)
(* a registry and a record of this window: a pass or a baseline of an ended *)
(* connection never writes its token into the next one (the epoch re-read   *)
(* after every await).                                                      *)
TokenOfThisWindow ==
  last # None =>
    open /\ \E r \in registries, o \in records : last = Derived(r, o)

(* If the page and the window settle, the token settles on the page's set   *)
(* or failures are being reported, whatever interleaving came before.       *)
TokenCatchesUp ==
  \A r \in Registries, o \in Records :
    <>[](open /\ registry = r /\ record = o)
      => []<>(last = Derived(r, o) \/ alarm)

=============================================================================
