----------------------------- MODULE BridgeCall -----------------------------
(***************************************************************************)
(* Calls an agent makes over the bridge: the tools/call handler of          *)
(* src/runtime/server.ts, invoke / run / confirm of                         *)
(* src/runtime/invocation.ts with the cancellation latch of                 *)
(* src/runtime/cancellation.ts, running against one application tool whose  *)
(* component mounts, replaces its descriptor, refreshes its permissions and *)
(* unmounts, and against built-in tools, while an operator edits the        *)
(* capability set.                                                          *)
(*                                                                         *)
(* A step runs from one await to the next.  The code between two awaits is  *)
(* written as operators from a call's record to its next record, so that an *)
(* early return reads as one.  Resolvers, validators and handlers are the   *)
(* application's: they answer anything, late, or never.                     *)
(***************************************************************************)
EXTENDS Naturals, FiniteSets

CONSTANTS
  Calls,     \* tools/call requests, one per request id
  BuiltIns,  \* those that name a built-in control tool (runtime.evaluate)
  Replaces   \* whether the component changes its descriptor while mounted

ASSUME CallAssumption == BuiltIns \subseteq Calls /\ Replaces \in BOOLEAN

Levels == {"application", "evaluate"}
Level(c) == IF c \in BuiltIns THEN "evaluate" ELSE "application"

Gates == {"resolve", "capability", "policy", "validate", "confirm", "invoke"}

(* The gates before g in GATE_CHAIN. *)
Before(g) ==
  CASE g = "resolve"    -> {}
    [] g = "capability" -> {"resolve"}
    [] g = "policy"     -> {"resolve", "capability"}
    [] g = "validate"   -> {"resolve", "capability", "policy"}
    [] g = "confirm"    -> {"resolve", "capability", "policy", "validate"}
    [] g = "invoke"     -> {"resolve", "capability", "policy", "validate", "confirm"}

Cancellations == {"callAbandoned", "callCancelled"}

(* The codes a handler may report for itself (HANDLER_REPORTABLE). *)
Reportable == {"domRefStale"}

(* The gate each refusal code belongs to. *)
GateOf ==
  [unresolved |-> "resolve", capabilityDenied |-> "capability",
   toolUnavailable |-> "policy", argumentsInvalid |-> "validate",
   confirmationUnavailable |-> "confirm", confirmationRefused |-> "confirm",
   toolExecutionFailed |-> "invoke", domRefStale |-> "invoke",
   resultNotSerializable |-> "invoke", resultViolatesOutputSchema |-> "invoke"]

Refusals == DOMAIN GateOf
Outcomes == Refusals \cup Cancellations \cup {"success"}

VARIABLES
  phase,     \* the tool: "gone", "registering" (in the registry, not in the
             \* ownership record), "offered" (in both)
  declared,  \* its declaration lifetime has not aborted
  offer,     \* the permissions its record entry carries, Undefined without one
  granted,   \* the capability set
  aborted,   \* calls whose request signal has aborted
  call       \* per call, its record

tool == <<phase, declared, offer>>
vars == <<phase, declared, offer, granted, aborted, call>>

Permissions == [available : BOOLEAN, confirms : BOOLEAN]

(* No entry, or none declared: available, and nothing to confirm.           *)
Undefined == [available |-> TRUE, confirms |-> FALSE]

CallRecord ==
  [pc        : {"idle", "resolving", "validating", "confirming", "running",
                "checking", "done"},
   listed    : BOOLEAN,  \* its name was in the registry it enumerated, until resolved
   by        : {"nobody", "agent", "withdrawal"},   \* the latched first cause
   gates     : [Gates -> {"none", "passed", "refused"}],
   outcome   : Outcomes \cup {"none"},
   ran       : BOOLEAN,  \* the answer says the tool had already run
   entered   : BOOLEAN,  \* history: the handler was entered
   completed : {"no", "first", "late"},  \* the handler settled: before or after the latch
   approved  : BOOLEAN,  \* history: a person approved this call
   waived    : BOOLEAN,  \* history: at some point of this call the tool asked for none
   windowed  : BOOLEAN]  \* history: the entry was replaced under this call

TypeOK ==
  /\ phase \in {"gone", "registering", "offered"}
  /\ declared \in BOOLEAN
  /\ offer \in Permissions
  /\ granted \in SUBSET Levels
  /\ aborted \in SUBSET Calls
  /\ call \in [Calls -> CallRecord]
  /\ \A c \in Calls : call[c].pc = "done" <=> call[c].outcome # "none"

NewCall ==
  [pc |-> "idle", listed |-> FALSE, by |-> "nobody",
   gates |-> [g \in Gates |-> "none"], outcome |-> "none", ran |-> FALSE,
   entered |-> FALSE, completed |-> "no", approved |-> FALSE,
   waived |-> FALSE, windowed |-> FALSE]

Init ==
  /\ phase = "gone"
  /\ declared = FALSE
  /\ offer = Undefined
  /\ granted = {"application"}
  /\ aborted = {}
  /\ call = [c \in Calls |-> NewCall]

-----------------------------------------------------------------------------
(***************************************************************************)
(* What the gates read, live.                                              *)
(***************************************************************************)

(* permissions(): the record entry by name, or a built-in's own constant.   *)
Admitted(c) == Level(c) \in granted

Available(c) == c \in BuiltIns \/ offer.available

NeedsConfirmation(c) == c \in BuiltIns \/ offer.confirms

(***************************************************************************)
(* Returning from run(), and the code between two awaits.                  *)
(***************************************************************************)
Passed(k, g) == [k EXCEPT !.gates = [@ EXCEPT ![g] = "passed"]]

Answered(k, code) == [k EXCEPT !.pc = "done", !.outcome = code]

(* Faulty Refused: a return site that records nothing. *)
RefusedUnrecorded(k, g, code) == Answered(k, code)

Refused(k, g, code) ==
  Answered([k EXCEPT !.gates = [@ EXCEPT ![g] = "refused"]], code)

(* Faulty Cancelled: does not say whether the handler had run.              *)
CancelledUntold(k) ==
  Answered(k, IF k.by = "withdrawal" THEN "callAbandoned" ELSE "callCancelled")

(* cancelled(): named after the latched cause, and honest about the handler. *)
Cancelled(k) ==
  [Answered(k, IF k.by = "withdrawal" THEN "callAbandoned" ELSE "callCancelled")
     EXCEPT !.ran = (k.completed # "no")]

(* The re-read just before the handler, then the handler is entered. *)
Enter(k) ==
  IF k.by # "nobody" THEN Cancelled(k) ELSE [k EXCEPT !.pc = "running", !.entered = TRUE]

(* A refusal from confirm() marks its gate only if nobody has cancelled. *)
NotConfirmed(k, code) ==
  IF k.by = "nobody" THEN Refused(k, "confirm", code) ELSE Answered(k, code)

(* Faulty AskOrEnter: nobody to ask is taken for a permission.              *)
AskOrEnterUnasked(c, k, hasResolver) ==
  IF ~NeedsConfirmation(c) \/ ~hasResolver THEN Enter(Passed(k, "confirm"))
  ELSE [k EXCEPT !.pc = "confirming"]

(* Gate 6 up to the resolver's await. *)
AskOrEnter(c, k, hasResolver) ==
  IF ~NeedsConfirmation(c) THEN Enter(Passed(k, "confirm"))
  ELSE IF ~hasResolver THEN NotConfirmed(k, "confirmationUnavailable")
  ELSE [k EXCEPT !.pc = "confirming"]

(* Gates 3 to 5, up to the validator's await if a schema was declared. *)
Admit(c, k, hasSchema, hasResolver) ==
  IF k.by # "nobody" THEN Cancelled(k)
  ELSE IF ~Admitted(c) THEN Refused(k, "capability", "capabilityDenied")
  ELSE IF ~Available(c)
       THEN Refused(Passed(k, "capability"), "policy", "toolUnavailable")
  ELSE LET admitted == Passed(Passed(k, "capability"), "policy")
       IN  IF hasSchema THEN [admitted EXCEPT !.pc = "validating"]
           ELSE AskOrEnter(c, Passed(admitted, "validate"), hasResolver)

(* Faulty Decide: the authority the call arrived with is still good.        *)
DecideOnArrivalAuthority(c, k, approves) ==
  IF ~approves THEN NotConfirmed(k, "confirmationRefused")
  ELSE [Enter(Passed(k, "confirm")) EXCEPT !.approved = TRUE]

(* confirm() after the resolver answered: cancellation and authority re-read. *)
Decide(c, k, approves) ==
  IF k.by # "nobody" THEN Cancelled(k)
  ELSE IF ~Admitted(c) THEN NotConfirmed(k, "capabilityDenied")
  ELSE IF ~Available(c) THEN NotConfirmed(k, "toolUnavailable")
  ELSE IF ~approves THEN NotConfirmed(k, "confirmationRefused")
  ELSE [Enter(Passed(k, "confirm")) EXCEPT !.approved = TRUE]

-----------------------------------------------------------------------------
(***************************************************************************)
(* The life of one call.                                                   *)
(***************************************************************************)

(* `c` becomes the record k; nothing else moves. *)
Becomes(c, k) ==
  /\ call' = [call EXCEPT ![c] = k]
  /\ UNCHANGED <<phase, declared, offer, granted, aborted>>

(* The request arrives and the registry is enumerated. *)
Arrive(c) ==
  /\ call[c].pc = "idle"
  /\ Becomes(c, [call[c] EXCEPT !.pc = "resolving", !.listed = (phase # "gone")])

(* composeCancellation on sources that may have aborted already. *)
Composed(c) ==
  IF c \in aborted THEN "agent"
  ELSE IF c \notin BuiltIns /\ ~declared THEN "withdrawal"
  ELSE "nobody"

(* The enumeration is back: the record is read now, then the first gates. *)
Resolve(c) ==
  /\ call[c].pc = "resolving"
  /\ IF c \in BuiltIns \/ (call[c].listed /\ phase = "offered")
     THEN \E hasSchema, hasResolver \in BOOLEAN :
            Becomes(c, Admit(c, Passed([call[c] EXCEPT !.listed = FALSE, !.by = Composed(c),
                                                       !.waived = ~NeedsConfirmation(c)],
                                       "resolve"), hasSchema, hasResolver))
     ELSE Becomes(c, Refused([call[c] EXCEPT !.listed = FALSE], "resolve", "unresolved"))

(* `await check(inputSchema)`: what the validator found, cancelled or not. *)
ValidationAnswers(c) ==
  /\ call[c].pc = "validating"
  /\ \/ Becomes(c, Refused(call[c], "validate", "argumentsInvalid"))
     \/ \E hasResolver \in BOOLEAN :
          Becomes(c, AskOrEnter(c, Passed(call[c], "validate"), hasResolver))

(* The resolver answered, with an approval or with anything else. *)
ConfirmationAnswers(c) ==
  /\ call[c].pc = "confirming"
  /\ \E approves \in BOOLEAN : Becomes(c, Decide(c, call[c], approves))

(* The resolver threw or rejected, possibly because its signal aborted. *)
ConfirmationThrows(c) ==
  /\ call[c].pc = "confirming"
  /\ Becomes(c, NotConfirmed(call[c], "confirmationRefused"))

(* The stamp: did the handler settle before the cancellation was latched? *)
Settled(k) == [k EXCEPT !.completed = IF k.by = "nobody" THEN "first" ELSE "late"]

Succeeded(k) == Passed(Answered(k, "success"), "invoke")

(* Faulty HandlerReturns: whatever a handler returns is its call's result.  *)
HandlerReturnsUnordered(c) ==
  /\ call[c].pc = "running"
  /\ Becomes(c, Succeeded(Settled(call[c])))

(* The handler returned: the verdict, normalize(), then the output schema. *)
HandlerReturns(c) ==
  /\ call[c].pc = "running"
  /\ LET k == Settled(call[c]) IN
       IF k.completed = "late" THEN Becomes(c, Cancelled(k))
       ELSE \/ Becomes(c, Refused(k, "invoke", "resultNotSerializable"))
            \/ Becomes(c, Succeeded(k))
            \/ Becomes(c, [k EXCEPT !.pc = "checking"])

(* Faulty HandlerThrows: a handler may claim any code for itself.           *)
HandlerThrowsAnyCode(c) ==
  /\ call[c].pc = "running"
  /\ \E code \in Refusals : Becomes(c, Refused(Settled(call[c]), "invoke", code))

(* It threw, naming a code of its own or not (reportableCode). *)
HandlerThrows(c) ==
  /\ call[c].pc = "running"
  /\ LET k == Settled(call[c]) IN
       IF k.completed = "late" THEN Becomes(c, Cancelled(k))
       ELSE \E code \in Refusals :
              Becomes(c, Refused(k, "invoke",
                           IF code \in Reportable THEN code ELSE "toolExecutionFailed"))

(* `await check(outputSchema)` answered. *)
OutputAnswers(c) ==
  /\ call[c].pc = "checking"
  /\ \/ Becomes(c, Succeeded(call[c]))
     \/ Becomes(c, Refused(call[c], "invoke", "resultViolatesOutputSchema"))

(* Faulty CancellationWins: only the handler is raced.                      *)
CancellationWinsHandlerOnly(c) ==
  /\ call[c].pc = "running"
  /\ call[c].by # "nobody"
  /\ Becomes(c, Cancelled(call[c]))

(* The cancellation side of every bounded await and of the handler's race. *)
CancellationWins(c) ==
  /\ call[c].pc \in {"validating", "confirming", "running", "checking"}
  /\ call[c].by # "nobody"
  /\ Becomes(c, Cancelled(call[c]))

-----------------------------------------------------------------------------
(***************************************************************************)
(* The agent, the component and the operator.                              *)
(***************************************************************************)

(* A call inside invoke(), whose cancellation is composed. *)
Live(c) == call[c].pc \in {"validating", "confirming", "running", "checking"}

(* latch(): only the first cause is recorded. *)
Latched(k, cause) == IF k.by = "nobody" THEN [k EXCEPT !.by = cause] ELSE k

(* The client cancels, or the channel ends. *)
AgentCancels(c) ==
  /\ call[c].pc \notin {"idle", "done"} /\ c \notin aborted
  /\ aborted' = aborted \cup {c}
  /\ call' = IF Live(c) THEN [call EXCEPT ![c] = Latched(call[c], "agent")] ELSE call
  /\ UNCHANGED <<tool, granted>>

(* The declaration lifetime aborts under every live call of the tool. *)
Abandoned ==
  [c \in Calls |-> IF Live(c) /\ c \notin BuiltIns THEN Latched(call[c], "withdrawal")
                   ELSE call[c]]

(* The entry's permissions become o under every live call of the tool. *)
Offered(o) ==
  /\ offer' = o
  /\ call' = [c \in Calls |-> IF Live(c) /\ c \notin BuiltIns /\ ~o.confirms
                              THEN [call[c] EXCEPT !.waived = TRUE] ELSE call[c]]

(* The component mounts: register() has taken the name, ownership.add waits. *)
Register ==
  /\ phase = "gone"
  /\ phase' = "registering"
  /\ declared' = TRUE
  /\ UNCHANGED <<offer, granted, aborted, call>>

(* ownership.add *)
Own ==
  /\ phase = "registering"
  /\ phase' = "offered"
  /\ \E o \in Permissions : Offered(o)
  /\ UNCHANGED <<declared, granted, aborted>>

(* refresh: the entry is written again with the render's permissions. *)
Refresh ==
  /\ phase = "offered" /\ declared
  /\ \E o \in Permissions : Offered(o)
  /\ UNCHANGED <<phase, declared, granted, aborted>>

(* A descriptor change: the old registration's abort clears the entry in the *)
(* turn that registers the new one, which the record holds only later.       *)
Replace ==
  /\ Replaces /\ phase = "offered" /\ declared
  /\ phase' = "registering"
  /\ offer' = Undefined
  /\ call' = [c \in Calls |-> IF Live(c) /\ c \notin BuiltIns
                              THEN [call[c] EXCEPT !.windowed = TRUE] ELSE call[c]]
  /\ UNCHANGED <<declared, granted, aborted>>

(* A rename, or an unmount with a replacement queued: the lifetime aborts   *)
(* now, the registration is withdrawn when the queue gets to it.            *)
Disown ==
  /\ phase # "gone" /\ declared
  /\ declared' = FALSE
  /\ call' = Abandoned
  /\ UNCHANGED <<phase, offer, granted, aborted>>

(* The registration's abort: out of the registry and the record in one turn. *)
Withdraw ==
  /\ phase # "gone"
  /\ phase' = "gone"
  /\ declared' = FALSE
  /\ offer' = Undefined
  /\ call' = Abandoned
  /\ UNCHANGED <<granted, aborted>>

(* The operator grants or withdraws capabilities. *)
SetCapabilities ==
  /\ granted' \in SUBSET Levels
  /\ UNCHANGED <<tool, aborted, call>>

-----------------------------------------------------------------------------
Step(c) ==
  \/ Arrive(c) \/ Resolve(c)
  \/ ValidationAnswers(c)
  \/ ConfirmationAnswers(c) \/ ConfirmationThrows(c)
  \/ HandlerReturns(c) \/ HandlerThrows(c) \/ OutputAnswers(c)
  \/ CancellationWins(c) \/ AgentCancels(c)

Environment ==
  \/ Register \/ Own \/ Refresh \/ Replace \/ Disown \/ Withdraw
  \/ SetCapabilities

Next == (\E c \in Calls : Step(c)) \/ Environment

(* Only the library's own continuations are owed: a request that arrived is  *)
(* resolved, a latched cancellation reaches the race it is in.  Validators,  *)
(* resolvers and handlers may never answer.                                 *)
Fairness == \A c \in Calls : WF_vars(Resolve(c)) /\ WF_vars(CancellationWins(c))

Spec == Init /\ [][Next]_vars /\ Fairness
-----------------------------------------------------------------------------
(***************************************************************************)
(* Properties                                                              *)
(***************************************************************************)

(* Nobody is bypassed: a call whose handler was entered was approved by a   *)
(* person, or its tool asked for no confirmation at some point of the call, *)
(* or its entry was being replaced meanwhile (see ApprovedBeforeRun).       *)
ApprovedUnlessWindow ==
  \A c \in Calls : call[c].entered =>
    (call[c].approved \/ call[c].waived \/ call[c].windowed)

(* What the documentation promises without the last alternative:            *)
(* `confirmation: 'required'` means a person answers before the handler     *)
(* runs.                                                                    *)
ApprovedBeforeRun ==
  \A c \in Calls : call[c].entered => (call[c].approved \/ call[c].waived)

(* An agent told that a gate refused its call may safely call again: the    *)
(* handler was never entered, whatever code a handler throws.               *)
RefusalMeansNotRun ==
  \A c \in Calls :
    (call[c].outcome \in Refusals /\ GateOf[call[c].outcome] # "invoke") => ~call[c].entered

(* A cancelled call never answers with a stale success: success, or the     *)
(* tool's own failure, is told only of a handler that settled before any    *)
(* cancellation was latched.                                                *)
NoStaleSuccess ==
  \A c \in Calls :
    (call[c].outcome = "success"
       \/ (call[c].outcome \in Refusals /\ GateOf[call[c].outcome] = "invoke"))
    => call[c].completed = "first"

(* A cancelled call whose handler had settled says that the application may *)
(* have changed; one that does not say so never saw its handler settle.     *)
CancelledAnswerIsHonest ==
  \A c \in Calls :
    call[c].outcome \in Cancellations => (call[c].ran <=> call[c].completed # "no")

RefusedGates(k) == {g \in Gates : k.gates[g] = "refused"}
PassedGates(k) == {g \in Gates : k.gates[g] = "passed"}

(* The gates a refusal may be recorded at: its own, and confirm for the two *)
(* authorities confirm() reads again.                                       *)
BlamedGates(code) ==
  {GateOf[code]} \cup
  (IF code \in {"capabilityDenied", "toolUnavailable"} THEN {"confirm"} ELSE {})

(* The observation and the answer tell one story: a refused call has        *)
(* exactly one refused gate, one its code names, and exactly the gates      *)
(* before it passed; a success passed all six; a cancellation blames no     *)
(* gate, and neither does a refusal that a cancellation overtook.           *)
RecordMatchesAnswer ==
  \A c \in Calls :
    LET k == call[c] IN
    /\ (k.outcome \in Refusals /\ k.by = "nobody") =>
         \E g \in BlamedGates(k.outcome) :
           RefusedGates(k) = {g} /\ PassedGates(k) = Before(g)
    /\ k.outcome = "success" => PassedGates(k) = Gates
    /\ k.outcome \in Cancellations => RefusedGates(k) = {}

(* The cause is the first one: once latched it never changes, and a call    *)
(* that ends cancelled is named after it.                                   *)
FirstCauseStands ==
  [][\A c \in Calls :
       /\ call[c].by # "nobody" => call'[c].by = call[c].by
       /\ call'[c].outcome = "callAbandoned" => call'[c].by = "withdrawal"
       /\ call'[c].outcome = "callCancelled" => call'[c].by = "agent"]_vars

(* A handler is entered only for a call nobody has cancelled, and, after a  *)
(* person approved it, only under the authority in force at that moment.    *)
EnteredUnderLiveAuthority ==
  [][\A c \in Calls :
       (~call[c].entered /\ call'[c].entered) =>
         /\ call'[c].by = "nobody"
         /\ call'[c].approved => (Admitted(c) /\ Available(c))]_vars

(* A cancelled call settles whether or not the application cooperates: no   *)
(* validator, resolver or handler can hold it open.                         *)
CancelledCallSettles ==
  \A c \in Calls :
    (c \in aborted \/ call[c].by # "nobody") ~> call[c].pc = "done"

=============================================================================
