--------------------------- MODULE BridgeCallProofs ---------------------------
(***************************************************************************)
(* What BridgeCall guarantees for every set of calls, however many are in    *)
(* flight: whatever validators, resolvers, handlers, the component, the     *)
(* operator and the agent do.                                               *)
(***************************************************************************)
EXTENDS BridgeCall, TLAPS

(***************************************************************************)
(* The inductive invariant speaks of one call's record at a time: the code  *)
(* between two awaits maps records that satisfy it to records that do.      *)
(***************************************************************************)
Unsettled == {"idle", "resolving", "validating", "confirming"}

(* Where a call can be given that its handler was, or was not, entered.     *)
Progressed(k) ==
  /\ k.pc \in Unsettled => ~k.entered /\ ~k.approved
  /\ k.pc \in Unsettled \cup {"running"} => k.completed = "no"
  /\ k.pc = "checking" => k.completed = "first"

(* What an answer says about the handler.                                   *)
Told(k) ==
  /\ (k.outcome \in Refusals /\ GateOf[k.outcome] # "invoke") => ~k.entered
  /\ (k.outcome = "success" \/ (k.outcome \in Refusals /\ GateOf[k.outcome] = "invoke"))
       => k.completed = "first"
  /\ k.outcome \in Cancellations => (k.ran <=> k.completed # "no")

WellFormed(k) ==
  /\ k \in CallRecord
  /\ k.pc = "done" <=> k.outcome # "none"
  /\ Progressed(k)
  /\ Told(k)

(* A call still on its way.                                                 *)
Open(k) == WellFormed(k) /\ k.pc # "done"

USE DEF Unsettled

(* The codes are pairwise what they look like: cancellations and success    *)
(* are no refusals.                                                         *)
LEMMA Codes ==
  /\ Refusals = {"unresolved", "capabilityDenied", "toolUnavailable", "argumentsInvalid",
                 "confirmationUnavailable", "confirmationRefused", "toolExecutionFailed",
                 "domRefStale", "resultNotSerializable", "resultViolatesOutputSchema"}
  /\ \A code \in Refusals :
       GateOf[code] = "invoke" <=>
         code \in {"toolExecutionFailed", "domRefStale", "resultNotSerializable",
                   "resultViolatesOutputSchema"}
  BY DEF Refusals, GateOf

(* Recording a gate changes nothing else.                                   *)
LEMMA PassedKeeps ==
  ASSUME NEW k, Open(k), NEW g \in Gates
  PROVE  /\ Open(Passed(k, g))
         /\ Passed(k, g).pc = k.pc /\ Passed(k, g).by = k.by
         /\ Passed(k, g).entered = k.entered /\ Passed(k, g).completed = k.completed
         /\ Passed(k, g).approved = k.approved
         /\ Passed(k, g).waived = k.waived /\ Passed(k, g).windowed = k.windowed
  BY DEF Open, WellFormed, Progressed, Told, Passed, CallRecord

(* A refusal before the handler is told of a call whose handler never ran.  *)
LEMMA RefusedWell ==
  ASSUME NEW k, Open(k), NEW g \in Gates, NEW code \in Refusals,
         \/ GateOf[code] # "invoke" /\ ~k.entered
         \/ GateOf[code] = "invoke" /\ k.completed = "first"
  PROVE  /\ WellFormed(Refused(k, g, code)) /\ WellFormed(Answered(k, code))
         /\ Refused(k, g, code).entered = k.entered /\ Answered(k, code).entered = k.entered
  BY Codes DEF Open, WellFormed, Progressed, Told, Refused, Answered, CallRecord, Outcomes, Cancellations

LEMMA CancelledWell ==
  ASSUME NEW k, Open(k)
  PROVE  /\ WellFormed(Cancelled(k))
         /\ Cancelled(k).entered = k.entered
  BY Codes DEF Open, WellFormed, Progressed, Told, Cancelled, Answered, CallRecord, Outcomes,
               Cancellations

(* Entering the handler needs a call nobody has cancelled.                  *)
LEMMA EnterWell ==
  ASSUME NEW k, Open(k), k.pc \in Unsettled
  PROVE  /\ WellFormed(Enter(k))
         /\ Enter(k).entered => k.by = "nobody"
  <1>1. CASE k.by # "nobody"
    BY <1>1, CancelledWell DEF Enter, Open, WellFormed, Progressed
  <1>2. CASE k.by = "nobody"
    BY <1>2, Codes DEF Enter, Open, WellFormed, Progressed, Told, CallRecord, Cancellations
  <1> QED BY <1>1, <1>2

LEMMA NotConfirmedWell ==
  ASSUME NEW k, Open(k), k.pc \in Unsettled,
         NEW code \in Refusals, GateOf[code] # "invoke"
  PROVE  /\ WellFormed(NotConfirmed(k, code))
         /\ ~NotConfirmed(k, code).entered
  <1>1. ~k.entered /\ "confirm" \in Gates
    BY DEF Open, WellFormed, Progressed, Gates
  <1> QED BY <1>1, RefusedWell DEF NotConfirmed

(* Waiting for an answer leaves a call open and its handler unentered.      *)
LEMMA AwaitWell ==
  ASSUME NEW k, Open(k), k.pc \in Unsettled, NEW p \in {"validating", "confirming"}
  PROVE  /\ WellFormed([k EXCEPT !.pc = p])
         /\ ~[k EXCEPT !.pc = p].entered
  BY DEF Open, WellFormed, Progressed, Told, CallRecord

LEMMA AskOrEnterWell ==
  ASSUME NEW c, NEW k, Open(k), k.pc \in Unsettled, NEW hasResolver \in BOOLEAN
  PROVE  WellFormed(AskOrEnter(c, k, hasResolver))
  <1>1. CASE ~NeedsConfirmation(c)
    <2>1. "confirm" \in Gates
      BY DEF Gates
    <2>2. Open(Passed(k, "confirm")) /\ Passed(k, "confirm").pc \in Unsettled
      BY <2>1, PassedKeeps
    <2> QED BY <1>1, <2>2, EnterWell DEF AskOrEnter
  <1>2. CASE NeedsConfirmation(c) /\ ~hasResolver
    BY <1>2, NotConfirmedWell, Codes DEF AskOrEnter
  <1>3. CASE NeedsConfirmation(c) /\ hasResolver
    BY <1>3, AwaitWell DEF AskOrEnter
  <1> QED BY <1>1, <1>2, <1>3

LEMMA AdmitWell ==
  ASSUME NEW c, NEW k, Open(k), k.pc \in Unsettled,
         NEW hasSchema \in BOOLEAN, NEW hasResolver \in BOOLEAN
  PROVE  WellFormed(Admit(c, k, hasSchema, hasResolver))
  <1> DEFINE capable == Passed(k, "capability")
             offered == Passed(capable, "policy")
             valid   == Passed(offered, "validate")
  <1>1. {"capability", "policy", "validate"} \subseteq Gates
    BY DEF Gates
  <1>2. Open(capable) /\ capable.pc \in Unsettled
    BY <1>1, PassedKeeps
  <1>3. Open(offered) /\ offered.pc \in Unsettled
    <2> HIDE DEF capable
    <2> QED BY <1>1, <1>2, PassedKeeps
  <1>4. Open(valid) /\ valid.pc \in Unsettled
    <2> HIDE DEF offered
    <2> QED BY <1>1, <1>3, PassedKeeps
  <1>5. ~k.entered /\ ~capable.entered
    BY <1>2 DEF Open, WellFormed, Progressed
  <1>6. WellFormed(Cancelled(k))
    BY CancelledWell
  <1>7. WellFormed(Refused(k, "capability", "capabilityDenied"))
    BY <1>1, <1>5, RefusedWell, Codes
  <1>8. WellFormed(Refused(capable, "policy", "toolUnavailable"))
    <2> HIDE DEF capable
    <2> QED BY <1>1, <1>2, <1>5, RefusedWell, Codes
  <1>9. WellFormed([offered EXCEPT !.pc = "validating"])
    <2> HIDE DEF offered
    <2> QED BY <1>3, AwaitWell
  <1>10. WellFormed(AskOrEnter(c, valid, hasResolver))
    <2> HIDE DEF valid
    <2> QED BY <1>4, AskOrEnterWell
  <1> QED BY <1>6, <1>7, <1>8, <1>9, <1>10 DEF Admit

LEMMA DecideWell ==
  ASSUME NEW c, NEW k, Open(k), k.pc \in Unsettled, NEW approves \in BOOLEAN
  PROVE  WellFormed(Decide(c, k, approves))
  <1> DEFINE confirmed == Passed(k, "confirm")
  <1>1. "confirm" \in Gates
    BY DEF Gates
  <1>2. Open(confirmed) /\ confirmed.pc \in Unsettled /\ confirmed.by = k.by
    BY <1>1, PassedKeeps
  <1>3. k.by = "nobody" => WellFormed([Enter(confirmed) EXCEPT !.approved = TRUE])
    <2> HIDE DEF confirmed
    <2> QED BY <1>2, Codes DEF Enter, Open, WellFormed, Progressed, Told, CallRecord, Cancellations
  <1>4. WellFormed(Cancelled(k))
    BY CancelledWell
  <1>5. /\ WellFormed(NotConfirmed(k, "capabilityDenied"))
        /\ WellFormed(NotConfirmed(k, "toolUnavailable"))
        /\ WellFormed(NotConfirmed(k, "confirmationRefused"))
    BY NotConfirmedWell, Codes
  <1> QED BY <1>3, <1>4, <1>5 DEF Decide

-----------------------------------------------------------------------------
(***************************************************************************)
(* The records invariant, one step per action.                             *)
(***************************************************************************)
RecordsInv ==
  /\ TypeOK
  /\ \A c \in Calls : WellFormed(call[c])

LEMMA InitRecords == Init => RecordsInv
  <1> SUFFICES ASSUME Init PROVE RecordsInv
    OBVIOUS
  <1>1. WellFormed(NewCall)
    BY DEF WellFormed, Progressed, Told, NewCall, CallRecord, Outcomes, Refusals, GateOf,
           Cancellations
  <1>2. TypeOK
    BY <1>1 DEF Init, TypeOK, WellFormed, Permissions, Undefined, Levels
  <1> QED BY <1>1, <1>2 DEF Init, RecordsInv

(* A step of one call is right if the record it becomes is well formed.     *)
LEMMA BecomesWell ==
  ASSUME RecordsInv, NEW c \in Calls, NEW k, WellFormed(k), Becomes(c, k)
  PROVE  RecordsInv'
  BY DEF RecordsInv, TypeOK, Becomes, WellFormed

(* Nothing an open call's cause is set to disturbs its record.              *)
LEMMA LatchedWell ==
  ASSUME NEW k, WellFormed(k), k.pc # "done", NEW cause \in {"agent", "withdrawal"}
  PROVE  WellFormed(Latched(k, cause))
  BY Codes DEF Latched, WellFormed, Progressed, Told, CallRecord, Cancellations

LEMMA MarkedWell ==
  ASSUME NEW k, WellFormed(k)
  PROVE  WellFormed([k EXCEPT !.waived = TRUE]) /\ WellFormed([k EXCEPT !.windowed = TRUE])
  BY DEF WellFormed, Progressed, Told, CallRecord

(* Composing the cancellation leaves an open call with an unentered handler. *)
LEMMA ComposedWell ==
  ASSUME RecordsInv, NEW c \in Calls, call[c].pc = "resolving"
  PROVE  LET k == [call[c] EXCEPT !.listed = FALSE, !.by = Composed(c),
                                  !.waived = ~NeedsConfirmation(c)]
         IN  Open(k) /\ k.pc \in Unsettled
  <1> DEFINE composed == [call[c] EXCEPT !.listed = FALSE, !.by = Composed(c),
                                         !.waived = ~NeedsConfirmation(c)]
  <1>1. /\ WellFormed(call[c])
        /\ Composed(c) \in {"agent", "withdrawal", "nobody"}
        /\ NeedsConfirmation(c) \in BOOLEAN
    BY DEF RecordsInv, Composed, NeedsConfirmation, TypeOK, Permissions
  <1>2. Open(composed) /\ composed.pc \in Unsettled
    <2>1. \A cause \in {"agent", "withdrawal", "nobody"} :
            /\ LET k == [call[c] EXCEPT !.listed = FALSE, !.by = cause, !.waived = TRUE]
               IN  Open(k) /\ k.pc \in Unsettled
            /\ LET k == [call[c] EXCEPT !.listed = FALSE, !.by = cause, !.waived = FALSE]
               IN  Open(k) /\ k.pc \in Unsettled
      BY <1>1, Codes DEF Open, WellFormed, Progressed, Told, CallRecord
    <2>2. CASE NeedsConfirmation(c)
      <3>1. (~NeedsConfirmation(c)) = FALSE
        BY <2>2
      <3> QED BY <1>1, <2>1, <3>1, Zenon
    <2>3. CASE ~NeedsConfirmation(c)
      <3>1. (~NeedsConfirmation(c)) = TRUE
        BY <2>3
      <3> QED BY <1>1, <2>1, <3>1, Zenon
    <2> QED BY <2>2, <2>3
  <1> QED BY <1>2

LEMMA ResolveWell ==
  ASSUME RecordsInv, NEW c \in Calls, Resolve(c)
  PROVE  RecordsInv'
  <1> DEFINE composed == [call[c] EXCEPT !.listed = FALSE, !.by = Composed(c),
                                         !.waived = ~NeedsConfirmation(c)]
             unlisted == [call[c] EXCEPT !.listed = FALSE]
  <1>1. /\ WellFormed(call[c]) /\ call[c].pc = "resolving"
        /\ "resolve" \in Gates
    BY DEF RecordsInv, Resolve, Gates
  <1>2. Open(composed) /\ composed.pc \in Unsettled
    BY <1>1, ComposedWell
  <1>3. Open(Passed(composed, "resolve")) /\ Passed(composed, "resolve").pc \in Unsettled
    <2> HIDE DEF composed
    <2> QED BY <1>1, <1>2, PassedKeeps
  <1>4. CASE \E hasSchema, hasResolver \in BOOLEAN :
               Becomes(c, Admit(c, Passed(composed, "resolve"), hasSchema, hasResolver))
    <2>1. PICK hasSchema, hasResolver \in BOOLEAN :
            Becomes(c, Admit(c, Passed(composed, "resolve"), hasSchema, hasResolver))
      BY <1>4
    <2> HIDE DEF composed
    <2>2. WellFormed(Admit(c, Passed(composed, "resolve"), hasSchema, hasResolver))
      BY <1>3, AdmitWell
    <2> QED BY <2>1, <2>2, BecomesWell
  <1>5. CASE Becomes(c, Refused(unlisted, "resolve", "unresolved"))
    <2>1. Open(unlisted) /\ ~unlisted.entered
      BY <1>1 DEF Open, WellFormed, Progressed, Told, CallRecord
    <2> HIDE DEF unlisted
    <2>2. WellFormed(Refused(unlisted, "resolve", "unresolved"))
      BY <1>1, <2>1, RefusedWell, Codes
    <2> QED BY <1>5, <2>2, BecomesWell
  <1> QED BY <1>4, <1>5 DEF Resolve

LEMMA ValidationWell ==
  ASSUME RecordsInv, NEW c \in Calls, ValidationAnswers(c)
  PROVE  RecordsInv'
  <1>1. /\ Open(call[c]) /\ call[c].pc \in Unsettled /\ ~call[c].entered
        /\ "validate" \in Gates
    BY DEF RecordsInv, ValidationAnswers, Open, WellFormed, Progressed, Gates
  <1>2. WellFormed(Refused(call[c], "validate", "argumentsInvalid"))
    BY <1>1, RefusedWell, Codes
  <1>3. Open(Passed(call[c], "validate")) /\ Passed(call[c], "validate").pc \in Unsettled
    BY <1>1, PassedKeeps
  <1>4. \A hasResolver \in BOOLEAN :
          WellFormed(AskOrEnter(c, Passed(call[c], "validate"), hasResolver))
    BY <1>3, AskOrEnterWell
  <1> QED BY <1>2, <1>4, BecomesWell DEF ValidationAnswers

LEMMA ConfirmationWell ==
  ASSUME RecordsInv, NEW c \in Calls, ConfirmationAnswers(c) \/ ConfirmationThrows(c)
  PROVE  RecordsInv'
  <1>1. Open(call[c]) /\ call[c].pc \in Unsettled
    BY DEF RecordsInv, ConfirmationAnswers, ConfirmationThrows, Open
  <1>2. \A approves \in BOOLEAN : WellFormed(Decide(c, call[c], approves))
    BY <1>1, DecideWell
  <1>3. WellFormed(NotConfirmed(call[c], "confirmationRefused"))
    BY <1>1, NotConfirmedWell, Codes
  <1> QED BY <1>2, <1>3, BecomesWell DEF ConfirmationAnswers, ConfirmationThrows

(* A handler that settled, before the verdict.                              *)
LEMMA SettledWell ==
  ASSUME NEW k, Open(k), k.pc = "running"
  PROVE  /\ Settled(k) \in CallRecord
         /\ Settled(k).outcome = "none" /\ Settled(k).pc = "running"
         /\ Settled(k).completed \in {"first", "late"}
         /\ Settled(k).entered = k.entered
  BY DEF Open, WellFormed, Settled, CallRecord

(* What a settled handler's call can become.                                *)
LEMMA VerdictWell ==
  ASSUME NEW k \in CallRecord, k.outcome = "none", k.completed \in {"first", "late"}
  PROVE  /\ WellFormed(Cancelled(k))
         /\ k.completed = "first" => WellFormed(Succeeded(k))
         /\ k.completed = "first" => WellFormed([k EXCEPT !.pc = "checking"])
         /\ \A code \in Refusals : (k.completed = "first" /\ GateOf[code] = "invoke") =>
              WellFormed(Refused(k, "invoke", code))
  <1>1. WellFormed(Cancelled(k))
    BY Codes DEF WellFormed, Progressed, Told, Cancelled, Answered, CallRecord, Outcomes,
                 Cancellations
  <1>2. k.completed = "first" => WellFormed(Succeeded(k))
    BY Codes DEF WellFormed, Progressed, Told, Succeeded, Passed, Answered, CallRecord,
                 Outcomes, Cancellations, Gates
  <1>3. k.completed = "first" => WellFormed([k EXCEPT !.pc = "checking"])
    BY Codes DEF WellFormed, Progressed, Told, CallRecord, Cancellations
  <1>4. ASSUME NEW code \in Refusals, k.completed = "first", GateOf[code] = "invoke"
        PROVE  WellFormed(Refused(k, "invoke", code))
    BY <1>4, Codes DEF WellFormed, Progressed, Told, Refused, Answered, CallRecord,
                       Outcomes, Cancellations, Gates
  <1> QED BY <1>1, <1>2, <1>3, <1>4

LEMMA HandlerWell ==
  ASSUME RecordsInv, NEW c \in Calls, HandlerReturns(c) \/ HandlerThrows(c)
  PROVE  RecordsInv'
  <1> DEFINE k == Settled(call[c])
  <1>1. /\ k \in CallRecord /\ k.outcome = "none" /\ k.completed \in {"first", "late"}
    BY SettledWell DEF RecordsInv, HandlerReturns, HandlerThrows, Open
  <1>2. CASE HandlerReturns(c)
    <2>1. \/ k.completed = "late" /\ Becomes(c, Cancelled(k))
          \/ k.completed # "late" /\ Becomes(c, Refused(k, "invoke", "resultNotSerializable"))
          \/ k.completed # "late" /\ Becomes(c, Succeeded(k))
          \/ k.completed # "late" /\ Becomes(c, [k EXCEPT !.pc = "checking"])
      BY <1>2 DEF HandlerReturns
    <2> HIDE DEF k
    <2> QED BY <1>1, <2>1, VerdictWell, Codes, BecomesWell
  <1>3. CASE HandlerThrows(c)
    <2>1. \/ k.completed = "late" /\ Becomes(c, Cancelled(k))
          \/ /\ k.completed # "late"
             /\ \E code \in {"domRefStale", "toolExecutionFailed"} :
                  Becomes(c, Refused(k, "invoke", code))
      BY <1>3 DEF HandlerThrows, Reportable
    <2> HIDE DEF k
    <2> QED BY <1>1, <2>1, VerdictWell, Codes, BecomesWell
  <1> QED BY <1>2, <1>3

LEMMA OutputWell ==
  ASSUME RecordsInv, NEW c \in Calls, OutputAnswers(c)
  PROVE  RecordsInv'
  <1>1. /\ call[c] \in CallRecord /\ call[c].outcome = "none"
        /\ call[c].completed = "first"
    BY DEF RecordsInv, OutputAnswers, WellFormed, Progressed
  <1> QED BY <1>1, VerdictWell, Codes, BecomesWell DEF OutputAnswers

LEMMA CancellationWell ==
  ASSUME RecordsInv, NEW c \in Calls, CancellationWins(c)
  PROVE  RecordsInv'
  <1>1. Open(call[c])
    BY DEF RecordsInv, CancellationWins, Open
  <1> QED BY <1>1, CancelledWell, BecomesWell DEF CancellationWins

LEMMA ArriveWell ==
  ASSUME RecordsInv, NEW c \in Calls, Arrive(c)
  PROVE  RecordsInv'
  <1> DEFINE k(b) == [call[c] EXCEPT !.pc = "resolving", !.listed = b]
  <1>1. WellFormed(k(TRUE)) /\ WellFormed(k(FALSE))
    <2>1. /\ call[c] \in CallRecord /\ call[c].outcome = "none"
          /\ ~call[c].entered /\ ~call[c].approved /\ call[c].completed = "no"
      BY DEF RecordsInv, Arrive, WellFormed, Progressed
    <2> QED BY <2>1, Codes DEF WellFormed, Progressed, Told, CallRecord, Cancellations
  <1>2. Becomes(c, k(phase # "gone"))
    BY DEF Arrive
  <1>3. CASE phase = "gone"
    <2>1. (phase # "gone") = FALSE
      BY <1>3
    <2> QED BY <1>1, <1>2, <2>1, BecomesWell
  <1>4. CASE phase # "gone"
    <2>1. (phase # "gone") = TRUE
      BY <1>4
    <2> QED BY <1>1, <1>2, <2>1, BecomesWell
  <1> QED BY <1>3, <1>4

LEMMA AgentCancelsWell ==
  ASSUME RecordsInv, NEW c \in Calls, AgentCancels(c)
  PROVE  RecordsInv'
  <1>1. WellFormed(Latched(call[c], "agent"))
    BY LatchedWell DEF RecordsInv, AgentCancels
  <1>2. aborted' \in SUBSET Calls
    BY DEF RecordsInv, TypeOK, AgentCancels
  <1>3. \A d \in Calls : call'[d] = call[d] \/ (d = c /\ call'[d] = Latched(call[c], "agent"))
    BY DEF RecordsInv, TypeOK, AgentCancels
  <1>4. \A d \in Calls : WellFormed(call'[d])
    BY <1>1, <1>3 DEF RecordsInv
  <1>5. DOMAIN call' = Calls /\ call' = [d \in Calls |-> call'[d]]
    BY DEF RecordsInv, TypeOK, AgentCancels
  <1> QED BY <1>2, <1>4, <1>5 DEF RecordsInv, TypeOK, AgentCancels, WellFormed, tool

(* The component and the operator touch only live calls' histories.         *)
LEMMA EnvironmentWell ==
  ASSUME RecordsInv, Environment
  PROVE  RecordsInv'
  <1>1. \A c \in Calls : Abandoned[c] = call[c] \/
          (call[c].pc # "done" /\ Abandoned[c] = Latched(call[c], "withdrawal"))
    BY DEF Abandoned, Live
  <1>2. \A c \in Calls : WellFormed(Abandoned[c])
    BY <1>1, LatchedWell DEF RecordsInv
  <1>3. /\ phase' \in {"gone", "registering", "offered"} /\ declared' \in BOOLEAN
        /\ offer' \in Permissions /\ granted' \in SUBSET Levels /\ aborted' \in SUBSET Calls
    <2>1. Undefined \in Permissions
      BY DEF Undefined, Permissions
    <2>2. CASE Register \/ Disown \/ SetCapabilities
      BY <2>2 DEF Register, Disown, SetCapabilities, RecordsInv, TypeOK, tool
    <2>3. CASE Replace \/ Withdraw
      BY <2>1, <2>3 DEF Replace, Withdraw, RecordsInv, TypeOK
    <2>4. CASE Own \/ Refresh
      BY <2>4 DEF Own, Refresh, Offered, RecordsInv, TypeOK
    <2> QED BY <2>2, <2>3, <2>4 DEF Environment
  <1>4. call' = [c \in Calls |-> call'[c]] /\ \A c \in Calls : WellFormed(call'[c])
    <2>1. CASE call' = call
      BY <2>1 DEF RecordsInv, TypeOK
    <2>2. CASE call' = Abandoned
      BY <2>2, <1>2 DEF Abandoned
    <2>3. CASE \E o \in Permissions : Offered(o)
      BY <2>3, MarkedWell DEF Offered, RecordsInv
    <2>4. CASE Replace
      BY <2>4, MarkedWell DEF Replace, RecordsInv
    <2> QED BY <2>1, <2>2, <2>3, <2>4
            DEF Environment, Register, Own, Refresh, Disown, Withdraw, SetCapabilities
  <1> QED BY <1>3, <1>4 DEF RecordsInv, TypeOK, WellFormed

LEMMA NextRecords == RecordsInv /\ [Next]_vars => RecordsInv'
  <1> SUFFICES ASSUME RecordsInv, [Next]_vars PROVE RecordsInv'
    OBVIOUS
  <1>1. ASSUME NEW c \in Calls, Step(c) PROVE RecordsInv'
    BY <1>1, ArriveWell, ResolveWell, ValidationWell, ConfirmationWell, HandlerWell,
       OutputWell, CancellationWell, AgentCancelsWell DEF Step
  <1>2. CASE Environment
    BY <1>2, EnvironmentWell
  <1>3. CASE UNCHANGED vars
    BY <1>3 DEF vars, RecordsInv, TypeOK
  <1> QED BY <1>1, <1>2, <1>3 DEF Next

(* Every reachable state is well typed and every call's record well formed. *)
THEOREM RecordsCorrect == Spec => []RecordsInv
  BY InitRecords, NextRecords, PTL DEF Spec

(* The state always has its type, and a call is done exactly when it has an *)
(* outcome.                                                                 *)
THEOREM CallsTyped == Spec => []TypeOK
  <1>1. RecordsInv => TypeOK
    BY DEF RecordsInv
  <1> QED BY <1>1, RecordsCorrect, PTL

(* A call refused by a gate, whatever code its handler could have thrown,   *)
(* never had its handler entered.                                           *)
THEOREM RefusedCallsNeverRan == Spec => []RefusalMeansNotRun
  <1>1. RecordsInv => RefusalMeansNotRun
    BY DEF RecordsInv, RefusalMeansNotRun, WellFormed, Told
  <1> QED BY <1>1, RecordsCorrect, PTL

(* Success is only ever told of a handler that settled before the call was  *)
(* cancelled.                                                               *)
THEOREM SuccessIsNotStale == Spec => []NoStaleSuccess
  <1>1. RecordsInv => NoStaleSuccess
    BY DEF RecordsInv, NoStaleSuccess, WellFormed, Told
  <1> QED BY <1>1, RecordsCorrect, PTL

(* A cancelled call's answer says whether its handler had settled.          *)
THEOREM CancellationsAreHonest == Spec => []CancelledAnswerIsHonest
  <1>1. RecordsInv => CancelledAnswerIsHonest
    BY DEF RecordsInv, CancelledAnswerIsHonest, WellFormed, Told
  <1> QED BY <1>1, RecordsCorrect, PTL

-----------------------------------------------------------------------------
(***************************************************************************)
(* Consent: why no call slips past a person, except through a replacement.  *)
(***************************************************************************)

Consented(k) == k.entered => (k.approved \/ k.waived \/ k.windowed)

(* A call that nobody has cancelled and that has seen its tool neither ask  *)
(* for nothing nor be replaced is for a tool that asks now.                 *)
Owed(c, k) == (k.by = "nobody" /\ ~k.waived /\ ~k.windowed) => NeedsConfirmation(c)

Consenting(c, k) ==
  /\ Consented(k)
  /\ k.pc \in {"validating", "confirming"} => Owed(c, k)

ConsentInv == \A c \in Calls : Consenting(c, call[c])

(* Entering keeps what is known of a person's consent.                      *)
LEMMA EnterKeeps ==
  ASSUME NEW k, Open(k), k.pc \in Unsettled
  PROVE  /\ Enter(k).pc \in {"done", "running"}
         /\ Enter(k).waived = k.waived /\ Enter(k).windowed = k.windowed
         /\ Enter(k).approved = k.approved
         /\ Enter(k).by = k.by /\ (Enter(k).entered => k.by = "nobody")
  BY DEF Enter, Open, WellFormed, Progressed, CallRecord, Cancelled, Answered

LEMMA RefusalKeeps ==
  ASSUME NEW k, Open(k), ~k.entered, NEW g, NEW code
  PROVE  /\ Refused(k, g, code).pc = "done" /\ ~Refused(k, g, code).entered
         /\ NotConfirmed(k, code).pc = "done" /\ ~NotConfirmed(k, code).entered
         /\ Cancelled(k).pc = "done" /\ ~Cancelled(k).entered
  BY DEF Open, WellFormed, CallRecord, NotConfirmed, Refused, Answered, Cancelled

LEMMA AskConsents ==
  ASSUME NEW c, NEW k, Open(k), k.pc \in Unsettled, Owed(c, k),
         NEW hasResolver \in BOOLEAN
  PROVE  LET r == AskOrEnter(c, k, hasResolver)
         IN  Consenting(c, r) /\ (r.entered => r.by = "nobody" /\ ~r.approved)
  <1>1. ~k.entered /\ ~k.approved
    BY DEF Open, WellFormed, Progressed
  <1>2. CASE ~NeedsConfirmation(c)
    <2> DEFINE p == Passed(k, "confirm")
    <2>1. /\ Open(p) /\ p.pc \in Unsettled /\ p.by = k.by /\ p.approved = k.approved
          /\ p.waived = k.waived /\ p.windowed = k.windowed
      BY PassedKeeps DEF Gates
    <2>2. AskOrEnter(c, k, hasResolver) = Enter(p)
      BY <1>2 DEF AskOrEnter
    <2> HIDE DEF p
    <2> QED BY <1>1, <1>2, <2>1, <2>2, EnterKeeps DEF Consenting, Consented, Owed
  <1>3. CASE NeedsConfirmation(c) /\ ~hasResolver
    BY <1>1, <1>3, RefusalKeeps DEF AskOrEnter, Consenting, Consented
  <1>4. CASE NeedsConfirmation(c) /\ hasResolver
    BY <1>1, <1>4 DEF AskOrEnter, Consenting, Consented, Owed, Open, WellFormed, CallRecord
  <1> QED BY <1>2, <1>3, <1>4

LEMMA AdmitConsents ==
  ASSUME NEW c, NEW k, Open(k), k.pc \in Unsettled, Owed(c, k),
         NEW hasSchema \in BOOLEAN, NEW hasResolver \in BOOLEAN
  PROVE  LET r == Admit(c, k, hasSchema, hasResolver)
         IN  Consenting(c, r) /\ (r.entered => r.by = "nobody" /\ ~r.approved)
  <1> DEFINE capable == Passed(k, "capability")
             offered == Passed(capable, "policy")
             valid   == Passed(offered, "validate")
             Same(p) == /\ Open(p) /\ p.pc \in Unsettled /\ p.by = k.by
                        /\ p.waived = k.waived /\ p.windowed = k.windowed
  <1>1. {"capability", "policy", "validate"} \subseteq Gates
    BY DEF Gates
  <1>2. Same(capable)
    BY <1>1, PassedKeeps
  <1>3. Same(offered)
    <2> HIDE DEF capable
    <2> QED BY <1>1, <1>2, PassedKeeps
  <1>4. Same(valid)
    <2> HIDE DEF offered
    <2> QED BY <1>1, <1>3, PassedKeeps
  <1>5. ~k.entered /\ ~capable.entered
    BY <1>2 DEF Open, WellFormed, Progressed
  <1>6. Consenting(c, Cancelled(k)) /\ ~Cancelled(k).entered
    BY <1>5, RefusalKeeps DEF Consenting, Consented
  <1>7. LET r == Refused(k, "capability", "capabilityDenied")
        IN  Consenting(c, r) /\ ~r.entered
    BY <1>5, RefusalKeeps DEF Consenting, Consented
  <1>8. LET r == Refused(capable, "policy", "toolUnavailable")
        IN  Consenting(c, r) /\ ~r.entered
    <2> HIDE DEF capable
    <2> QED BY <1>2, <1>5, RefusalKeeps DEF Consenting, Consented
  <1>9. LET r == [offered EXCEPT !.pc = "validating"]
        IN  Consenting(c, r) /\ ~r.entered
    <2> HIDE DEF offered
    <2> QED BY <1>3 DEF Consenting, Consented, Owed, Open, WellFormed, Progressed, CallRecord
  <1>10. LET r == AskOrEnter(c, valid, hasResolver)
         IN  Consenting(c, r) /\ (r.entered => r.by = "nobody" /\ ~r.approved)
    <2>1. Owed(c, valid)
      <3> HIDE DEF valid
      <3> QED BY <1>4 DEF Owed
    <2> HIDE DEF valid
    <2> QED BY <1>4, <2>1, AskConsents
  <1> HIDE DEF capable, offered, valid
  <1>11. \/ Admit(c, k, hasSchema, hasResolver) = Cancelled(k)
         \/ Admit(c, k, hasSchema, hasResolver) = Refused(k, "capability", "capabilityDenied")
         \/ Admit(c, k, hasSchema, hasResolver) = Refused(capable, "policy", "toolUnavailable")
         \/ Admit(c, k, hasSchema, hasResolver) = [offered EXCEPT !.pc = "validating"]
         \/ Admit(c, k, hasSchema, hasResolver) = AskOrEnter(c, valid, hasResolver)
    BY DEF Admit, capable, offered, valid
  <1> QED BY <1>6, <1>7, <1>8, <1>9, <1>10, <1>11

LEMMA DecideConsents ==
  ASSUME NEW c, NEW k, Open(k), k.pc \in Unsettled, NEW approves \in BOOLEAN
  PROVE  LET r == Decide(c, k, approves)
         IN  /\ Consenting(c, r)
             /\ r.entered => r.by = "nobody" /\ Admitted(c) /\ Available(c)
  <1> DEFINE confirmed == Passed(k, "confirm")
  <1>1. /\ Open(confirmed) /\ confirmed.pc \in Unsettled /\ confirmed.by = k.by
        /\ ~k.entered
    BY PassedKeeps DEF Gates, Open, WellFormed, Progressed
  <1>2. LET r == [Enter(confirmed) EXCEPT !.approved = TRUE]
        IN  r.pc \in {"done", "running"} /\ r.approved /\ (r.entered => r.by = "nobody")
    <2>1. Enter(confirmed) \in CallRecord
      <3> HIDE DEF confirmed
      <3> QED BY <1>1, EnterWell DEF WellFormed
    <2>2. /\ Enter(confirmed).pc \in {"done", "running"}
          /\ Enter(confirmed).entered => Enter(confirmed).by = "nobody"
      <3> HIDE DEF confirmed
      <3> QED BY <1>1, EnterKeeps
    <2> DEFINE r == Enter(confirmed)
    <2> HIDE DEF r
    <2>3. /\ [r EXCEPT !.approved = TRUE].pc = r.pc /\ [r EXCEPT !.approved = TRUE].approved
          /\ [r EXCEPT !.approved = TRUE].entered = r.entered
          /\ [r EXCEPT !.approved = TRUE].by = r.by
      BY <2>1 DEF CallRecord, r
    <2> QED BY <2>2, <2>3 DEF r
  <1>3. /\ Consenting(c, Cancelled(k)) /\ ~Cancelled(k).entered
        /\ \A code : Consenting(c, NotConfirmed(k, code)) /\ ~NotConfirmed(k, code).entered
    BY <1>1, RefusalKeeps DEF Consenting, Consented
  <1>4. CASE k.by # "nobody" \/ ~Admitted(c) \/ ~Available(c) \/ ~approves
    BY <1>3, <1>4 DEF Decide
  <1>5. CASE k.by = "nobody" /\ Admitted(c) /\ Available(c) /\ approves
    <2>1. Decide(c, k, approves) = [Enter(confirmed) EXCEPT !.approved = TRUE]
      BY <1>5 DEF Decide
    <2> HIDE DEF confirmed
    <2> QED BY <1>2, <1>5, <2>1 DEF Consenting, Consented
  <1> QED BY <1>4, <1>5

(* What c's step does to c, as EnteredUnderLiveAuthority asks.              *)
Entry(c) ==
  (~call[c].entered /\ call'[c].entered) =>
    /\ call'[c].by = "nobody"
    /\ call'[c].approved => (Admitted(c) /\ Available(c))

LEMMA BecomesConsents ==
  ASSUME RecordsInv, ConsentInv, NEW c \in Calls, NEW k, Becomes(c, k), Consenting(c, k)
  PROVE  /\ ConsentInv'
         /\ call'[c] = k
         /\ \A d \in Calls : d # c => call'[d] = call[d]
  <1>1. call'[c] = k /\ \A d \in Calls : d # c => call'[d] = call[d]
    BY DEF Becomes, RecordsInv, TypeOK
  <1>2. offer' = offer
    BY DEF Becomes
  <1>3. \A d \in Calls : Consenting(d, call'[d])
    BY <1>1 DEF ConsentInv
  <1>4. \A d \in Calls : Consenting(d, call[d])'
    BY <1>2, <1>3 DEF Consenting, Consented, Owed, NeedsConfirmation
  <1> QED BY <1>1, <1>4 DEF ConsentInv

(* After the handler, consent is history.                                   *)
Keeps(c, k, r) == Consenting(c, r) /\ r.entered = k.entered

LEMMA VerdictConsents ==
  ASSUME NEW c, NEW k \in CallRecord, Consented(k)
  PROVE  /\ Keeps(c, k, Cancelled(k))
         /\ Keeps(c, k, Succeeded(k))
         /\ Keeps(c, k, [k EXCEPT !.pc = "checking"])
         /\ \A code \in Refusals : Keeps(c, k, Refused(k, "invoke", code))
  BY DEF CallRecord, Keeps, Consenting, Consented, Cancelled, Answered, Succeeded, Passed,
         Refused

LEMMA SettledConsents ==
  ASSUME NEW k \in CallRecord, Consented(k)
  PROVE  Consented(Settled(k))
  BY DEF CallRecord, Consented, Settled

(* What a call becomes once its handler was entered.                        *)
Concludes(c, k) ==
  \/ Becomes(c, Cancelled(k))
  \/ Becomes(c, Succeeded(k))
  \/ Becomes(c, [k EXCEPT !.pc = "checking"])
  \/ \E code \in Refusals : Becomes(c, Refused(k, "invoke", code))

LEMMA ConclusionConsents ==
  ASSUME RecordsInv, ConsentInv, NEW c \in Calls,
         NEW k \in CallRecord, Consented(k), Concludes(c, k)
  PROVE  /\ ConsentInv' /\ call'[c].entered = k.entered
         /\ \A d \in Calls : d # c => call'[d] = call[d]
  <1>1. ASSUME NEW r, Becomes(c, r), Keeps(c, k, r)
        PROVE  /\ ConsentInv' /\ call'[c].entered = k.entered
               /\ \A d \in Calls : d # c => call'[d] = call[d]
    BY <1>1, BecomesConsents DEF Keeps
  <1>2. CASE Becomes(c, Cancelled(k))
    BY <1>1, <1>2, VerdictConsents
  <1>3. CASE Becomes(c, Succeeded(k))
    BY <1>1, <1>3, VerdictConsents
  <1>4. CASE Becomes(c, [k EXCEPT !.pc = "checking"])
    <2> DEFINE r == [k EXCEPT !.pc = "checking"]
    <2>1. Keeps(c, k, r)
      BY VerdictConsents
    <2>2. Becomes(c, r)
      BY <1>4
    <2> HIDE DEF r
    <2> QED BY <1>1, <2>1, <2>2
  <1>5. CASE \E code \in Refusals : Becomes(c, Refused(k, "invoke", code))
    BY <1>1, <1>5, VerdictConsents
  <1> QED BY <1>2, <1>3, <1>4, <1>5 DEF Concludes

LEMMA HandlerConsents ==
  ASSUME RecordsInv, ConsentInv, NEW c \in Calls,
         \/ HandlerReturns(c) \/ HandlerThrows(c) \/ OutputAnswers(c) \/ CancellationWins(c)
  PROVE  /\ ConsentInv' /\ call'[c].entered = call[c].entered
         /\ \A d \in Calls : d # c => call'[d] = call[d]
  <1>1. call[c] \in CallRecord /\ Consented(call[c])
    BY DEF RecordsInv, WellFormed, ConsentInv, Consenting
  <1>2. CASE HandlerReturns(c) \/ HandlerThrows(c)
    <2> DEFINE k == Settled(call[c])
    <2>1. Concludes(c, k)
      BY <1>2, Codes DEF HandlerReturns, HandlerThrows, Reportable, Concludes
    <2>2. k \in CallRecord /\ Consented(k) /\ k.entered = call[c].entered
      <3>1. Open(call[c]) /\ call[c].pc = "running"
        BY <1>2 DEF HandlerReturns, HandlerThrows, RecordsInv, Open
      <3> QED BY <1>1, <3>1, SettledWell, SettledConsents
    <2> HIDE DEF k
    <2> QED BY <2>1, <2>2, ConclusionConsents
  <1>3. CASE OutputAnswers(c) \/ CancellationWins(c)
    <2>1. Concludes(c, call[c])
      BY <1>3, Codes DEF OutputAnswers, CancellationWins, Concludes
    <2> QED BY <1>1, <2>1, ConclusionConsents
  <1> QED BY <1>2, <1>3

LEMMA ResolveConsents ==
  ASSUME RecordsInv, ConsentInv, NEW c \in Calls, Resolve(c)
  PROVE  /\ ConsentInv' /\ Entry(c)
         /\ \A d \in Calls : d # c => call'[d] = call[d]
  <1> DEFINE composed == [call[c] EXCEPT !.listed = FALSE, !.by = Composed(c),
                                         !.waived = ~NeedsConfirmation(c)]
             unlisted == [call[c] EXCEPT !.listed = FALSE]
             admitted == Passed(composed, "resolve")
  <1>1. /\ WellFormed(call[c]) /\ call[c].pc = "resolving" /\ ~call[c].entered
        /\ "resolve" \in Gates
    BY DEF RecordsInv, Resolve, WellFormed, Progressed, Gates
  <1>2. Open(composed) /\ composed.pc \in Unsettled
    BY <1>1, ComposedWell
  <1>3. Owed(c, composed)
    BY <1>1 DEF Owed, WellFormed, CallRecord
  <1>4. Open(admitted) /\ admitted.pc \in Unsettled /\ Owed(c, admitted)
    <2> HIDE DEF composed
    <2> QED BY <1>1, <1>2, <1>3, PassedKeeps DEF Owed
  <1>5. CASE \E hasSchema, hasResolver \in BOOLEAN :
               Becomes(c, Admit(c, admitted, hasSchema, hasResolver))
    <2>1. PICK hasSchema, hasResolver \in BOOLEAN :
            Becomes(c, Admit(c, admitted, hasSchema, hasResolver))
      BY <1>5
    <2> HIDE DEF admitted
    <2> QED BY <1>4, <2>1, AdmitConsents, BecomesConsents DEF Entry
  <1>6. CASE Becomes(c, Refused(unlisted, "resolve", "unresolved"))
    <2>1. Open(unlisted) /\ ~unlisted.entered
      BY <1>1 DEF Open, WellFormed, Progressed, Told, CallRecord
    <2> HIDE DEF unlisted
    <2> QED BY <1>6, <2>1, RefusalKeeps, BecomesConsents DEF Consenting, Consented, Entry
  <1> QED BY <1>5, <1>6 DEF Resolve

LEMMA GateConsents ==
  ASSUME RecordsInv, ConsentInv, NEW c \in Calls,
         ValidationAnswers(c) \/ ConfirmationAnswers(c) \/ ConfirmationThrows(c)
  PROVE  /\ ConsentInv' /\ Entry(c)
         /\ \A d \in Calls : d # c => call'[d] = call[d]
  <1>1. /\ Open(call[c]) /\ call[c].pc \in {"validating", "confirming"} /\ ~call[c].entered
        /\ Owed(c, call[c])
        /\ "validate" \in Gates
    BY DEF RecordsInv, ConsentInv, Consenting, Open, WellFormed, Progressed, Gates,
           ValidationAnswers, ConfirmationAnswers, ConfirmationThrows
  <1>2. CASE ValidationAnswers(c)
    <2> DEFINE valid == Passed(call[c], "validate")
    <2>1. Open(valid) /\ valid.pc \in Unsettled /\ Owed(c, valid)
      BY <1>1, PassedKeeps DEF Owed
    <2>2. CASE Becomes(c, Refused(call[c], "validate", "argumentsInvalid"))
      BY <1>1, <2>2, RefusalKeeps, BecomesConsents DEF Consenting, Consented, Entry
    <2>3. CASE \E hasResolver \in BOOLEAN : Becomes(c, AskOrEnter(c, valid, hasResolver))
      <3> HIDE DEF valid
      <3> QED BY <2>1, <2>3, AskConsents, BecomesConsents DEF Entry
    <2> QED BY <1>2, <2>2, <2>3 DEF ValidationAnswers
  <1>3. CASE ConfirmationAnswers(c)
    BY <1>1, <1>3, DecideConsents, BecomesConsents DEF ConfirmationAnswers, Entry
  <1>4. CASE ConfirmationThrows(c)
    BY <1>1, <1>4, RefusalKeeps, BecomesConsents
    DEF ConfirmationThrows, Consenting, Consented, Entry
  <1> QED BY <1>2, <1>3, <1>4

(* Latching a cause ends what a call is owed.                               *)
LEMMA LatchedConsents ==
  ASSUME NEW c, NEW k \in CallRecord, Consenting(c, k), NEW cause \in {"agent", "withdrawal"}
  PROVE  /\ Keeps(c, k, Latched(k, cause))
         /\ Latched(k, cause).by # "nobody"
  BY DEF Keeps, Latched, Consenting, Consented, Owed, CallRecord

LEMMA ArriveConsents ==
  ASSUME RecordsInv, ConsentInv, NEW c \in Calls, Arrive(c) \/ AgentCancels(c)
  PROVE  /\ ConsentInv'
         /\ \A d \in Calls : call'[d].entered = call[d].entered
  <1>1. \A d \in Calls : call[d] \in CallRecord /\ Consenting(d, call[d])
    BY DEF RecordsInv, WellFormed, ConsentInv
  <1>2. \A d \in Calls : Keeps(d, call[d], call'[d])
    <2>1. CASE Arrive(c)
      <3> DEFINE k == [call[c] EXCEPT !.pc = "resolving", !.listed = (phase # "gone")]
      <3>1. Keeps(c, call[c], k)
        BY <1>1 DEF Keeps, Consenting, Consented, CallRecord
      <3>2. call' = [call EXCEPT ![c] = k]
        BY <2>1 DEF Arrive, Becomes
      <3> HIDE DEF k
      <3> QED BY <1>1, <3>1, <3>2 DEF Keeps, RecordsInv, TypeOK
    <2>2. CASE AgentCancels(c)
      <3>1. \A d \in Calls : call'[d] = call[d] \/
              (d = c /\ call'[d] = Latched(call[c], "agent"))
        BY <2>2 DEF RecordsInv, TypeOK, AgentCancels
      <3> QED BY <1>1, <3>1, LatchedConsents DEF Keeps
    <2> QED BY <2>1, <2>2
  <1>3. offer' = offer
    BY DEF Arrive, Becomes, AgentCancels, tool
  <1>4. \A d \in Calls : Consenting(d, call[d])'
    BY <1>2, <1>3 DEF Keeps, Consenting, Consented, Owed, NeedsConfirmation
  <1> QED BY <1>2, <1>4 DEF ConsentInv, Keeps

(* The component's edits: a call is still owed a confirmation after them    *)
(* only if its tool still asks for one.                                     *)
LEMMA EnvironmentConsents ==
  ASSUME RecordsInv, ConsentInv, Environment
  PROVE  /\ ConsentInv'
         /\ \A d \in Calls : call'[d].entered = call[d].entered
  <1>1. \A d \in Calls : /\ call[d] \in CallRecord /\ Consenting(d, call[d])
                         /\ (call[d].pc \in {"validating", "confirming"} => Live(d))
    BY DEF RecordsInv, WellFormed, ConsentInv, Live
  <1>2. CASE Register \/ SetCapabilities
    BY <1>2 DEF Register, SetCapabilities, tool, ConsentInv, Consenting, Consented, Owed,
                NeedsConfirmation
  <1>3. CASE Disown \/ Withdraw
    <2>1. \A d \in Calls : call'[d] = IF Live(d) /\ d \notin BuiltIns
                                      THEN Latched(call[d], "withdrawal") ELSE call[d]
      BY <1>3 DEF Disown, Withdraw, Abandoned
    <2>2. ASSUME NEW d \in Calls
          PROVE  Consenting(d, call[d])' /\ call'[d].entered = call[d].entered
      <3>1. CASE Live(d) /\ d \notin BuiltIns
        <4>1. Keeps(d, call[d], call'[d]) /\ call'[d].by # "nobody"
          BY <1>1, <2>1, <3>1, LatchedConsents
        <4> QED BY <4>1 DEF Keeps, Consenting, Consented, Owed
      <3>2. CASE d \in BuiltIns \/ ~Live(d)
        <4>1. call'[d] = call[d]
          BY <2>1, <3>2
        <4> QED BY <1>1, <3>2, <4>1 DEF Consenting, Consented, Owed, NeedsConfirmation, Live
      <3> QED BY <3>1, <3>2
    <2> QED BY <2>2 DEF ConsentInv
  <1>4. CASE Own \/ Refresh
    <2>1. PICK o \in Permissions : Offered(o)
      BY <1>4 DEF Own, Refresh
    <2>2. ASSUME NEW d \in Calls
          PROVE  Consenting(d, call[d])' /\ call'[d].entered = call[d].entered
      <3>1. CASE Live(d) /\ d \notin BuiltIns /\ ~o.confirms
        <4>1. call'[d] = [call[d] EXCEPT !.waived = TRUE]
          BY <2>1, <3>1 DEF Offered
        <4> QED BY <1>1, <4>1 DEF Consenting, Consented, Owed, CallRecord
      <3>2. CASE d \in BuiltIns \/ ~Live(d) \/ o.confirms
        <4>1. call'[d] = call[d] /\ offer' = o
          BY <2>1, <3>2 DEF Offered
        <4> QED BY <1>1, <3>2, <4>1 DEF Consenting, Consented, Owed, NeedsConfirmation, Live
      <3> QED BY <3>1, <3>2
    <2> QED BY <2>2 DEF ConsentInv
  <1>5. CASE Replace
    <2>2. ASSUME NEW d \in Calls
          PROVE  Consenting(d, call[d])' /\ call'[d].entered = call[d].entered
      <3>1. CASE Live(d) /\ d \notin BuiltIns
        <4>1. call'[d] = [call[d] EXCEPT !.windowed = TRUE]
          BY <1>5, <3>1 DEF Replace
        <4> QED BY <1>1, <4>1 DEF Consenting, Consented, Owed, CallRecord
      <3>2. CASE d \in BuiltIns \/ ~Live(d)
        <4>1. call'[d] = call[d]
          BY <1>5, <3>2 DEF Replace
        <4> QED BY <1>1, <3>2, <4>1 DEF Consenting, Consented, Owed, NeedsConfirmation, Live
      <3> QED BY <3>1, <3>2
    <2> QED BY <2>2 DEF ConsentInv
  <1> QED BY <1>2, <1>3, <1>4, <1>5 DEF Environment

LEMMA NextConsents ==
  ASSUME RecordsInv, ConsentInv, [Next]_vars
  PROVE  ConsentInv' /\ \A c \in Calls : Entry(c)
  <1>1. ASSUME NEW c \in Calls, Step(c)
        PROVE  ConsentInv' /\ \A d \in Calls : Entry(d)
    <2>1. CASE Arrive(c) \/ AgentCancels(c)
      BY <2>1, ArriveConsents DEF Entry
    <2>2. CASE Resolve(c)
      BY <2>2, ResolveConsents DEF Entry
    <2>3. CASE ValidationAnswers(c) \/ ConfirmationAnswers(c) \/ ConfirmationThrows(c)
      BY <2>3, GateConsents DEF Entry
    <2>4. CASE \/ HandlerReturns(c) \/ HandlerThrows(c) \/ OutputAnswers(c)
               \/ CancellationWins(c)
      BY <2>4, HandlerConsents DEF Entry
    <2> QED BY <1>1, <2>1, <2>2, <2>3, <2>4 DEF Step
  <1>2. CASE Environment
    BY <1>2, EnvironmentConsents DEF Entry
  <1>3. CASE UNCHANGED vars
    BY <1>3 DEF vars, ConsentInv, Consenting, Consented, Owed, NeedsConfirmation, Entry
  <1> QED BY <1>1, <1>2, <1>3 DEF Next

(* No call is entered unapproved unless its tool, at some point of the      *)
(* call, asked for nothing or was being replaced.                           *)
THEOREM NobodyIsBypassed == Spec => []ApprovedUnlessWindow
  <1>1. Init => ConsentInv
    BY DEF Init, ConsentInv, Consenting, Consented, NewCall
  <1>2. RecordsInv /\ ConsentInv /\ [Next]_vars => ConsentInv'
    BY NextConsents
  <1>3. ConsentInv => ApprovedUnlessWindow
    BY DEF ConsentInv, Consenting, Consented, ApprovedUnlessWindow
  <1> QED BY <1>1, <1>2, <1>3, RecordsCorrect, PTL DEF Spec

(* A handler is entered only for a call nobody has cancelled, and after an  *)
(* approval only under the authority in force at that moment.               *)
THEOREM EntryIsAuthorised == Spec => EnteredUnderLiveAuthority
  <1>1. Init => ConsentInv
    BY DEF Init, ConsentInv, Consenting, Consented, NewCall
  <1>2. RecordsInv /\ ConsentInv /\ [Next]_vars => ConsentInv'
    BY NextConsents
  <1>3. RecordsInv /\ ConsentInv /\ [Next]_vars =>
          [\A c \in Calls :
             (~call[c].entered /\ call'[c].entered) =>
               /\ call'[c].by = "nobody"
               /\ call'[c].approved => (Admitted(c) /\ Available(c))]_vars
    BY NextConsents DEF Entry
  <1> QED BY <1>1, <1>2, <1>3, RecordsCorrect, PTL DEF Spec, EnteredUnderLiveAuthority

-----------------------------------------------------------------------------
(***************************************************************************)
(* The story of a call: what its gates have recorded says where it is, and   *)
(* when it is over agrees with what it answered.                            *)
(***************************************************************************)

(* Exactly the gates in S have passed, and none has refused.                *)
Reached(k, S) == \A g \in Gates : k.gates[g] = IF g \in S THEN "passed" ELSE "none"

Blaming(k, g) == RefusedGates(k) = {g} /\ PassedGates(k) = Before(g)

Underway(k) ==
  /\ k.pc \in {"idle", "resolving"} => k.by = "nobody" /\ Reached(k, Before("resolve"))
  /\ k.pc = "validating" => Reached(k, Before("validate"))
  /\ k.pc = "confirming" => Reached(k, Before("confirm"))
  /\ k.pc \in {"running", "checking"} => Reached(k, Before("invoke"))

Concluded(k) ==
  /\ (k.outcome \in Refusals /\ k.by = "nobody") =>
       \E g \in BlamedGates(k.outcome) : Blaming(k, g)
  /\ k.outcome = "success" => Reached(k, Gates)
  /\ k.outcome \in Cancellations => RefusedGates(k) = {}
  /\ k.outcome = "callAbandoned" => k.by = "withdrawal"
  /\ k.outcome = "callCancelled" => k.by = "agent"

Story(k) == Underway(k) /\ Concluded(k)

(* What a call under way becomes keeps the cause it had.                    *)
Follows(k, r) == Story(r) /\ r.by = k.by

(* The chain of gates, one after the other.                                 *)
LEMMA Chain ==
  /\ Before("resolve") = {}
  /\ Before("capability") = Before("resolve") \cup {"resolve"}
  /\ Before("policy") = Before("capability") \cup {"capability"}
  /\ Before("validate") = Before("policy") \cup {"policy"}
  /\ Before("confirm") = Before("validate") \cup {"validate"}
  /\ Before("invoke") = Before("confirm") \cup {"confirm"}
  /\ Gates = Before("invoke") \cup {"invoke"}
  /\ \A g \in Gates : g \notin Before(g) /\ Before(g) \subseteq Gates
<1>1. /\ Before("resolve") = {}
      /\ Before("capability") = {"resolve"}
      /\ Before("policy") = {"resolve", "capability"}
      /\ Before("validate") = {"resolve", "capability", "policy"}
      /\ Before("confirm") = {"resolve", "capability", "policy", "validate"}
      /\ Before("invoke") = {"resolve", "capability", "policy", "validate", "confirm"}
  BY DEF Before
<1> QED BY <1>1 DEF Gates

(* A gate that passes extends the story, one that refuses ends it.          *)
LEMMA PassedReaches ==
  ASSUME NEW k, Open(k), NEW g \in Gates, Reached(k, Before(g))
  PROVE  Reached(Passed(k, g), Before(g) \cup {g})
<1>1. \A h \in Gates : Passed(k, g).gates[h] = IF h = g THEN "passed" ELSE k.gates[h]
  BY DEF Open, WellFormed, CallRecord, Passed
<1> QED BY <1>1, Chain DEF Reached

LEMMA RefusedBlames ==
  ASSUME NEW k, Open(k), NEW g \in Gates, Reached(k, Before(g)), NEW code
  PROVE  Blaming(Refused(k, g, code), g)
<1>1. \A h \in Gates : Refused(k, g, code).gates[h] = IF h = g THEN "refused" ELSE k.gates[h]
  BY DEF Open, WellFormed, CallRecord, Refused, Answered
<1>2. RefusedGates(Refused(k, g, code)) = {g}
  BY <1>1 DEF Reached, RefusedGates
<1>3. PassedGates(Refused(k, g, code)) = Before(g)
  BY <1>1, Chain DEF Reached, PassedGates
<1> QED BY <1>2, <1>3 DEF Blaming

LEMMA RefusedFollows ==
  ASSUME NEW k, Open(k), NEW code \in Refusals, NEW g \in BlamedGates(code), g \in Gates,
         Reached(k, Before(g))
  PROVE  Follows(k, Refused(k, g, code))
<1> DEFINE r == Refused(k, g, code)
<1>1. r.pc = "done" /\ r.outcome = code /\ r.by = k.by
  BY DEF Open, WellFormed, CallRecord, Refused, Answered
<1>2. Blaming(r, g)
  BY RefusedBlames
<1> HIDE DEF r
<1>3. Underway(r)
  BY <1>1 DEF Underway
<1>4. code # "success" /\ code \notin Cancellations
  BY Codes DEF Cancellations
<1>5. Concluded(r)
  BY <1>1, <1>2, <1>4 DEF Concluded, Cancellations
<1> QED BY <1>1, <1>3, <1>5 DEF Follows, Story, r

(* An answer that records nothing is told only of a cancelled call.         *)
LEMMA OvertakenFollows ==
  ASSUME NEW k, Open(k), NEW code \in Refusals, k.by # "nobody"
  PROVE  Follows(k, Answered(k, code))
<1>1. /\ Answered(k, code).pc = "done" /\ Answered(k, code).outcome = code
      /\ Answered(k, code).by = k.by
  BY DEF Open, WellFormed, CallRecord, Answered
<1>2. code # "success" /\ code \notin Cancellations
  BY Codes DEF Cancellations
<1> QED BY <1>1, <1>2 DEF Follows, Story, Underway, Concluded, Cancellations

LEMMA CancelledFollows ==
  ASSUME NEW k \in CallRecord, k.by # "nobody", NEW S, Reached(k, S)
  PROVE  Follows(k, Cancelled(k))
<1> DEFINE r == Cancelled(k)
<1>1. /\ r.pc = "done" /\ r.by = k.by /\ r.gates = k.gates
      /\ r.outcome = IF k.by = "withdrawal" THEN "callAbandoned" ELSE "callCancelled"
  BY DEF CallRecord, Cancelled, Answered
<1> HIDE DEF r
<1>2. k.by \in {"agent", "withdrawal"}
  BY DEF CallRecord
<1>3. r.outcome \notin Refusals /\ r.outcome # "success"
  BY <1>1, Codes
<1>4. RefusedGates(r) = {}
  BY <1>1 DEF Reached, RefusedGates
<1>5. Underway(r) /\ Concluded(r)
  BY <1>1, <1>2, <1>3, <1>4 DEF Underway, Concluded
<1> QED BY <1>1, <1>5 DEF Follows, Story, r

LEMMA EnterFollows ==
  ASSUME NEW k, Open(k), Reached(k, Before("invoke"))
  PROVE  Follows(k, Enter(k))
<1>1. CASE k.by # "nobody"
  BY <1>1, CancelledFollows DEF Enter, Open, WellFormed
<1>2. CASE k.by = "nobody"
  <2> DEFINE r == [k EXCEPT !.pc = "running", !.entered = TRUE]
  <2>1. r.pc = "running" /\ r.by = k.by /\ r.gates = k.gates /\ r.outcome = "none"
    BY DEF Open, WellFormed, CallRecord
  <2>2. Enter(k) = r
    BY <1>2 DEF Enter
  <2> HIDE DEF r
  <2>3. "none" \notin Refusals
    BY Codes
  <2> QED BY <2>1, <2>2, <2>3 DEF Follows, Story, Underway, Concluded, Reached, Cancellations
<1> QED BY <1>1, <1>2

LEMMA NotConfirmedFollows ==
  ASSUME NEW k, Open(k), Reached(k, Before("confirm")), NEW code \in Refusals,
         "confirm" \in BlamedGates(code)
  PROVE  Follows(k, NotConfirmed(k, code))
<1>1. "confirm" \in Gates
  BY DEF Gates
<1> QED BY <1>1, RefusedFollows, OvertakenFollows DEF NotConfirmed

(* Waiting at p with everything before it passed.                           *)
LEMMA AwaitFollows ==
  ASSUME NEW k, Open(k),
         NEW p \in {"validating", "confirming", "checking"},
         Reached(k, Before(CASE p = "validating" -> "validate"
                             [] p = "confirming" -> "confirm" [] OTHER -> "invoke"))
  PROVE  Follows(k, [k EXCEPT !.pc = p])
<1> DEFINE r == [k EXCEPT !.pc = p]
<1>1. r.pc = p /\ r.by = k.by /\ r.gates = k.gates /\ r.outcome = "none"
  BY DEF Open, WellFormed, CallRecord
<1>2. "none" \notin Refusals
  BY Codes
<1>3. /\ p = "validating" => Reached(k, Before("validate"))
      /\ p = "confirming" => Reached(k, Before("confirm"))
      /\ p = "checking" => Reached(k, Before("invoke"))
  OBVIOUS
<1> HIDE DEF r
<1>4. Underway(r)
  BY <1>1, <1>3 DEF Underway, Reached
<1>5. Concluded(r)
  BY <1>1, <1>2 DEF Concluded, Cancellations
<1> QED BY <1>1, <1>4, <1>5 DEF Follows, Story, r

LEMMA Blames ==
  /\ "capability" \in BlamedGates("capabilityDenied") /\ "confirm" \in BlamedGates("capabilityDenied")
  /\ "policy" \in BlamedGates("toolUnavailable") /\ "confirm" \in BlamedGates("toolUnavailable")
  /\ "validate" \in BlamedGates("argumentsInvalid") /\ "resolve" \in BlamedGates("unresolved")
  /\ "confirm" \in BlamedGates("confirmationUnavailable")
  /\ "confirm" \in BlamedGates("confirmationRefused")
  /\ \A code \in Refusals : GateOf[code] = "invoke" => "invoke" \in BlamedGates(code)
  BY DEF BlamedGates, GateOf

LEMMA AskFollows ==
  ASSUME NEW c, NEW k, Open(k), Reached(k, Before("confirm")), NEW hasResolver \in BOOLEAN
  PROVE  Follows(k, AskOrEnter(c, k, hasResolver))
<1> DEFINE confirmed == Passed(k, "confirm")
<1>1. "confirm" \in Gates
  BY DEF Gates
<1>2. Open(confirmed) /\ confirmed.by = k.by /\ Reached(confirmed, Before("invoke"))
  BY <1>1, PassedKeeps, PassedReaches, Chain
<1>3. Follows(k, Enter(confirmed))
  <2> HIDE DEF confirmed
  <2> QED BY <1>2, EnterFollows DEF Follows
<1>4. Follows(k, NotConfirmed(k, "confirmationUnavailable"))
  BY NotConfirmedFollows, Blames, Codes
<1>5. Follows(k, [k EXCEPT !.pc = "confirming"])
  BY AwaitFollows
<1> QED BY <1>3, <1>4, <1>5 DEF AskOrEnter

LEMMA AdmitFollows ==
  ASSUME NEW c, NEW k, Open(k), Reached(k, Before("capability")),
         NEW hasSchema \in BOOLEAN, NEW hasResolver \in BOOLEAN
  PROVE  Follows(k, Admit(c, k, hasSchema, hasResolver))
<1> DEFINE capable == Passed(k, "capability")
           offered == Passed(capable, "policy")
           valid   == Passed(offered, "validate")
<1>1. {"capability", "policy", "validate"} \subseteq Gates
  BY DEF Gates
<1>2. Open(capable) /\ capable.by = k.by /\ Reached(capable, Before("policy"))
  BY <1>1, PassedKeeps, PassedReaches, Chain
<1>3. Open(offered) /\ offered.by = k.by /\ Reached(offered, Before("validate"))
  <2> HIDE DEF capable
  <2> QED BY <1>1, <1>2, PassedKeeps, PassedReaches, Chain
<1>4. Open(valid) /\ valid.by = k.by /\ Reached(valid, Before("confirm"))
  <2> HIDE DEF offered
  <2> QED BY <1>1, <1>3, PassedKeeps, PassedReaches, Chain
<1>5. k.by # "nobody" => Follows(k, Cancelled(k))
  BY CancelledFollows DEF Open, WellFormed
<1>6. Follows(k, Refused(k, "capability", "capabilityDenied"))
  BY <1>1, RefusedFollows, Blames, Codes
<1>7. Follows(k, Refused(capable, "policy", "toolUnavailable"))
  <2> HIDE DEF capable
  <2> QED BY <1>1, <1>2, RefusedFollows, Blames, Codes DEF Follows
<1>8. Follows(k, [offered EXCEPT !.pc = "validating"])
  <2> HIDE DEF offered
  <2> QED BY <1>3, AwaitFollows DEF Follows
<1>9. Follows(k, AskOrEnter(c, valid, hasResolver))
  <2> HIDE DEF valid
  <2> QED BY <1>4, AskFollows DEF Follows
<1> QED BY <1>5, <1>6, <1>7, <1>8, <1>9 DEF Admit

LEMMA DecideFollows ==
  ASSUME NEW c, NEW k, Open(k), Reached(k, Before("confirm")), NEW approves \in BOOLEAN
  PROVE  Follows(k, Decide(c, k, approves))
<1> DEFINE confirmed == Passed(k, "confirm")
           r == Enter(confirmed)
<1>1. "confirm" \in Gates
  BY DEF Gates
<1>2. Open(confirmed) /\ confirmed.by = k.by /\ Reached(confirmed, Before("invoke"))
  BY <1>1, PassedKeeps, PassedReaches, Chain
<1>3. Follows(k, r) /\ r \in CallRecord
  <2>1. WellFormed(confirmed)
    BY <1>2 DEF Open
  <2> HIDE DEF confirmed
  <2>2. Enter(confirmed) \in CallRecord
    BY <1>2, <2>1 DEF Enter, Cancelled, Answered, CallRecord, WellFormed, Outcomes, Cancellations
  <2> QED BY <1>2, <2>2, EnterFollows DEF Follows
<1>4. Follows(k, [r EXCEPT !.approved = TRUE])
  <2> HIDE DEF r
  <2>1. /\ [r EXCEPT !.approved = TRUE].pc = r.pc /\ [r EXCEPT !.approved = TRUE].by = r.by
        /\ [r EXCEPT !.approved = TRUE].gates = r.gates
        /\ [r EXCEPT !.approved = TRUE].outcome = r.outcome
    BY <1>3 DEF CallRecord
  <2> QED BY <1>3, <2>1 DEF Follows, Story, Underway, Concluded, Reached, RefusedGates, Blaming,
                            PassedGates
<1>5. k.by # "nobody" => Follows(k, Cancelled(k))
  BY CancelledFollows DEF Open, WellFormed
<1>6. /\ Follows(k, NotConfirmed(k, "capabilityDenied"))
      /\ Follows(k, NotConfirmed(k, "toolUnavailable"))
      /\ Follows(k, NotConfirmed(k, "confirmationRefused"))
  BY NotConfirmedFollows, Blames, Codes
<1> QED BY <1>4, <1>5, <1>6 DEF Decide

(* What a settled handler, or its output's check, makes of a call.          *)
LEMMA VerdictFollows ==
  ASSUME NEW k \in CallRecord, k.outcome = "none", Reached(k, Before("invoke"))
  PROVE  /\ k.by # "nobody" => Follows(k, Cancelled(k))
         /\ Follows(k, Succeeded(k))
         /\ Follows(k, [k EXCEPT !.pc = "checking"])
         /\ \A code \in Refusals : GateOf[code] = "invoke" =>
              Follows(k, Refused(k, "invoke", code))
<1>1. "invoke" \in Gates
  BY DEF Gates
<1>2. Follows(k, Succeeded(k))
  <2> DEFINE r == Succeeded(k)
  <2>1. /\ r.pc = "done" /\ r.outcome = "success" /\ r.by = k.by
        /\ \A h \in Gates : r.gates[h] = IF h = "invoke" THEN "passed" ELSE k.gates[h]
    BY <1>1 DEF Succeeded, Passed, Answered, CallRecord
  <2> HIDE DEF r
  <2>2. Reached(r, Gates)
    BY <2>1, Chain DEF Reached
  <2>3. "success" \notin Refusals
    BY Codes
  <2> QED BY <2>1, <2>2, <2>3 DEF Follows, Story, Underway, Concluded, Cancellations, r
<1>3. Follows(k, [k EXCEPT !.pc = "checking"])
  <2> DEFINE r == [k EXCEPT !.pc = "checking"]
  <2>1. r.pc = "checking" /\ r.by = k.by /\ r.gates = k.gates /\ r.outcome = "none"
    BY DEF CallRecord
  <2> HIDE DEF r
  <2>2. "none" \notin Refusals
    BY Codes
  <2> QED BY <2>1, <2>2 DEF Follows, Story, Underway, Concluded, Reached, Cancellations, r
<1>4. ASSUME NEW code \in Refusals, GateOf[code] = "invoke"
      PROVE  Follows(k, Refused(k, "invoke", code))
  <2> DEFINE r == Refused(k, "invoke", code)
  <2>1. /\ r.pc = "done" /\ r.outcome = code /\ r.by = k.by
        /\ \A h \in Gates : r.gates[h] = IF h = "invoke" THEN "refused" ELSE k.gates[h]
    BY <1>1 DEF Refused, Answered, CallRecord
  <2> HIDE DEF r
  <2>2. RefusedGates(r) = {"invoke"}
    BY <1>1, <2>1 DEF Reached, RefusedGates
  <2>3. PassedGates(r) = Before("invoke")
    BY <1>1, <2>1, Chain DEF Reached, PassedGates
  <2>4. code # "success" /\ code \notin Cancellations /\ "invoke" \in BlamedGates(code)
    BY <1>4, Codes, Blames DEF Cancellations
  <2> QED BY <2>1, <2>2, <2>3, <2>4 DEF Follows, Story, Underway, Concluded, Blaming, Cancellations, r
<1>5. k.by # "nobody" => Follows(k, Cancelled(k))
  BY CancelledFollows
<1> QED BY <1>2, <1>3, <1>4, <1>5

-----------------------------------------------------------------------------
StoriesInv == \A c \in Calls : Story(call[c])

(* The cause, once latched, stands.                                         *)
CauseStands(c) == call[c].by # "nobody" => call'[c].by = call[c].by

LEMMA BecomesFollows ==
  ASSUME RecordsInv, StoriesInv, NEW c \in Calls, NEW k, Becomes(c, k), Story(k),
         call[c].by # "nobody" => k.by = call[c].by
  PROVE  StoriesInv' /\ \A d \in Calls : CauseStands(d)
<1>1. call'[c] = k /\ \A d \in Calls : d # c => call'[d] = call[d]
  BY DEF Becomes, RecordsInv, TypeOK
<1> QED BY <1>1 DEF StoriesInv, CauseStands

LEMMA LatchedFollows ==
  ASSUME NEW k, WellFormed(k), Story(k),
         k.pc \in {"validating", "confirming", "running", "checking"},
         NEW cause \in {"agent", "withdrawal"}
  PROVE  /\ Story(Latched(k, cause))
         /\ k.by # "nobody" => Latched(k, cause).by = k.by
<1>1. /\ Latched(k, cause).pc = k.pc /\ Latched(k, cause).gates = k.gates
      /\ Latched(k, cause).outcome = "none" /\ k.outcome = "none"
  BY DEF WellFormed, CallRecord, Latched
<1>2. k.by # "nobody" => Latched(k, cause).by = k.by
  BY DEF Latched
<1>3. "none" \notin Refusals
  BY Codes
<1> QED BY <1>1, <1>2, <1>3 DEF Story, Underway, Concluded, Reached, Cancellations

LEMMA ResolveFollows ==
  ASSUME RecordsInv, StoriesInv, NEW c \in Calls, Resolve(c)
  PROVE  StoriesInv' /\ \A d \in Calls : CauseStands(d)
<1> DEFINE composed == [call[c] EXCEPT !.listed = FALSE, !.by = Composed(c),
                                       !.waived = ~NeedsConfirmation(c)]
           unlisted == [call[c] EXCEPT !.listed = FALSE]
           admitted == Passed(composed, "resolve")
<1>1. /\ WellFormed(call[c]) /\ call[c].pc = "resolving" /\ call[c].by = "nobody"
      /\ Reached(call[c], Before("resolve")) /\ "resolve" \in Gates
  BY DEF RecordsInv, StoriesInv, Story, Underway, Resolve, Gates
<1>2. Open(composed) /\ Reached(composed, Before("resolve"))
  <2>1. Open(composed)
    BY <1>1, ComposedWell
  <2>2. composed.gates = call[c].gates
    BY <1>1 DEF WellFormed, CallRecord
  <2> QED BY <1>1, <2>1, <2>2 DEF Reached
<1>3. Open(admitted) /\ Reached(admitted, Before("capability"))
  <2> HIDE DEF composed
  <2> QED BY <1>1, <1>2, PassedKeeps, PassedReaches, Chain
<1>4. CASE \E hasSchema, hasResolver \in BOOLEAN :
             Becomes(c, Admit(c, admitted, hasSchema, hasResolver))
  <2>1. PICK hasSchema, hasResolver \in BOOLEAN :
          Becomes(c, Admit(c, admitted, hasSchema, hasResolver))
    BY <1>4
  <2> HIDE DEF admitted
  <2>2. Story(Admit(c, admitted, hasSchema, hasResolver))
    BY <1>3, AdmitFollows DEF Follows
  <2> QED BY <1>1, <2>1, <2>2, BecomesFollows
<1>5. CASE Becomes(c, Refused(unlisted, "resolve", "unresolved"))
  <2>1. Open(unlisted) /\ Reached(unlisted, Before("resolve"))
    <3>1. Open(unlisted)
      BY <1>1 DEF Open, WellFormed, Progressed, Told, CallRecord
    <3>2. unlisted.gates = call[c].gates
      BY <1>1 DEF WellFormed, CallRecord
    <3> QED BY <1>1, <3>1, <3>2 DEF Reached
  <2> HIDE DEF unlisted
  <2>2. Story(Refused(unlisted, "resolve", "unresolved"))
    BY <1>1, <2>1, RefusedFollows, Blames, Codes DEF Follows
  <2> QED BY <1>1, <1>5, <2>2, BecomesFollows
<1> QED BY <1>4, <1>5 DEF Resolve

(* One that keeps the cause, of whatever record.                            *)
LEMMA FollowingFollows ==
  ASSUME RecordsInv, StoriesInv, NEW c \in Calls, NEW r, Becomes(c, r), Follows(call[c], r)
  PROVE  StoriesInv' /\ \A d \in Calls : CauseStands(d)
  BY BecomesFollows DEF Follows

LEMMA GateFollows ==
  ASSUME RecordsInv, StoriesInv, NEW c \in Calls,
         ValidationAnswers(c) \/ ConfirmationAnswers(c) \/ ConfirmationThrows(c)
  PROVE  StoriesInv' /\ \A d \in Calls : CauseStands(d)
<1>1. Open(call[c]) /\ Story(call[c]) /\ {"validate", "confirm"} \subseteq Gates
  BY DEF RecordsInv, StoriesInv, Open, Gates, ValidationAnswers, ConfirmationAnswers,
         ConfirmationThrows
<1>2. CASE ValidationAnswers(c)
  <2> DEFINE valid == Passed(call[c], "validate")
  <2>1. Reached(call[c], Before("validate"))
    BY <1>1, <1>2 DEF ValidationAnswers, Story, Underway
  <2>2. Open(valid) /\ valid.by = call[c].by /\ Reached(valid, Before("confirm"))
    BY <1>1, <2>1, PassedKeeps, PassedReaches, Chain
  <2>3. CASE Becomes(c, Refused(call[c], "validate", "argumentsInvalid"))
    BY <1>1, <2>1, <2>3, RefusedFollows, Blames, Codes, FollowingFollows
  <2>4. CASE \E hasResolver \in BOOLEAN : Becomes(c, AskOrEnter(c, valid, hasResolver))
    <3>1. PICK hasResolver \in BOOLEAN : Becomes(c, AskOrEnter(c, valid, hasResolver))
      BY <2>4
    <3> HIDE DEF valid
    <3>2. Follows(call[c], AskOrEnter(c, valid, hasResolver))
      BY <2>2, AskFollows DEF Follows
    <3> QED BY <3>1, <3>2, FollowingFollows
  <2> QED BY <1>2, <2>3, <2>4 DEF ValidationAnswers
<1>3. CASE ConfirmationAnswers(c)
  <2>1. Reached(call[c], Before("confirm"))
    BY <1>1, <1>3 DEF ConfirmationAnswers, Story, Underway
  <2> QED BY <1>1, <1>3, <2>1, DecideFollows, FollowingFollows DEF ConfirmationAnswers
<1>4. CASE ConfirmationThrows(c)
  <2>1. Reached(call[c], Before("confirm"))
    BY <1>1, <1>4 DEF ConfirmationThrows, Story, Underway
  <2> QED BY <1>1, <1>4, <2>1, NotConfirmedFollows, Blames, Codes, FollowingFollows
          DEF ConfirmationThrows
<1> QED BY <1>2, <1>3, <1>4

LEMMA HandlerFollows ==
  ASSUME RecordsInv, StoriesInv, NEW c \in Calls,
         HandlerReturns(c) \/ HandlerThrows(c) \/ OutputAnswers(c)
  PROVE  StoriesInv' /\ \A d \in Calls : CauseStands(d)
<1>1. /\ Open(call[c]) /\ call[c] \in CallRecord /\ call[c].outcome = "none"
      /\ Reached(call[c], Before("invoke"))
  BY DEF RecordsInv, StoriesInv, Open, WellFormed, Story, Underway, HandlerReturns, HandlerThrows,
         OutputAnswers
<1>2. CASE HandlerReturns(c) \/ HandlerThrows(c)
  <2> DEFINE k == Settled(call[c])
  <2>1. /\ k \in CallRecord /\ k.outcome = "none" /\ k.by = call[c].by
        /\ Reached(k, Before("invoke"))
        /\ k.completed = "late" => k.by # "nobody"
    <3>1. /\ k.by = call[c].by /\ k.gates = call[c].gates
          /\ k.completed = "late" => k.by # "nobody"
      BY <1>1 DEF Settled, CallRecord
    <3>2. k \in CallRecord /\ k.outcome = "none"
      BY <1>1, <1>2, SettledWell DEF HandlerReturns, HandlerThrows
    <3> QED BY <1>1, <3>1, <3>2 DEF Reached
  <2>2. \/ k.completed = "late" /\ Becomes(c, Cancelled(k))
        \/ Becomes(c, Refused(k, "invoke", "resultNotSerializable"))
        \/ Becomes(c, Succeeded(k))
        \/ Becomes(c, [k EXCEPT !.pc = "checking"])
        \/ \E code \in {"domRefStale", "toolExecutionFailed"} : Becomes(c, Refused(k, "invoke", code))
    BY <1>2 DEF HandlerReturns, HandlerThrows, Reportable
  <2> HIDE DEF k
  <2>3. ASSUME NEW r, Becomes(c, r), Follows(k, r)
        PROVE  StoriesInv' /\ \A d \in Calls : CauseStands(d)
    BY <2>1, <2>3, BecomesFollows DEF Follows
  <2>4. CASE k.completed = "late" /\ Becomes(c, Cancelled(k))
    BY <2>1, <2>3, <2>4, VerdictFollows
  <2>5. CASE Becomes(c, Succeeded(k))
    BY <2>1, <2>3, <2>5, VerdictFollows
  <2>6. CASE Becomes(c, [k EXCEPT !.pc = "checking"])
    <3> DEFINE r == [k EXCEPT !.pc = "checking"]
    <3>1. Follows(k, r) /\ Becomes(c, r)
      BY <2>1, <2>6, VerdictFollows
    <3> HIDE DEF r
    <3> QED BY <3>1, <2>3
  <2>7. ASSUME NEW code \in Refusals, GateOf[code] = "invoke", Becomes(c, Refused(k, "invoke", code))
        PROVE  StoriesInv' /\ \A d \in Calls : CauseStands(d)
    BY <2>1, <2>3, <2>7, VerdictFollows
  <2> QED BY <2>2, <2>4, <2>5, <2>6, <2>7, Codes
<1>3. CASE OutputAnswers(c)
  <2>1. \/ Becomes(c, Succeeded(call[c]))
        \/ Becomes(c, Refused(call[c], "invoke", "resultViolatesOutputSchema"))
    BY <1>3 DEF OutputAnswers
  <2> QED BY <1>1, <2>1, VerdictFollows, Codes, FollowingFollows
<1> QED BY <1>2, <1>3

LEMMA CancellationFollows ==
  ASSUME RecordsInv, StoriesInv, NEW c \in Calls, CancellationWins(c)
  PROVE  StoriesInv' /\ \A d \in Calls : CauseStands(d)
<1>1. /\ call[c] \in CallRecord /\ call[c].by # "nobody" /\ Becomes(c, Cancelled(call[c]))
      /\ \E g \in Gates : Reached(call[c], Before(g))
  BY DEF RecordsInv, StoriesInv, WellFormed, Story, Underway, CancellationWins, Gates
<1> QED BY <1>1, CancelledFollows, FollowingFollows

(* What leaves the record as it is but for its histories.                   *)
LEMMA MarkedFollows ==
  ASSUME NEW k \in CallRecord, Story(k)
  PROVE  /\ Follows(k, [k EXCEPT !.waived = TRUE])
         /\ Follows(k, [k EXCEPT !.windowed = TRUE])
<1>1. ASSUME NEW r, r.pc = k.pc, r.by = k.by, r.gates = k.gates, r.outcome = k.outcome
      PROVE  Follows(k, r)
  BY <1>1 DEF Follows, Story, Underway, Concluded, Reached, Blaming, RefusedGates, PassedGates
<1>2. /\ [k EXCEPT !.waived = TRUE].pc = k.pc /\ [k EXCEPT !.waived = TRUE].by = k.by
      /\ [k EXCEPT !.waived = TRUE].gates = k.gates
      /\ [k EXCEPT !.waived = TRUE].outcome = k.outcome
  BY DEF CallRecord
<1>3. /\ [k EXCEPT !.windowed = TRUE].pc = k.pc /\ [k EXCEPT !.windowed = TRUE].by = k.by
      /\ [k EXCEPT !.windowed = TRUE].gates = k.gates
      /\ [k EXCEPT !.windowed = TRUE].outcome = k.outcome
  BY DEF CallRecord
<1> QED BY <1>1, <1>2, <1>3

LEMMA ArriveFollows ==
  ASSUME RecordsInv, StoriesInv, NEW c \in Calls, Arrive(c) \/ AgentCancels(c)
  PROVE  StoriesInv' /\ \A d \in Calls : CauseStands(d)
<1>1. \A d \in Calls : WellFormed(call[d]) /\ Story(call[d])
  BY DEF RecordsInv, StoriesInv
<1>2. CASE Arrive(c)
  <2> DEFINE r == [call[c] EXCEPT !.pc = "resolving", !.listed = (phase # "gone")]
  <2>1. call[c].pc = "idle" /\ Becomes(c, r)
    BY <1>2 DEF Arrive
  <2>2. /\ r.pc = "resolving" /\ r.by = call[c].by /\ r.gates = call[c].gates
        /\ r.outcome = "none" /\ call[c].by = "nobody" /\ Reached(call[c], Before("resolve"))
    BY <1>1, <2>1 DEF WellFormed, CallRecord, Story, Underway
  <2> HIDE DEF r
  <2>3. "none" \notin Refusals
    BY Codes
  <2>4. Story(r)
    BY <2>2, <2>3 DEF Story, Underway, Concluded, Reached, Cancellations
  <2> QED BY <2>1, <2>2, <2>4, BecomesFollows
<1>3. CASE AgentCancels(c)
  <2>1. \A d \in Calls : call'[d] = call[d] \/
          (d = c /\ Live(c) /\ call'[d] = Latched(call[c], "agent"))
    BY <1>3 DEF RecordsInv, TypeOK, AgentCancels
  <2>2. \A d \in Calls : Story(call'[d]) /\ CauseStands(d)
    BY <1>1, <2>1, LatchedFollows DEF Live, CauseStands
  <2> QED BY <2>2 DEF StoriesInv
<1> QED BY <1>2, <1>3

LEMMA EnvironmentFollows ==
  ASSUME RecordsInv, StoriesInv, Environment
  PROVE  StoriesInv' /\ \A d \in Calls : CauseStands(d)
<1>1. \A d \in Calls : WellFormed(call[d]) /\ call[d] \in CallRecord /\ Story(call[d])
  BY DEF RecordsInv, StoriesInv, WellFormed
<1>2. \A d \in Calls :
        \/ call'[d] = call[d]
        \/ Live(d) /\ call'[d] = Latched(call[d], "withdrawal")
        \/ call'[d] = [call[d] EXCEPT !.waived = TRUE]
        \/ call'[d] = [call[d] EXCEPT !.windowed = TRUE]
  BY DEF Environment, Register, Own, Refresh, Replace, Disown, Withdraw, SetCapabilities, Offered,
         Abandoned
<1>3. ASSUME NEW d \in Calls
      PROVE  Story(call'[d]) /\ CauseStands(d)
  <2>1. CASE call'[d] = call[d]
    BY <1>1, <2>1 DEF CauseStands
  <2>2. CASE Live(d) /\ call'[d] = Latched(call[d], "withdrawal")
    BY <1>1, <2>2, LatchedFollows DEF Live, CauseStands
  <2>3. CASE \/ call'[d] = [call[d] EXCEPT !.waived = TRUE]
             \/ call'[d] = [call[d] EXCEPT !.windowed = TRUE]
    <3>1. Follows(call[d], call'[d])
      BY <1>1, <2>3, MarkedFollows
    <3> QED BY <3>1 DEF Follows, CauseStands
  <2> QED BY <1>2, <2>1, <2>2, <2>3
<1> QED BY <1>3 DEF StoriesInv

LEMMA NextFollows ==
  ASSUME RecordsInv, StoriesInv, [Next]_vars
  PROVE  StoriesInv' /\ \A d \in Calls : CauseStands(d)
<1>1. ASSUME NEW c \in Calls, Step(c)
      PROVE  StoriesInv' /\ \A d \in Calls : CauseStands(d)
  BY <1>1, ArriveFollows, ResolveFollows, GateFollows, HandlerFollows, CancellationFollows DEF Step
<1>2. CASE UNCHANGED vars
  BY <1>2 DEF vars, StoriesInv, CauseStands
<1> QED BY <1>1, <1>2, EnvironmentFollows DEF Next

LEMMA StoriesHold == Spec => []StoriesInv
<1>1. Init => StoriesInv
  <2>1. Story(NewCall)
    <3>1. "none" \notin Refusals
      BY Codes
    <3> QED BY <3>1, Chain DEF Story, Underway, Concluded, Reached, NewCall, Cancellations
  <2> QED BY <2>1 DEF Init, StoriesInv
<1>2. RecordsInv /\ StoriesInv /\ [Next]_vars => StoriesInv'
  BY NextFollows
<1> QED BY <1>1, <1>2, RecordsCorrect, PTL DEF Spec

(* What is observed of a call and what its agent is told agree, whatever      *)
(* answered, threw or was cancelled on the way (invocation.ts, refusal).     *)
THEOREM OneStory == Spec => []RecordMatchesAnswer
<1>1. RecordsInv /\ StoriesInv => RecordMatchesAnswer
  <2> SUFFICES ASSUME StoriesInv, NEW c \in Calls
               PROVE  LET k == call[c] IN
                      /\ (k.outcome \in Refusals /\ k.by = "nobody") =>
                           \E g \in BlamedGates(k.outcome) :
                             RefusedGates(k) = {g} /\ PassedGates(k) = Before(g)
                      /\ k.outcome = "success" => PassedGates(k) = Gates
                      /\ k.outcome \in Cancellations => RefusedGates(k) = {}
    BY DEF RecordMatchesAnswer
  <2>1. Concluded(call[c])
    BY DEF StoriesInv, Story
  <2> QED BY <2>1 DEF Concluded, Blaming, Reached, PassedGates
<1> QED BY <1>1, StoriesHold, RecordsCorrect, PTL

(* The cause of a cancellation is the first one, and names the answer         *)
(* (cancellation.ts, latch).                                                *)
THEOREM CauseIsFirst == Spec => FirstCauseStands
<1>1. RecordsInv /\ StoriesInv /\ StoriesInv' /\ [Next]_vars =>
        [\A c \in Calls :
           /\ call[c].by # "nobody" => call'[c].by = call[c].by
           /\ call'[c].outcome = "callAbandoned" => call'[c].by = "withdrawal"
           /\ call'[c].outcome = "callCancelled" => call'[c].by = "agent"]_vars
  BY NextFollows DEF CauseStands, StoriesInv, Story, Concluded
<1> QED BY <1>1, StoriesHold, RecordsCorrect, PTL DEF Spec, FirstCauseStands
=============================================================================
