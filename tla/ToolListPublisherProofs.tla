---------------------- MODULE ToolListPublisherProofs ----------------------
(***************************************************************************)
(* Theorems of ToolListPublisher, for every page and every bound on the     *)
(* epochs.                                                                  *)
(***************************************************************************)
EXTENDS ToolListPublisher, TLAPS

(* A derivation from a registry and a record is a listing, never undefined. *)
LEMMA DerivedTyped ==
  ASSUME NEW r \in Registries, NEW o \in Records
  PROVE  Derived(r, o) \in Listings /\ Derived(r, o) # None
BY ListingAssumption DEF Registries, Records, Listings, Derived

(* A record moved at one name is a record. *)
LEMMA MovedTyped ==
  ASSUME NEW o \in Records, NEW n \in Names, NEW f \in Fields \cup {None}
  PROVE  [o EXCEPT ![n] = f] \in Records
BY DEF Records

(* The page of the next state is a page, and a built-in is a name. *)
LEMMA PageTyped ==
  ASSUME TypeOK, PageChanges
  PROVE  /\ registry' \in Registries /\ record' \in Records
         /\ registries' \subseteq Registries /\ records' \subseteq Records
         /\ PageMoves(registry', record')
<1>1. CASE \E r \in Registries : RegistryChanges(r)
  BY <1>1 DEF RegistryChanges, PageMoves, TypeOK
<1>2. ASSUME NEW n \in Names, NEW f \in Fields \cup {None},
             PageMoves(registry, [record EXCEPT ![n] = f])
      PROVE  /\ registry' \in Registries /\ record' \in Records
             /\ registries' \subseteq Registries /\ records' \subseteq Records
             /\ PageMoves(registry', record')
  <2>1. [record EXCEPT ![n] = f] \in Records
    BY MovedTyped DEF TypeOK
  <2>2. QED
    BY <1>2, <2>1 DEF PageMoves, TypeOK
<1>3. CASE \E n \in Names \ BuiltIns, f \in Fields \cup {None} : OwnershipChanges(n, f)
  BY <1>2, <1>3 DEF OwnershipChanges
<1>4. CASE \E n \in BuiltIns, f \in Fields \cup {None} : CapabilitiesChange(n, f)
  BY <1>2, <1>4, ListingAssumption DEF CapabilitiesChange
<1>5. QED
  BY <1>1, <1>3, <1>4 DEF PageChanges

(* What a change of the page does to the drain: nothing while its event is  *)
(* on the way, signal() when the ownership record announces it.             *)
Told ==
  /\ UNCHANGED <<open, epoch, last, baseline>>
  /\ \/ unsignalled' /\ UNCHANGED <<dirty, pc, mine, read, alarm>>
     \/ Signal /\ UNCHANGED unsignalled

LEMMA PageTold == ASSUME PageChanges PROVE Told
BY DEF PageChanges, RegistryChanges, OwnershipChanges, CapabilitiesChange, Told

(* The publisher's state is well-formed in every reachable state. *)
THEOREM PublisherTyped == Spec => []TypeOK
<1>1. Init => TypeOK
  <2> SUFFICES ASSUME Init PROVE TypeOK
    OBVIOUS
  <2>1. 0 \in Epochs
    BY PublisherAssumption DEF Epochs
  <2>2. \A e \in Epochs : baseline[e] = Unopened
    BY DEF Init
  <2>3. Unopened \in [at : Stages, read : Registries \cup Listings \cup {None}]
    BY DEF Unopened, Stages
  <2>4. QED
    BY <2>1, <2>2, <2>3 DEF Init, TypeOK, Carries, Unopened, Epochs
<1>2. TypeOK /\ [Next]_vars => TypeOK'
  <2> SUFFICES ASSUME TypeOK, [Next]_vars PROVE TypeOK'
    OBVIOUS
  <2> USE PublisherAssumption
      DEF TypeOK, Carries, Stages, Epochs, Unopened, Opened, Done
  <2>1. CASE PageChanges
    <3>1. Told /\ PageMoves(registry', record')
      BY <2>1, PageTold, PageTyped
    <3>2. /\ registry' \in Registries /\ record' \in Records
          /\ registries' \subseteq Registries /\ records' \subseteq Records
      BY <2>1, PageTyped
    <3>3. QED
      BY <3>1, <3>2 DEF Told, Signal, StartDrain, BeginPass, PageMoves
  <2>2. CASE EventArrives
    BY <2>2 DEF EventArrives, Signal, StartDrain, BeginPass, page, seen
  <2>3. CASE Drain
    <3>1. CASE DrainEnumerates
      BY <3>1 DEF DrainEnumerates, page, seen
    <3>2. CASE DrainDerives
      BY <3>2, DerivedTyped DEF DrainDerives, page, seen
    <3>3. CASE DrainReadFails
      BY <3>3 DEF DrainReadFails, Return, page, seen
    <3>4. CASE DrainCompares
      BY <3>4 DEF DrainCompares, LoopOrReturn, Return, BeginPass, Stale, Pending, page, seen
    <3>5. CASE SendSettles
      BY <3>5 DEF SendSettles, LoopOrReturn, Return, BeginPass, Stale, page, seen
    <3>6. CASE SendFails
      BY <3>6 DEF SendFails, Return, Stale, page, seen
    <3>7. CASE DrainFinally
      BY <3>7 DEF DrainFinally, StartDrain, BeginPass, page, seen
    <3>8. QED
      BY <2>3, <3>1, <3>2, <3>3, <3>4, <3>5, <3>6, <3>7 DEF Drain
  <2>4. CASE Open
    BY <2>4 DEF Open
  <2>5. ASSUME NEW e \in Epochs, Baseline(e) PROVE TypeOK'
    <3>1. CASE OpenEnumerates(e)
      BY <3>1 DEF OpenEnumerates, page, seen
    <3>2. CASE OpenDerives(e)
      BY <3>2, DerivedTyped DEF OpenDerives, page, seen
    <3>3. CASE OpenReadFails(e)
      BY <3>3 DEF OpenReadFails, Stale, page, seen
    <3>4. CASE OpenReturns(e)
      <4>1. baseline[e].read \in Listings /\ last' \in Listings \cup {None}
        BY <3>4 DEF OpenReturns
      <4>2. /\ baseline' \in [Epochs -> [at : Stages, read : Registries \cup Listings \cup {None}]]
            /\ \A x \in Epochs : Carries(baseline'[x].at, baseline'[x].read)
        BY <3>4 DEF OpenReturns
      <4>3. QED
        BY <3>4, <4>1, <4>2 DEF OpenReturns, page, seen
    <3>5. QED
      BY <2>5, <3>1, <3>2, <3>3, <3>4 DEF Baseline
  <2>6. CASE Close
    <3>1. epoch' \in 0..MaxEpoch
      BY <2>6 DEF Close
    <3>2. registries' \in SUBSET Registries /\ records' \in SUBSET Records
      BY <2>6 DEF Close
    <3>3. QED
      BY <2>6, <3>1, <3>2 DEF Close
  <2>7. CASE UNCHANGED vars
    BY <2>7 DEF vars, page, seen
  <2>8. QED
    BY <2>1, <2>2, <2>3, <2>4, <2>5, <2>6, <2>7 DEF Next
<1>3. QED
  BY <1>1, <1>2, PTL DEF Spec

-----------------------------------------------------------------------------
(***************************************************************************)
(* The window: an epoch is opened at most once, and a drain that carries    *)
(* the current epoch is a drain of the open window.                         *)
(***************************************************************************)
WindowInv ==
  /\ mine <= epoch
  /\ \A e \in Epochs : e > epoch => baseline[e].at = "unopened"
  /\ open <=> baseline[epoch].at # "unopened"
  /\ pc # "idle" /\ mine = epoch => open
  /\ dirty => open /\ pc # "idle"

(***************************************************************************)
(* Whatever this window's drain and baseline carry, the page was in it.     *)
(***************************************************************************)
Composed(l) == \E r \in registries, o \in records : l = Derived(r, o)

HeldInv ==
  /\ open => registry \in registries /\ record \in records
  /\ last # None => open /\ Composed(last)
  /\ mine = epoch /\ pc = "deriving" => read \in registries
  /\ mine = epoch /\ pc \in {"comparing", "sending"} => Composed(read)
  /\ baseline[epoch].at = "deriving" => baseline[epoch].read \in registries
  /\ baseline[epoch].at = "comparing" => Composed(baseline[epoch].read)

(***************************************************************************)
(* Every value on its way into the token is the page's own, or something    *)
(* already scheduled will derive it again.                                  *)
(***************************************************************************)
Rederived == unsignalled \/ dirty \/ alarm \/ baseline[epoch].at = "enumerating"

DrainActive ==
  pc \in {"enumerating", "deriving", "comparing", "sending"} /\ mine = epoch

FreshInv ==
  open =>
    /\ DrainActive /\ pc = "deriving" =>
         /\ baseline[epoch].at # "enumerating"
         /\ read = registry \/ Rederived
    /\ DrainActive /\ pc \in {"comparing", "sending"} =>
         /\ baseline[epoch].at \in {"comparing", "done"}
         /\ read = Derived(registry, record) \/ Rederived
    /\ DrainActive /\ pc = "sending" => baseline[epoch].at = "done"
    /\ baseline[epoch].at = "deriving" =>
         baseline[epoch].read = registry \/ Rederived \/ DrainActive
    /\ baseline[epoch].at = "comparing" =>
         baseline[epoch].read = Derived(registry, record) \/ Rederived \/ DrainActive
    /\ (baseline[epoch].at = "done" /\ ~DrainActive) =>
         last = Derived(registry, record) \/ Rederived

(* The window invariant holds in every reachable state. *)
THEOREM WindowCorrect == Spec => []WindowInv
<1>1. Init => WindowInv
  BY PublisherAssumption DEF Init, WindowInv, Epochs, Unopened
<1>2. TypeOK /\ WindowInv /\ [Next]_vars => WindowInv'
  <2> SUFFICES ASSUME TypeOK, WindowInv, [Next]_vars PROVE WindowInv'
    OBVIOUS
  <2> USE PublisherAssumption
      DEF TypeOK, WindowInv, Stages, Epochs, Unopened, Opened, Done
  <2>1. CASE PageChanges
    <3>1. Told /\ PageMoves(registry', record')
      BY <2>1, PageTold, PageTyped
    <3>2. /\ registry' \in Registries /\ record' \in Records
          /\ registries' \subseteq Registries /\ records' \subseteq Records
      BY <2>1, PageTyped
    <3>3. QED
      BY <3>1, <3>2 DEF Told, Signal, StartDrain, BeginPass, PageMoves
  <2>2. CASE EventArrives
    BY <2>2 DEF EventArrives, Signal, StartDrain, BeginPass, page, seen
  <2>3. CASE Drain
    <3>1. CASE DrainEnumerates
      BY <3>1 DEF DrainEnumerates, page, seen
    <3>2. CASE DrainDerives
      BY <3>2 DEF DrainDerives, page, seen
    <3>3. CASE DrainReadFails
      BY <3>3 DEF DrainReadFails, Return, page, seen
    <3>4. CASE DrainCompares
      BY <3>4 DEF DrainCompares, LoopOrReturn, Return, BeginPass, Stale, Pending, page, seen
    <3>5. CASE SendSettles
      BY <3>5 DEF SendSettles, LoopOrReturn, Return, BeginPass, Stale, page, seen
    <3>6. CASE SendFails
      BY <3>6 DEF SendFails, Return, Stale, page, seen
    <3>7. CASE DrainFinally
      BY <3>7 DEF DrainFinally, StartDrain, BeginPass, page, seen
    <3>8. QED
      BY <2>3, <3>1, <3>2, <3>3, <3>4, <3>5, <3>6, <3>7 DEF Drain
  <2>4. CASE Open
    BY <2>4 DEF Open
  <2>5. ASSUME NEW e \in Epochs, Baseline(e) PROVE WindowInv'
    <3>1. CASE OpenEnumerates(e)
      BY <3>1 DEF OpenEnumerates, page, seen
    <3>2. CASE OpenDerives(e)
      BY <3>2 DEF OpenDerives, page, seen
    <3>3. CASE OpenReadFails(e)
      BY <3>3 DEF OpenReadFails, Stale, page, seen
    <3>4. CASE OpenReturns(e)
      BY <3>4 DEF OpenReturns, Stale, page, seen
    <3>5. QED
      BY <2>5, <3>1, <3>2, <3>3, <3>4 DEF Baseline
  <2>6. CASE Close
    BY <2>6 DEF Close
  <2>7. CASE UNCHANGED vars
    BY <2>7 DEF vars, page, seen
  <2>8. QED
    BY <2>1, <2>2, <2>3, <2>4, <2>5, <2>6, <2>7 DEF Next
<1>3. QED
  BY <1>1, <1>2, PublisherTyped, PTL DEF Spec

(* What the publisher carries in this window is of this window. *)
THEOREM HeldCorrect == Spec => []HeldInv
<1>1. Init => HeldInv
  BY PublisherAssumption DEF Init, HeldInv, Epochs, Unopened
<1>2. TypeOK /\ WindowInv /\ HeldInv /\ [Next]_vars => HeldInv'
  <2> SUFFICES ASSUME TypeOK, WindowInv, HeldInv, [Next]_vars PROVE HeldInv'
    OBVIOUS
  <2> USE PublisherAssumption
      DEF TypeOK, WindowInv, HeldInv, Composed, Stages, Epochs, Unopened, Opened, Done
  <2>1. CASE PageChanges
    <3>1. Told /\ PageMoves(registry', record')
      BY <2>1, PageTold, PageTyped
    <3>2. /\ registry' \in Registries /\ record' \in Records
          /\ registries' \subseteq Registries /\ records' \subseteq Records
      BY <2>1, PageTyped
    <3>3. QED
      BY <3>1, <3>2 DEF Told, Signal, StartDrain, BeginPass, PageMoves
  <2>2. CASE EventArrives
    BY <2>2 DEF EventArrives, Signal, StartDrain, BeginPass, page, seen
  <2>3. CASE Drain
    <3>1. CASE DrainEnumerates
      BY <3>1 DEF DrainEnumerates, page, seen
    <3>2. CASE DrainDerives
      BY <3>2 DEF DrainDerives, page, seen
    <3>3. CASE DrainReadFails
      BY <3>3 DEF DrainReadFails, Return, page, seen
    <3>4. CASE DrainCompares
      BY <3>4 DEF DrainCompares, LoopOrReturn, Return, BeginPass, Stale, Pending, page, seen
    <3>5. CASE SendSettles
      BY <3>5 DEF SendSettles, LoopOrReturn, Return, BeginPass, Stale, page, seen
    <3>6. CASE SendFails
      BY <3>6 DEF SendFails, Return, Stale, page, seen
    <3>7. CASE DrainFinally
      BY <3>7 DEF DrainFinally, StartDrain, BeginPass, page, seen
    <3>8. QED
      BY <2>3, <3>1, <3>2, <3>3, <3>4, <3>5, <3>6, <3>7 DEF Drain
  <2>4. CASE Open
    BY <2>4 DEF Open
  <2>5. ASSUME NEW e \in Epochs, Baseline(e) PROVE HeldInv'
    <3>1. CASE OpenEnumerates(e)
      BY <3>1 DEF OpenEnumerates, page, seen
    <3>2. CASE OpenDerives(e)
      BY <3>2 DEF OpenDerives, page, seen
    <3>3. CASE OpenReadFails(e)
      BY <3>3 DEF OpenReadFails, Stale, page, seen
    <3>4. CASE OpenReturns(e)
      BY <3>4 DEF OpenReturns, Stale, page, seen
    <3>5. QED
      BY <2>5, <3>1, <3>2, <3>3, <3>4 DEF Baseline
  <2>6. CASE Close
    BY <2>6 DEF Close
  <2>7. CASE UNCHANGED vars
    BY <2>7 DEF vars, page, seen
  <2>8. QED
    BY <2>1, <2>2, <2>3, <2>4, <2>5, <2>6, <2>7 DEF Next
<1>3. QED
  BY <1>1, <1>2, PublisherTyped, WindowCorrect, PTL DEF Spec

(* The token never comes from an ended window. *)
THEOREM TokenIsOfThisWindow == Spec => []TokenOfThisWindow
<1>1. HeldInv => TokenOfThisWindow
  BY DEF HeldInv, Composed, TokenOfThisWindow
<1>2. QED
  BY <1>1, HeldCorrect, PTL

(* Every value on its way to the token is current or will be derived again. *)
THEOREM FreshCorrect == Spec => []FreshInv
<1>1. Init => FreshInv
  BY DEF Init, FreshInv
<1>2. TypeOK /\ WindowInv /\ FreshInv /\ [Next]_vars => FreshInv'
  <2> SUFFICES ASSUME TypeOK, WindowInv, FreshInv, [Next]_vars PROVE FreshInv'
    OBVIOUS
  <2> USE PublisherAssumption
      DEF TypeOK, WindowInv, FreshInv, Rederived, DrainActive, Stages, Epochs,
          Unopened, Opened, Done
  <2>1. CASE PageChanges
    <3>1. Told /\ PageMoves(registry', record')
      BY <2>1, PageTold, PageTyped
    <3>2. /\ registry' \in Registries /\ record' \in Records
          /\ registries' \subseteq Registries /\ records' \subseteq Records
      BY <2>1, PageTyped
    <3>3. QED
      BY <3>1, <3>2 DEF Told, Signal, StartDrain, BeginPass, PageMoves
  <2>2. CASE EventArrives
    BY <2>2 DEF EventArrives, Signal, StartDrain, BeginPass, page, seen
  <2>3. CASE Drain
    <3>1. CASE DrainEnumerates
      BY <3>1 DEF DrainEnumerates, page, seen
    <3>2. CASE DrainDerives
      BY <3>2 DEF DrainDerives, page, seen
    <3>3. CASE DrainReadFails
      BY <3>3 DEF DrainReadFails, Return, page, seen
    <3>4. CASE DrainCompares
      BY <3>4 DEF DrainCompares, LoopOrReturn, Return, BeginPass, Stale, Pending, page, seen
    <3>5. CASE SendSettles
      BY <3>5 DEF SendSettles, LoopOrReturn, Return, BeginPass, Stale, page, seen
    <3>6. CASE SendFails
      BY <3>6 DEF SendFails, Return, Stale, page, seen
    <3>7. CASE DrainFinally
      BY <3>7 DEF DrainFinally, StartDrain, BeginPass, page, seen
    <3>8. QED
      BY <2>3, <3>1, <3>2, <3>3, <3>4, <3>5, <3>6, <3>7 DEF Drain
  <2>4. CASE Open
    BY <2>4 DEF Open
  <2>5. ASSUME NEW e \in Epochs, Baseline(e) PROVE FreshInv'
    <3>1. CASE OpenEnumerates(e)
      BY <3>1 DEF OpenEnumerates, page, seen
    <3>2. CASE OpenDerives(e)
      BY <3>2 DEF OpenDerives, page, seen
    <3>3. CASE OpenReadFails(e)
      BY <3>3 DEF OpenReadFails, Stale, page, seen
    <3>4. CASE OpenReturns(e)
      BY <3>4 DEF OpenReturns, Stale, page, seen
    <3>5. QED
      BY <2>5, <3>1, <3>2, <3>3, <3>4 DEF Baseline
  <2>6. CASE Close
    BY <2>6 DEF Close
  <2>7. CASE UNCHANGED vars
    BY <2>7 DEF vars, page, seen
  <2>8. QED
    BY <2>1, <2>2, <2>3, <2>4, <2>5, <2>6, <2>7 DEF Next
<1>3. QED
  BY <1>1, <1>2, PublisherTyped, WindowCorrect, PTL DEF Spec

(* No signal is lost: an open publisher at rest has told the agent what the *)
(* page holds, or has reported that it could not.                           *)
THEOREM SignalsAreNotLost == Spec => []NoLostSignal
<1>1. TypeOK /\ WindowInv /\ FreshInv => NoLostSignal
  BY PublisherAssumption
     DEF TypeOK, WindowInv, FreshInv, Rederived, DrainActive, NoLostSignal, AtRest,
         Pending, Epochs, Stages
<1>2. QED
  BY <1>1, PublisherTyped, WindowCorrect, FreshCorrect, PTL

-----------------------------------------------------------------------------
(***************************************************************************)
(* Refinement.                                                             *)
(***************************************************************************)
Advertisement ==
  INSTANCE ToolListAdvertisement WITH
    window <- open, advertised <- last, failing <- alarm

(***************************************************************************)
(* A send in this window carries something other than what was last said.   *)
(***************************************************************************)
SpeaksInv ==
  /\ baseline[epoch].at # "done" => last = None
  /\ (pc = "sending" /\ mine = epoch) => read # last

(* Nothing is said before the baseline, and nothing is said twice running. *)
LEMMA SpeaksCorrect == Spec => []SpeaksInv
<1>1. Init => SpeaksInv
  BY DEF Init, SpeaksInv
<1>2. TypeOK /\ WindowInv /\ FreshInv /\ SpeaksInv /\ [Next]_vars => SpeaksInv'
  <2> SUFFICES ASSUME TypeOK, WindowInv, FreshInv, SpeaksInv, [Next]_vars PROVE SpeaksInv'
    OBVIOUS
  <2> USE PublisherAssumption
      DEF TypeOK, WindowInv, FreshInv, DrainActive, SpeaksInv, Stages, Epochs,
          Unopened, Opened, Done
  <2>1. CASE PageChanges
    <3>1. Told /\ PageMoves(registry', record')
      BY <2>1, PageTold, PageTyped
    <3>2. /\ registry' \in Registries /\ record' \in Records
          /\ registries' \subseteq Registries /\ records' \subseteq Records
      BY <2>1, PageTyped
    <3>3. QED
      BY <3>1, <3>2 DEF Told, Signal, StartDrain, BeginPass, PageMoves
  <2>2. CASE EventArrives
    BY <2>2 DEF EventArrives, Signal, StartDrain, BeginPass, page, seen
  <2>3. CASE Drain
    <3>1. CASE DrainEnumerates
      BY <3>1 DEF DrainEnumerates, page, seen
    <3>2. CASE DrainDerives
      BY <3>2 DEF DrainDerives, page, seen
    <3>3. CASE DrainReadFails
      BY <3>3 DEF DrainReadFails, Return, page, seen
    <3>4. CASE DrainCompares
      BY <3>4 DEF DrainCompares, LoopOrReturn, Return, BeginPass, Stale, Pending, page, seen
    <3>5. CASE SendSettles
      BY <3>5 DEF SendSettles, LoopOrReturn, Return, BeginPass, Stale, page, seen
    <3>6. CASE SendFails
      BY <3>6 DEF SendFails, Return, Stale, page, seen
    <3>7. CASE DrainFinally
      BY <3>7 DEF DrainFinally, StartDrain, BeginPass, page, seen
    <3>8. QED
      BY <2>3, <3>1, <3>2, <3>3, <3>4, <3>5, <3>6, <3>7 DEF Drain
  <2>4. CASE Open
    BY <2>4 DEF Open
  <2>5. ASSUME NEW e \in Epochs, Baseline(e) PROVE SpeaksInv'
    <3>1. CASE OpenEnumerates(e)
      BY <3>1 DEF OpenEnumerates, page, seen
    <3>2. CASE OpenDerives(e)
      BY <3>2 DEF OpenDerives, page, seen
    <3>3. CASE OpenReadFails(e)
      BY <3>3 DEF OpenReadFails, Stale, page, seen
    <3>4. CASE OpenReturns(e)
      BY <3>4 DEF OpenReturns, Stale, page, seen
    <3>5. QED
      BY <2>5, <3>1, <3>2, <3>3, <3>4 DEF Baseline
  <2>6. CASE Close
    BY <2>6 DEF Close
  <2>7. CASE UNCHANGED vars
    BY <2>7 DEF vars, page, seen
  <2>8. QED
    BY <2>1, <2>2, <2>3, <2>4, <2>5, <2>6, <2>7 DEF Next
<1>3. QED
  BY <1>1, <1>2, PublisherTyped, WindowCorrect, FreshCorrect, PTL DEF Spec

(* Every publisher step is a step of the advertisement promise, or leaves   *)
(* the advertised state alone: whatever the agent is told was derived from  *)
(* a registry and a record of this window and differs from what it was told *)
(* before.                                                                  *)
THEOREM PublisherRefinesAdvertisement ==
  Spec => Advertisement!Init /\ [][Advertisement!Next]_(Advertisement!vars)
<1>1. Init => Advertisement!Init
  BY DEF Init, Advertisement!Init, Registries, Records, Advertisement!Registries,
         Advertisement!Records
<1>2. TypeOK /\ WindowInv /\ HeldInv /\ FreshInv /\ SpeaksInv /\ [Next]_vars
        => [Advertisement!Next]_(Advertisement!vars)
  <2> SUFFICES ASSUME TypeOK, WindowInv, HeldInv, FreshInv, SpeaksInv, [Next]_vars
               PROVE  [Advertisement!Next]_(Advertisement!vars)
    OBVIOUS
  <2> USE DEF Advertisement!vars, page, seen
  <2>1. CASE PageChanges
    <3>1. Told /\ PageMoves(registry', record') /\ alarm' \in BOOLEAN
      BY <2>1, PageTold, PageTyped DEF Told, Signal, StartDrain, BeginPass, TypeOK
    <3>2. registry' \in Advertisement!Registries /\ record' \in Advertisement!Records
      BY <2>1, PageTyped DEF Registries, Records, Advertisement!Registries,
                             Advertisement!Records
    <3>3. QED
      BY <3>1, <3>2 DEF Told, PageMoves, Advertisement!Next, Advertisement!Move
  <2>2. CASE EventArrives
    <3>1. UNCHANGED <<page, open, last>> /\ alarm' \in BOOLEAN
      BY <2>2 DEF EventArrives, Signal, StartDrain, BeginPass, TypeOK
    <3>2. QED
      BY <3>1 DEF TypeOK, Advertisement!Next, Advertisement!Report
  <2>3. CASE Drain
    <3>1. CASE SendSettles /\ ~Stale(mine)
      <4>1. Composed(read) /\ read # last /\ alarm' \in BOOLEAN
        BY <3>1 DEF SendSettles, Stale, HeldInv, SpeaksInv, LoopOrReturn, Return,
                    BeginPass, TypeOK
      <4>2. open /\ last' = read /\ UNCHANGED <<page, open>>
        BY <3>1 DEF SendSettles, Stale
      <4>3. \E r \in registries, o \in records : last' = Advertisement!Derived(r, o)
        BY <4>1, <4>2 DEF Composed, Derived, Advertisement!Derived
      <4>4. QED
        BY <4>1, <4>2, <4>3 DEF Advertisement!Next, Advertisement!Advertise
    <3>2. CASE Drain /\ ~(SendSettles /\ ~Stale(mine))
      <4>1. UNCHANGED <<page, open, last>> /\ alarm' \in BOOLEAN
        BY <3>2 DEF Drain, DrainEnumerates, DrainDerives, DrainReadFails, DrainCompares,
                    SendSettles, SendFails, DrainFinally, LoopOrReturn, Return,
                    StartDrain, BeginPass, Stale, TypeOK
      <4>2. QED
        BY <4>1 DEF TypeOK, Advertisement!Next, Advertisement!Report
    <3>3. QED
      BY <2>3, <3>1, <3>2
  <2>4. CASE Open
    BY <2>4 DEF Open, Advertisement!Next, Advertisement!OpenWindow
  <2>5. ASSUME NEW e \in Epochs, Baseline(e)
        PROVE  [Advertisement!Next]_(Advertisement!vars)
    <3>1. CASE OpenEnumerates(e) \/ OpenDerives(e)
      BY <3>1 DEF OpenEnumerates, OpenDerives
    <3>2. CASE OpenReadFails(e)
      BY <3>2 DEF OpenReadFails, TypeOK, Advertisement!Next, Advertisement!Report
    <3>3. CASE OpenReturns(e) /\ Stale(e)
      BY <3>3 DEF OpenReturns
    <3>4. CASE OpenReturns(e) /\ ~Stale(e)
      <4>1. Composed(baseline[e].read) /\ last = None
        BY <3>4 DEF OpenReturns, Stale, HeldInv, SpeaksInv
      <4>2. open /\ last' = baseline[e].read /\ UNCHANGED <<page, open, alarm>>
        BY <3>4 DEF OpenReturns, Stale
      <4>3. last' # last
        BY <4>1, <4>2, DerivedTyped DEF Composed, TypeOK
      <4>4. \E r \in registries, o \in records : last' = Advertisement!Derived(r, o)
        BY <4>1, <4>2 DEF Composed, Derived, Advertisement!Derived
      <4>5. QED
        BY <4>1, <4>2, <4>3, <4>4
           DEF TypeOK, Advertisement!Next, Advertisement!Advertise
    <3>5. QED
      BY <2>5, <3>1, <3>2, <3>3, <3>4 DEF Baseline
  <2>6. CASE Close
    BY <2>6 DEF Close, Advertisement!Next, Advertisement!CloseWindow
  <2>7. CASE UNCHANGED vars
    BY <2>7 DEF vars
  <2>8. QED
    BY <2>1, <2>2, <2>3, <2>4, <2>5, <2>6, <2>7 DEF Next
<1>3. QED
  BY <1>1, <1>2, PublisherTyped, WindowCorrect, HeldCorrect, FreshCorrect,
     SpeaksCorrect, PTL
     DEF Spec

=============================================================================
