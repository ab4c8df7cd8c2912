----------------------- MODULE ToolListAdvertisement -----------------------
(***************************************************************************)
(* What publication promises, with no drain, no dirty bit and no epoch:     *)
(* while a window is open the agent is advertised tool sets derived from a  *)
(* registry and a record of that very window, never the same one twice      *)
(* running, and a page that settles is eventually advertised as it stands   *)
(* (docs/design.md, "The tool list is derived"), unless failures are being  *)
(* reported.                                                                *)
(***************************************************************************)
EXTENDS DerivedListing

VARIABLES registry, record, window, registries, records, advertised, failing

vars == <<registry, record, window, registries, records, advertised, failing>>

Init ==
  /\ registry \in Registries
  /\ record \in Records
  /\ window = FALSE
  /\ registries = {}
  /\ records = {}
  /\ advertised = None
  /\ failing = FALSE

(* The page moves; an open window remembers what it has been. *)
Move ==
  /\ registry' \in Registries
  /\ record' \in Records
  /\ registries' = IF window THEN registries \cup {registry'} ELSE registries
  /\ records' = IF window THEN records \cup {record'} ELSE records
  /\ failing' \in BOOLEAN
  /\ UNCHANGED <<window, advertised>>

OpenWindow ==
  /\ ~window
  /\ window' = TRUE
  /\ registries' = {registry}
  /\ records' = {record}
  /\ UNCHANGED <<registry, record, advertised, failing>>

(* The baseline or a notification: the agent now holds another tool set. *)
Advertise ==
  /\ window
  /\ \E r \in registries, o \in records : advertised' = Derived(r, o)
  /\ advertised' # advertised
  /\ failing' \in BOOLEAN
  /\ UNCHANGED <<registry, record, window, registries, records>>

(* A failure is reported, or a new attempt withdraws the report. *)
Report ==
  /\ failing' = ~failing
  /\ UNCHANGED <<registry, record, window, registries, records, advertised>>

CloseWindow ==
  /\ window' = FALSE
  /\ advertised' = None
  /\ registries' = {} /\ records' = {}
  /\ UNCHANGED <<registry, record, failing>>

Next == Move \/ OpenWindow \/ Advertise \/ Report \/ CloseWindow

Spec ==
  /\ Init
  /\ [][Next]_vars
  /\ \A r \in Registries, o \in Records :
       <>[](window /\ registry = r /\ record = o)
         => []<>(advertised = Derived(r, o) \/ failing)

=============================================================================
