------------------------------- MODULE MCParts -------------------------------
(***************************************************************************)
(* The parts that share no state with any other, each on a small instance.    *)
(* Which of them moves is chosen at the start; the others stay as they begin. *)
(***************************************************************************)
EXTENDS DomTools, CapabilityAuthority, InspectionChannel, RenderBarrier, ObservationBus,
        ConfirmationSurface, AgentGateway, AgentChat, ComposableBoard

VARIABLE part

-----------------------------------------------------------------------------
(***************************************************************************)
(* DomTools: what the application renders.                                 *)
(***************************************************************************)
Plain ==
  [tag |-> "DIV", type |-> "text", role |-> "", flags |-> {}, labelledby |-> NoName,
   label |-> NoName, labels |-> NoName, alt |-> NoName, title |-> NoName, text |-> NoName,
   value |-> NoName, options |-> {}]

Fieldset == [Plain EXCEPT !.tag = "FIELDSET"]
Button == [Plain EXCEPT !.tag = "BUTTON", !.text = "Acme"]

OnePage == <<0, 1>>
FieldsetLooks ==
  <<{Fieldset, [Fieldset EXCEPT !.flags = {"disabled"}],
     [Fieldset EXCEPT !.role = "region", !.title = "Customer"]},
    {Button, [Button EXCEPT !.text = "Zenith"], [Button EXCEPT !.flags = {"aria-disabled"}],
     [Plain EXCEPT !.tag = "INPUT", !.label = "Acme", !.value = "old"],
     [Plain EXCEPT !.tag = "INPUT", !.type = "hidden", !.role = "button", !.label = "Acme"],
     [Plain EXCEPT !.tag = "SELECT", !.labels = "Acme", !.options = {"old", "new"},
                   !.value = "old"]}>>
-----------------------------------------------------------------------------
(***************************************************************************)
(* CapabilityAuthority: what the application writes.                       *)
(***************************************************************************)
Is(what) == [is |-> what, own |-> <<>>, inherited |-> <<>>]
Object(members) == [is |-> "object", own |-> members, inherited |-> <<>>]

(* Two usable sets; one that inherits a member; a misspelt one; `dom: true`   *)
(* beside a getter that throws; and a DOM pair that refuses to be listed.     *)
CapabilitySets ==
  {Object([application |-> Is("true"), dom |-> Object([inspect |-> Is("true")])]),
   [Object([application |-> Is("true")]) EXCEPT !.inherited = [evaluate |-> Is("true")]],
   Object([application |-> Is("true"), storage |-> Is("true")]),
   Object([dom |-> Is("true"), evaluate |-> Is("throws")]),
   Object([application |-> Is("other"), dom |-> Is("refusing")])}

-----------------------------------------------------------------------------
(***************************************************************************)
(* AgentChat: a tool appears whose name the model cannot tell from another's. *)
(***************************************************************************)
ClashingNames == {"a.b", "a__b", "c"}
GrowingTools == <<{"a.b"}, {"a.b", "a__b"}>>
OneApiName == [name \in ClashingNames |-> IF name = "c" THEN "c" ELSE "a__b"]

-----------------------------------------------------------------------------
(***************************************************************************)
(* ComposableBoard: tables and a form. One batch is of a pair the catalog     *)
(* does not admit, beside one that it does.                                 *)
(***************************************************************************)
PanelCatalog == [table |-> {"accounts"}, form |-> {"accounts"}]
PanelFields == [table |-> {"query"}, form |-> {"initial_password"}]

Panel(kind, source) == [kind |-> kind, source |-> source]
PanelBatches ==
  {<<Panel("form", "accounts"), Panel("table", "accounts")>>,
   <<Panel("table", "accounts"), Panel("form", "deals")>>}

-----------------------------------------------------------------------------
(***************************************************************************)
(* The parts, side by side.                                                *)
(***************************************************************************)
domSide == <<vars, authVars, channelVars>>
callSide == <<barrierVars, busVars, promptVars>>
agentSide == <<gatewayVars, chatVars, boardVars>>

(* One initial page and address will do: every other is a step away.         *)
FirstLook == [n \in Nodes |-> CHOOSE look \in Looks[n] : TRUE]

(* The providers are interchangeable: the first channel is one provider's,    *)
(* whose status is the one that moves.                                      *)
FirstProvider == CHOOSE p \in Providers : TRUE
FirstComesFirst ==
  /\ owner' # <<>> => owner'[1] = FirstProvider
  /\ \A p \in Providers \ {FirstProvider} : UNCHANGED snapshot[p]

MCInit ==
  /\ part \in {"dom", "authority", "channel", "barrier", "bus", "prompts", "gateway", "chat", "board"}
  /\ Init /\ page = FirstLook /\ url = CHOOSE u \in Urls : TRUE
  /\ AuthorityInit /\ (part # "authority" => build = "production")
  /\ ChannelInit /\ snapshot \in [Providers -> {"disconnected"}]
  /\ BarrierInit /\ BusInit /\ PromptInit /\ GatewayInit /\ ChatInit /\ BoardInit

DomSide ==
  \/ part = "dom" /\ Next /\ UNCHANGED <<authVars, channelVars>>
  \/ part = "authority" /\ AuthorityNext /\ UNCHANGED <<vars, channelVars>>
  \/ part = "channel" /\ ChannelNext /\ FirstComesFirst /\ UNCHANGED <<vars, authVars>>

CallSide ==
  \/ part = "barrier" /\ BarrierNext /\ UNCHANGED <<busVars, promptVars>>
  \/ part = "bus" /\ BusNext /\ UNCHANGED <<barrierVars, promptVars>>
  \/ part = "prompts" /\ PromptNext /\ UNCHANGED <<barrierVars, busVars>>

AgentSide ==
  \/ part = "gateway" /\ GatewayNext /\ UNCHANGED <<chatVars, boardVars>>
  \/ part = "chat" /\ ChatNext /\ UNCHANGED <<gatewayVars, boardVars>>
  \/ part = "board" /\ BoardNext /\ UNCHANGED <<gatewayVars, chatVars>>

MCNext ==
  /\ UNCHANGED part
  /\ \/ DomSide /\ UNCHANGED <<callSide, agentSide>>
     \/ CallSide /\ UNCHANGED <<domSide, agentSide>>
     \/ AgentSide /\ UNCHANGED <<domSide, callSide>>

(* The fairness of the parts whose liveness is checked; what it asks for is   *)
(* disabled in a part's initial state.                                      *)
MCSpec ==
  /\ MCInit /\ [][MCNext]_<<part, domSide, callSide, agentSide>>
  /\ BarrierFairness /\ GatewayFairness /\ ChatFairness

TypesOK ==
  TypeOK /\ BarrierTypeOK /\ BusTypeOK /\ GatewayTypeOK /\ ChatTypeOK

(* Whoever waits is waiting for something that is still to come: a handler for *)
(* a commit and its drain, a subscriber for a drain, a call for its prompt, a  *)
(* request or a shutdown for a close event. None is left behind by the step   *)
(* that was to serve it (provider.tsx, afterRender; observation.ts, publish;  *)
(* ConfirmationDialog.tsx; runtime.ts and gateway.ts, close).                *)
WaitersAreServed ==
  NobodyMissesTheDrain /\ HeardAtRest /\ EveryOpenCallIsInLine /\ NobodyIsStranded
=============================================================================
