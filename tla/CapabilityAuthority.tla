------------------------- MODULE CapabilityAuthority -------------------------
(***************************************************************************)
(* What an agent may reach, from the `capabilities` an application writes on *)
(* the provider to the set its gates read (security/normalize.ts,            *)
(* react/provider.tsx): normalised in every render, in force from the commit *)
(* on, reported and announced by the commit's passive effects.               *)
(*                                                                         *)
(* A render is a proposal. React may drop one, or begin the next before it   *)
(* commits; it runs a commit's passive effects before it begins another.     *)
(***************************************************************************)
EXTENDS Naturals, Sequences

CONSTANTS
  Written,     \* what the application may write
  Builds,      \* of "development" and "production"
  MaxRenders,  \* bound on the renders begun
  MaxAttempts, \* bound on the connection attempts
  Nothing      \* undefined

(* Of what an application writes as `dom`, only an object has members.       *)
ASSUME WrittenAssumption ==
  \A value \in Written :
    "dom" \in DOMAIN value.own /\ value.own["dom"].is # "object" => value.own["dom"].own = <<>>

VARIABLES
  build,     \* IS_DEVELOPMENT
  proposal,  \* the render begun and not committed
  committed, \* the render committed last: what was written, and its hasStarted
  started,   \* hasStarted, as the next render reads it
  passive,   \* the effects this commit still owes, by name
  inForce,   \* capabilitiesRef
  proposed,  \* signatureRef
  announced, \* announcedSignatureRef
  bridge,    \* the mount effect has got past its gate
  runtime,   \* none, connecting or serving
  notified,  \* the agent has been notified and has not listed since
  listed,    \* the authority the agent last listed under
  operator,  \* the problems last reported
  gone,      \* the provider was unmounted
  renders, attempts,
  everUsable, honest \* history: a usable set has committed; this connection's
                     \* baseline was what was in force

authVars == <<build, proposal, committed, started, passive, inForce, proposed, announced, bridge,
              runtime, notified, listed, operator, gone, renders, attempts, everUsable, honest>>

-----------------------------------------------------------------------------
(***************************************************************************)
(* Normalisation. A value is a record: what it `is` (a boolean, undefined,   *)
(* some other primitive or an array, an object, an object that refuses to    *)
(* list its keys, or a getter that throws), its own members and those it     *)
(* inherits. An authority is the path of the member that grants it.          *)
(***************************************************************************)
BooleanMembers == {"application", "evaluate"}
DomAuthorities == {"inspect", "interact"}
CapabilityMembers == BooleanMembers \cup {"dom"}

Problem(kind, path) == [problem |-> kind, at |-> path]

(* Faulty Own: a plain index, which follows the prototype chain.             *)
OwnOrInherited(value) == DOMAIN value.own \cup DOMAIN value.inherited

Own(value) == DOMAIN value.own

Member(value, key) == IF key \in DOMAIN value.own THEN value.own[key] ELSE value.inherited[key]

Flag(value, key) == key \in Own(value) /\ Member(value, key).is = "true"

UnknownMembers(value, path, known) ==
  {Problem("unknownMember", Append(path, key)) : key \in DOMAIN value.own \ known}

FlagProblems(value, path, keys) ==
  LET reads(key) == Member(value, key).is
      present == Own(value) \cap keys
  IN {Problem("unreadable", Append(path, key)) : key \in {k \in present : reads(k) = "throws"}}
     \cup {Problem("notABoolean", Append(path, key)) :
             key \in {k \in present : reads(k) \notin {"true", "false", "undefined", "throws"}}}

NoDom == [is |-> "undefined", own |-> <<>>, inherited |-> <<>>]
Dom(value) == IF "dom" \in Own(value) THEN Member(value, "dom") ELSE NoDom

DomProblems(dom) ==
  CASE dom.is = "undefined" -> {}
    [] dom.is = "throws" -> {Problem("unreadable", <<"dom">>)}
    [] dom.is = "object" -> UnknownMembers(dom, <<"dom">>, DomAuthorities)
                            \cup FlagProblems(dom, <<"dom">>, DomAuthorities)
    [] OTHER -> {Problem("notAnObject", <<"dom">>)}

(* A refusal to list keys, at either depth, loses what was found before it.  *)
Problems(value) ==
  CASE value.is = "object" /\ Dom(value).is # "refusing" ->
         UnknownMembers(value, <<>>, CapabilityMembers)
         \cup FlagProblems(value, <<>>, BooleanMembers) \cup DomProblems(Dom(value))
    [] value.is \in {"object", "refusing"} -> {Problem("unreadable", <<>>)}
    [] OTHER -> {Problem("notAnObject", <<>>)}

Usable(value) == Problems(value) = {}

(* One problem anywhere denies everything. The set of the authorities granted *)
(* is also their signature.                                                *)
Granted(value) ==
  IF ~Usable(value) THEN {}
  ELSE {<<key>> : key \in {k \in BooleanMembers : Flag(value, k)}}
       \cup {<<"dom", half>> : half \in {h \in DomAuthorities : Flag(Dom(value), h)}}

-----------------------------------------------------------------------------
AuthorityInit ==
  /\ build \in Builds
  /\ proposal = Nothing /\ committed = Nothing
  /\ started = FALSE /\ passive = {}
  /\ inForce = {} /\ proposed = {} /\ announced = Nothing
  /\ bridge = FALSE /\ runtime = "none" /\ notified = FALSE /\ listed = Nothing
  /\ operator = {}
  /\ gone = FALSE /\ renders = 0 /\ attempts = 0
  /\ everUsable = FALSE /\ honest = TRUE

(* The mount effect's cleanup. *)
TearDown ==
  /\ gone' = TRUE
  /\ bridge' = FALSE /\ runtime' = "none" /\ announced' = Nothing
  /\ notified' = FALSE /\ listed' = Nothing
  /\ proposal' = Nothing /\ passive' = {}

(* A render: the application's, or the one setHasStarted asks for. Nothing it *)
(* writes is read by a gate. In development an unusable set throws, and the  *)
(* error boundary above takes the provider down.                             *)
Render(value) ==
  /\ ~gone /\ passive = {} /\ renders < MaxRenders
  /\ renders' = renders + 1
  /\ proposed' = Granted(value)
  /\ IF build = "development" /\ ~Usable(value)
     THEN TearDown
     ELSE /\ proposal' = [written |-> value, started |-> started]
          /\ UNCHANGED <<passive, announced, bridge, runtime, notified, listed, gone>>
  /\ UNCHANGED <<build, committed, started, inForce, operator, attempts, everUsable, honest>>

(* React drops it: interrupted, superseded, or its tree threw further down.  *)
Drop ==
  /\ proposal # Nothing
  /\ proposal' = Nothing
  /\ UNCHANGED <<build, committed, started, passive, inForce, proposed, announced, bridge, runtime,
                 notified, listed, operator, gone, renders, attempts, everUsable, honest>>

(* The effects whose dependencies this commit changes. *)
Due(before, after) ==
  IF before = Nothing THEN {"mount", "report", "announce"}
  ELSE {e \in {"mount", "report", "announce"} :
          CASE e = "mount" -> before.started # after.started
            [] e = "report" -> Problems(before.written) # Problems(after.written)
            [] OTHER -> Granted(before.written) # Granted(after.written)}

(* The commit, with its layout effect. *)
Commits ==
  /\ proposal # Nothing
  /\ committed' = proposal /\ proposal' = Nothing
  /\ inForce' = Granted(proposal.written)
  /\ started' = (started \/ Usable(proposal.written))
  /\ everUsable' = (everUsable \/ Usable(proposal.written))
  /\ passive' = Due(committed, proposal)
  /\ UNCHANGED <<build, proposed, announced, bridge, runtime, notified, listed, operator, gone, renders,
                 attempts, honest>>

(* The mount effect's gate. *)
Opens(render) == render.started

(* Faulty Announces: what was announced is kept from the first announcement. *)
AnnouncesOnce(signature) == announced

(* What the announcement leaves in announcedSignatureRef.                    *)
Announces(signature) == signature

(* The passive effects, in the order of their declaration.                   *)
PassiveEffects ==
  LET signature == Granted(committed.written)
      changed == "announce" \in passive /\ runtime # "none" /\ announced # signature
  IN /\ passive # {}
     /\ passive' = {}
     /\ bridge' = IF "mount" \in passive THEN Opens(committed) ELSE bridge
     /\ operator' = IF "report" \in passive /\ ~Usable(committed.written)
                    THEN Problems(committed.written) ELSE operator
     /\ announced' = IF changed THEN Announces(signature) ELSE announced
     /\ notified' = (notified \/ (changed /\ runtime = "serving"))
     /\ UNCHANGED <<build, proposal, committed, started, inForce, proposed, runtime, listed, gone,
                    renders, attempts, everUsable, honest>>

Unmounts ==
  /\ committed # Nothing /\ ~gone
  /\ TearDown
  /\ UNCHANGED <<build, committed, started, inForce, proposed, operator, renders, attempts,
                 everUsable, honest>>

-----------------------------------------------------------------------------
(***************************************************************************)
(* The connection, and the agent behind it, which lists once and then when   *)
(* it is notified. That a signal becomes a notification is                   *)
(* ToolListPublisher's.                                                     *)
(***************************************************************************)
(* One attempt of the lifecycle: a runtime, and its baseline.                *)
Attempts ==
  /\ bridge /\ runtime = "none" /\ attempts < MaxAttempts
  /\ attempts' = attempts + 1
  /\ runtime' = "connecting"
  /\ announced' = proposed
  /\ honest' = (proposed = inForce)
  /\ UNCHANGED <<build, proposal, committed, started, passive, inForce, proposed, bridge, notified,
                 listed, operator, gone, renders, everUsable>>

Connects ==
  /\ runtime = "connecting"
  /\ runtime' = "serving"
  /\ UNCHANGED <<build, proposal, committed, started, passive, inForce, proposed, announced, bridge,
                 notified, listed, operator, gone, renders, attempts, everUsable, honest>>

Disconnects ==
  /\ runtime # "none"
  /\ runtime' = "none" /\ notified' = FALSE /\ listed' = Nothing
  /\ UNCHANGED <<build, proposal, committed, started, passive, inForce, proposed, announced, bridge,
                 operator, gone, renders, attempts, everUsable, honest>>

Lists ==
  /\ runtime = "serving" /\ (listed = Nothing \/ notified)
  /\ listed' = [under |-> inForce] /\ notified' = FALSE
  /\ UNCHANGED <<build, proposal, committed, started, passive, inForce, proposed, announced, bridge,
                 runtime, operator, gone, renders, attempts, everUsable, honest>>

-----------------------------------------------------------------------------
AuthorityNext ==
  \/ \E value \in Written : Render(value)
  \/ Drop \/ Commits \/ PassiveEffects \/ Unmounts
  \/ Attempts \/ Connects \/ Disconnects \/ Lists

AuthoritySpec == AuthorityInit /\ [][AuthorityNext]_authVars

(* Nothing of a render is left to be done, the one hasStarted asks for        *)
(* included.                                                               *)
AtRest ==
  /\ ~gone /\ committed # Nothing /\ proposal = Nothing /\ passive = {}
  /\ started = committed.started

-----------------------------------------------------------------------------
(* No authority is in force that the application did not write, as a member   *)
(* of its own that reads true, in the set of the last commit, with nothing    *)
(* beside it that is no capability: not one a dropped render proposed, nor    *)
(* one that is inherited or half understood (provider.tsx, useCommitEffect;   *)
(* normalize.ts, read).                                                      *)
AuthorityAsWritten ==
  \A authority \in inForce :
    LET set == committed.written
        holder == IF Len(authority) = 1 THEN set ELSE set.own["dom"]
    IN /\ committed # Nothing
       /\ DOMAIN set.own \subseteq CapabilityMembers
       /\ "dom" \in DOMAIN set.own => DOMAIN set.own["dom"].own \subseteq DomAuthorities
       /\ authority[Len(authority)] \in DOMAIN holder.own
       /\ holder.own[authority[Len(authority)]].is = "true"

(* At rest the bridge stands exactly if a usable set has ever committed, and  *)
(* one that becomes unreadable later denies every call without taking it      *)
(* down; the operator has been told what is wrong with an unusable set; and   *)
(* an agent that owes no listing knows the authority in force, if its         *)
(* connection's baseline was the authority of that moment (provider.tsx, the  *)
(* mount effect's gate, the report and the announcement).                     *)
SettlesAsWritten ==
  AtRest =>
    /\ bridge <=> everUsable
    /\ ~Usable(committed.written) => operator = Problems(committed.written)
    /\ listed # Nothing /\ ~notified /\ honest => listed.under = inForce

(* The announcement's purpose: no agent works from a listing that no longer    *)
(* describes what it can call (provider.tsx, the announcement effect).        *)
AgentTold ==
  AtRest /\ listed # Nothing /\ ~notified => listed.under = inForce
=============================================================================
