--------------------------- MODULE OperatorProofs ---------------------------
(***************************************************************************)
(* Theorems of what the operator of a page decides and sees: the authority  *)
(* in force, the inspector's panel, the bus that observers hear, and the    *)
(* dialog a call waits in for a person's decision.                          *)
(***************************************************************************)
EXTENDS CapabilityAuthority, InspectionChannel, ObservationBus, ConfirmationSurface,
        WellFoundedInduction, TLAPS

-----------------------------------------------------------------------------
(***************************************************************************)
(* CapabilityAuthority: what is in force is what the last commit's set     *)
(* grants, and what a set grants is written in it.                         *)
(***************************************************************************)
-----------------------------------------------------------------------------
(* An unusable set is told apart from a usable one by what it is; a usable    *)
(* one has no member that is no capability, at either depth.                 *)
LEMMA UsableMembers ==
  ASSUME NEW value \in Written, Usable(value)
  PROVE  /\ DOMAIN value.own \subseteq CapabilityMembers
         /\ "dom" \in DOMAIN value.own => DOMAIN value.own["dom"].own \subseteq DomAuthorities
<1>1. /\ UnknownMembers(value, <<>>, CapabilityMembers) = {}
      /\ DomProblems(Dom(value)) = {}
  BY DEF Usable, Problems
<1>2. DOMAIN value.own \subseteq CapabilityMembers
  BY <1>1 DEF UnknownMembers
<1>3. ASSUME "dom" \in DOMAIN value.own
      PROVE  DOMAIN value.own["dom"].own \subseteq DomAuthorities
  <2>1. Dom(value) = value.own["dom"]
    BY <1>3 DEF Dom, Own, Member
  <2>2. CASE value.own["dom"].is # "object"
    BY <1>3, <2>2, WrittenAssumption
  <2>3. CASE value.own["dom"].is = "object"
    <3>1. UnknownMembers(value.own["dom"], <<"dom">>, DomAuthorities) = {}
      BY <1>1, <2>1, <2>3 DEF DomProblems
    <3> QED BY <3>1 DEF UnknownMembers
  <2> QED BY <2>2, <2>3
<1> QED BY <1>2, <1>3

(* What AuthorityAsWritten says of one authority and the set it comes from.   *)
WrittenIn(authority, set) ==
  LET holder == IF Len(authority) = 1 THEN set ELSE set.own["dom"]
  IN /\ DOMAIN set.own \subseteq CapabilityMembers
     /\ "dom" \in DOMAIN set.own => DOMAIN set.own["dom"].own \subseteq DomAuthorities
     /\ authority[Len(authority)] \in DOMAIN holder.own
     /\ holder.own[authority[Len(authority)]].is = "true"

LEMMA GrantedIsWritten ==
  ASSUME NEW value \in Written, NEW authority \in Granted(value)
  PROVE  WrittenIn(authority, value)
<1>1. Usable(value)
  BY DEF Granted
<1>2. CASE \E k \in BooleanMembers : authority = <<k>> /\ Flag(value, k)
  <2>1. PICK k \in BooleanMembers : authority = <<k>> /\ Flag(value, k)
    BY <1>2
  <2>2. Len(authority) = 1 /\ authority[1] = k
    BY <2>1
  <2>3. k \in DOMAIN value.own /\ value.own[k].is = "true"
    BY <2>1 DEF Flag, Own, Member
  <2> QED BY <1>1, <2>2, <2>3, UsableMembers DEF WrittenIn
<1>3. CASE \E h \in DomAuthorities : authority = <<"dom", h>> /\ Flag(Dom(value), h)
  <2>1. PICK h \in DomAuthorities : authority = <<"dom", h>> /\ Flag(Dom(value), h)
    BY <1>3
  <2>2. Len(authority) = 2 /\ authority[2] = h
    BY <2>1
  <2>3. h \in DOMAIN Dom(value).own /\ Dom(value).own[h].is = "true"
    BY <2>1 DEF Flag, Own, Member
  <2>4. "dom" \in DOMAIN value.own /\ Dom(value) = value.own["dom"]
    BY <2>3 DEF Dom, NoDom, Own, Member
  <2> QED BY <1>1, <2>2, <2>3, <2>4, UsableMembers DEF WrittenIn
<1> QED BY <1>1, <1>2, <1>3 DEF Granted

-----------------------------------------------------------------------------
(* A proposal and a commit are of what the application wrote, and nothing is  *)
(* in force but by a commit.                                                *)
AuthorityInv ==
  /\ proposal # Nothing => proposal.written \in Written
  /\ inForce # {} => /\ committed # Nothing /\ committed.written \in Written
                     /\ inForce = Granted(committed.written)

LEMMA AuthorityStep ==
  ASSUME AuthorityInv, [AuthorityNext]_authVars
  PROVE  AuthorityInv'
<1>1. ASSUME NEW value \in Written, Render(value) PROVE AuthorityInv'
  <2>1. UNCHANGED <<committed, inForce>>
    BY <1>1 DEF Render
  <2>2. proposal' # Nothing => proposal'.written \in Written
    BY <1>1 DEF Render, TearDown
  <2> QED BY <2>1, <2>2 DEF AuthorityInv
<1>2. CASE Commits
  BY <1>2 DEF AuthorityInv, Commits
<1>3. CASE Drop
  BY <1>3 DEF AuthorityInv, Drop
<1>4. CASE Unmounts
  BY <1>4 DEF AuthorityInv, Unmounts, TearDown
<1>5. CASE UNCHANGED <<proposal, committed, inForce>>
  BY <1>5 DEF AuthorityInv
<1>6. CASE PassiveEffects \/ Attempts \/ Connects \/ Disconnects \/ Lists \/ UNCHANGED authVars
  BY <1>5, <1>6 DEF PassiveEffects, Attempts, Connects, Disconnects, Lists, authVars
<1> QED BY <1>1, <1>2, <1>3, <1>4, <1>6 DEF AuthorityNext

LEMMA AuthorityInvHolds == AuthoritySpec => []AuthorityInv
<1>1. AuthorityInit => AuthorityInv
  BY DEF AuthorityInit, AuthorityInv
<1>2. AuthorityInv /\ [AuthorityNext]_authVars => AuthorityInv'
  BY AuthorityStep
<1> QED BY <1>1, <1>2, PTL DEF AuthoritySpec

(* Nothing is in force that the last commit's set does not say, whatever      *)
(* renders were begun, dropped or threw, for any values an application may    *)
(* write (provider.tsx, useCommitEffect; normalize.ts, read).                *)
THEOREM InForceAsWritten == AuthoritySpec => []AuthorityAsWritten
<1>1. AuthorityInv => AuthorityAsWritten
  BY GrantedIsWritten DEF AuthorityInv, AuthorityAsWritten, WrittenIn
<1> QED BY <1>1, AuthorityInvHolds, PTL

-----------------------------------------------------------------------------
(* What a mounted provider keeps, from one step of React's to the next. A     *)
(* proposal is made of the hasStarted that commits with it, and after the     *)
(* effects a commit owes: an effect a commit does not owe would have done     *)
(* again what is done.                                                       *)
CommitsKept ==
  /\ committed = Nothing =>
       /\ ~started /\ ~everUsable /\ ~bridge
       /\ passive = {} /\ runtime = "none"
  /\ started = everUsable
  /\ proposal # Nothing => /\ passive = {}
                           /\ proposal.started = started
  /\ committed # Nothing => inForce = Granted(committed.written)

(* What an effect that is not owed has left behind. *)
EffectsKept ==
  committed # Nothing =>
    /\ "mount" \notin passive => bridge = committed.started
    /\ "report" \notin passive /\ ~Usable(committed.written) => operator = Problems(committed.written)
    /\ runtime # "none" /\ honest /\ "announce" \notin passive => announced = inForce

(* An agent that owes no listing knows the authority in force, or the         *)
(* announcement that will tell it of the new one is owed.                    *)
ListingKept ==
  /\ listed # Nothing => runtime = "serving"
  /\ listed # Nothing /\ honest /\ ~notified =>
       \/ listed.under = inForce
       \/ "announce" \in passive /\ listed.under = announced

SettlingInv == ~gone => CommitsKept /\ EffectsKept /\ ListingKept

LEMMA RenderSettles ==
  ASSUME SettlingInv, NEW value \in Written, Render(value)
  PROVE  SettlingInv'
<1> SUFFICES ASSUME ~gone' PROVE (CommitsKept /\ EffectsKept /\ ListingKept)'
  BY DEF SettlingInv
<1>1. /\ ~gone /\ passive = {}
      /\ proposal' = [written |-> value, started |-> started]
      /\ UNCHANGED <<committed, started, passive, inForce, announced, bridge, runtime, notified,
                     listed, operator, everUsable, honest>>
  BY DEF Render, TearDown
<1>2. CommitsKept /\ EffectsKept /\ ListingKept
  BY <1>1 DEF SettlingInv
<1>3. CommitsKept'
  BY <1>1, <1>2 DEF CommitsKept
<1>4. EffectsKept'
  BY <1>1, <1>2 DEF EffectsKept
<1>5. ListingKept'
  BY <1>1, <1>2 DEF ListingKept
<1> QED BY <1>3, <1>4, <1>5

LEMMA CommitSettles ==
  ASSUME SettlingInv, Commits
  PROVE  SettlingInv'
<1> SUFFICES ASSUME ~gone' PROVE (CommitsKept /\ EffectsKept /\ ListingKept)'
  BY DEF SettlingInv
<1> DEFINE set == proposal.written
<1>1. /\ ~gone /\ proposal # Nothing /\ proposal' = Nothing /\ committed' = proposal
      /\ inForce' = Granted(set)
      /\ started' = (started \/ Usable(set)) /\ everUsable' = (everUsable \/ Usable(set))
      /\ passive' = Due(committed, proposal)
      /\ UNCHANGED <<announced, bridge, runtime, notified, listed, operator, honest>>
  BY DEF Commits
<1>2. CommitsKept /\ EffectsKept /\ ListingKept
  BY <1>1 DEF SettlingInv
<1>3. passive = {} /\ proposal.started = started
  BY <1>1, <1>2 DEF CommitsKept
<1>4. CommitsKept'
  BY <1>1, <1>2 DEF CommitsKept
<1>5. CASE committed = Nothing
  <2>1. passive' = {"mount", "report", "announce"} /\ runtime' = "none"
    BY <1>1, <1>2, <1>5 DEF Due, CommitsKept
  <2>2. EffectsKept'
    BY <2>1 DEF EffectsKept
  <2>3. listed' = Nothing
    BY <1>1, <1>2, <2>1 DEF ListingKept
  <2>4. ListingKept'
    BY <2>3 DEF ListingKept
  <2> QED BY <1>4, <2>2, <2>4
<1>6. CASE committed # Nothing
  <2>1. /\ "mount" \notin passive' => committed.started = proposal.started
        /\ "report" \notin passive' => Problems(committed.written) = Problems(set)
        /\ "announce" \notin passive' => Granted(committed.written) = Granted(set)
    BY <1>1, <1>6 DEF Due
  <2>2. /\ bridge = committed.started
        /\ ~Usable(committed.written) => operator = Problems(committed.written)
        /\ runtime # "none" /\ honest => announced = inForce
    BY <1>2, <1>3, <1>6 DEF EffectsKept
  <2>3. inForce = Granted(committed.written)
    BY <1>2, <1>6 DEF CommitsKept
  <2>4. "mount" \notin passive' => bridge' = committed'.started
    BY <1>1, <2>1, <2>2
  <2>5. ASSUME "report" \notin passive', ~Usable(committed'.written)
        PROVE  operator' = Problems(committed'.written)
    <3>1. Problems(committed.written) = Problems(set) /\ ~Usable(set)
      BY <1>1, <2>1, <2>5
    <3>2. ~Usable(committed.written)
      BY <3>1 DEF Usable
    <3> QED BY <1>1, <2>2, <3>1, <3>2
  <2>6. runtime' # "none" /\ honest' /\ "announce" \notin passive' => announced' = inForce'
    BY <1>1, <2>1, <2>2, <2>3
  <2>7. EffectsKept'
    BY <2>4, <2>5, <2>6 DEF EffectsKept
  <2>8. ListingKept'
    <3>1. ASSUME listed # Nothing, honest, ~notified
          PROVE  \/ listed.under = inForce'
                 \/ "announce" \in passive' /\ listed.under = announced
      <4>1. listed.under = inForce /\ announced = inForce
        BY <1>2, <1>3, <2>2, <3>1 DEF ListingKept
      <4> QED BY <1>1, <2>1, <2>3, <4>1
    <3> QED BY <1>1, <1>2, <3>1 DEF ListingKept
  <2> QED BY <1>4, <2>7, <2>8
<1> QED BY <1>5, <1>6

LEMMA EffectsSettle ==
  ASSUME SettlingInv, PassiveEffects
  PROVE  SettlingInv'
<1> SUFFICES ASSUME ~gone' PROVE (CommitsKept /\ EffectsKept /\ ListingKept)'
  BY DEF SettlingInv
<1> DEFINE signature == Granted(committed.written)
           changed == "announce" \in passive /\ runtime # "none" /\ announced # signature
<1>1. /\ ~gone /\ passive # {} /\ passive' = {}
      /\ bridge' = IF "mount" \in passive THEN committed.started ELSE bridge
      /\ operator' = IF "report" \in passive /\ ~Usable(committed.written)
                     THEN Problems(committed.written) ELSE operator
      /\ announced' = IF changed THEN signature ELSE announced
      /\ notified' = (notified \/ (changed /\ runtime = "serving"))
      /\ UNCHANGED <<proposal, committed, started, inForce, runtime, listed, everUsable, honest>>
  BY DEF PassiveEffects, Opens, Announces
<1>2. CommitsKept /\ EffectsKept /\ ListingKept
  BY <1>1 DEF SettlingInv
<1>3. committed # Nothing /\ proposal = Nothing /\ inForce = signature
  BY <1>1, <1>2 DEF CommitsKept
<1>4. CommitsKept'
  BY <1>1, <1>2, <1>3 DEF CommitsKept
<1>5. EffectsKept'
  <2>1. bridge' = committed.started
    BY <1>1, <1>2, <1>3 DEF EffectsKept
  <2>2. ~Usable(committed.written) => operator' = Problems(committed.written)
    BY <1>1, <1>2, <1>3 DEF EffectsKept
  <2>3. runtime # "none" /\ honest => announced' = inForce
    BY <1>1, <1>2, <1>3 DEF EffectsKept
  <2> QED BY <1>1, <2>1, <2>2, <2>3 DEF EffectsKept
<1>6. ListingKept'
  <2>1. ASSUME listed # Nothing, honest, ~notified'
        PROVE  listed.under = inForce
    <3>1. runtime = "serving" /\ ~notified /\ ~changed
      BY <1>1, <1>2, <2>1 DEF ListingKept
    <3> QED BY <1>2, <1>3, <2>1, <3>1 DEF ListingKept
  <2> QED BY <1>1, <1>2, <2>1 DEF ListingKept
<1> QED BY <1>4, <1>5, <1>6

LEMMA ConnectionSettles ==
  ASSUME SettlingInv, Attempts \/ Connects \/ Disconnects \/ Lists
  PROVE  SettlingInv'
<1> SUFFICES ASSUME ~gone' PROVE (CommitsKept /\ EffectsKept /\ ListingKept)'
  BY DEF SettlingInv
<1>1. /\ ~gone
      /\ UNCHANGED <<proposal, committed, started, passive, inForce, bridge, operator, everUsable>>
  BY DEF Attempts, Connects, Disconnects, Lists
<1>2. CommitsKept /\ EffectsKept /\ ListingKept
  BY <1>1 DEF SettlingInv
<1>3. committed = Nothing => runtime' = "none"
  BY <1>2 DEF CommitsKept, Attempts, Connects, Disconnects, Lists
<1>4. CommitsKept'
  BY <1>1, <1>2, <1>3 DEF CommitsKept
<1>5. EffectsKept'
  <2>1. ASSUME committed # Nothing, runtime' # "none", honest', "announce" \notin passive
        PROVE  announced' = inForce
    BY <1>2, <2>1 DEF EffectsKept, Attempts, Connects, Disconnects, Lists
  <2> QED BY <1>1, <1>2, <2>1 DEF EffectsKept
<1>6. ListingKept'
  <2>1. CASE Attempts
    <3>1. listed' = Nothing
      BY <1>2, <2>1 DEF Attempts, ListingKept
    <3> QED BY <3>1 DEF ListingKept
  <2>2. CASE Connects
    BY <1>2, <2>2 DEF Connects, ListingKept
  <2>3. CASE Disconnects
    BY <2>3 DEF Disconnects, ListingKept
  <2>4. CASE Lists
    BY <2>4 DEF Lists, ListingKept
  <2> QED BY <2>1, <2>2, <2>3, <2>4
<1> QED BY <1>4, <1>5, <1>6

LEMMA SettlingStep ==
  ASSUME SettlingInv, [AuthorityNext]_authVars
  PROVE  SettlingInv'
<1>1. CASE Drop
  BY <1>1 DEF SettlingInv, Drop, CommitsKept, EffectsKept, ListingKept
<1>2. CASE Unmounts
  BY <1>2 DEF SettlingInv, Unmounts, TearDown
<1>3. CASE UNCHANGED authVars
  BY <1>3 DEF SettlingInv, authVars, CommitsKept, EffectsKept, ListingKept
<1> QED BY <1>1, <1>2, <1>3, RenderSettles, CommitSettles, EffectsSettle, ConnectionSettles
        DEF AuthorityNext

(* At rest the bridge stands exactly if a usable set has ever committed, the  *)
(* operator knows what is wrong with an unusable one, and an agent whose      *)
(* connection began with the authority of that moment works from a listing   *)
(* under the one in force, whatever renders React dropped in between         *)
(* (provider.tsx, the mount effect's gate, the report, the announcement).     *)
THEOREM AuthoritySettles == AuthoritySpec => []SettlesAsWritten
<1>1. AuthorityInit => SettlingInv
  BY DEF AuthorityInit, SettlingInv, CommitsKept, EffectsKept, ListingKept
<1>2. SettlingInv /\ [AuthorityNext]_authVars => SettlingInv'
  BY SettlingStep
<1>3. SettlingInv => SettlesAsWritten
  <2> SUFFICES ASSUME SettlingInv, AtRest
               PROVE  /\ bridge <=> everUsable
                      /\ ~Usable(committed.written) => operator = Problems(committed.written)
                      /\ listed # Nothing /\ ~notified /\ honest => listed.under = inForce
    BY DEF SettlesAsWritten
  <2>1. CommitsKept /\ EffectsKept /\ ListingKept
    BY DEF SettlingInv, AtRest
  <2>2. bridge = started /\ started = everUsable
    BY <2>1 DEF AtRest, CommitsKept, EffectsKept
  <2> QED BY <2>1, <2>2 DEF AtRest, EffectsKept, ListingKept
<1> QED BY <1>1, <1>2, <1>3, PTL DEF AuthoritySpec

-----------------------------------------------------------------------------
(***************************************************************************)
(* Sequences and sets of numbers.                                          *)
(***************************************************************************)
LEMMA AppendAt ==
  ASSUME NEW S, NEW q \in Seq(S), NEW e \in S
  PROVE  /\ Append(q, e) \in Seq(S) /\ Len(Append(q, e)) = Len(q) + 1
         /\ \A k \in 1..Len(q) : Append(q, e)[k] = q[k]
         /\ Append(q, e)[Len(q) + 1] = e
OBVIOUS

LEMMA JoinedAt ==
  ASSUME NEW S, NEW p \in Seq(S), NEW q \in Seq(S)
  PROVE  /\ p \o q \in Seq(S) /\ Len(p \o q) = Len(p) + Len(q)
         /\ \A k \in 1..Len(p) : (p \o q)[k] = p[k]
         /\ \A k \in 1..Len(q) : (p \o q)[Len(p) + k] = q[k]
OBVIOUS

LEMMA SequenceWidens ==
  ASSUME NEW S, NEW T, S \subseteq T, NEW q \in Seq(S)
  PROVE  q \in Seq(T)
<1>1. \A k \in 1..Len(q) : q[k] \in T
  OBVIOUS
<1>2. Len(q) \in Nat /\ q = [k \in 1..Len(q) |-> q[k]]
  OBVIOUS
<1> QED BY <1>1, <1>2

(* A set of numbers has a least one: what the sinks' order of a walk rests on. *)
LEMMA LeastExists ==
  ASSUME NEW S, S \subseteq Nat, S # {}
  PROVE  \E r \in S : \A q \in S : r <= q
<1> DEFINE Less == OpToRel(<, Nat)
<1>1. \A x, y \in Nat : <<y, x>> \in Less <=> y < x
  BY DEF OpToRel
<1>2. IsWellFoundedOn(Less, Nat)
  BY NatLessThanWellFounded
<1> HIDE DEF Less
<1>3. PICK x \in S : \A y \in S : ~(<<y, x>> \in Less)
  BY <1>2, WFMin
<1>4. \A q \in S : ~(q < x) /\ q \in Nat /\ x \in Nat
  BY <1>1, <1>3
<1> QED BY <1>4

-----------------------------------------------------------------------------
(***************************************************************************)
(* InspectionChannel: the log of a subscribed inspector says of its         *)
(* provider's calls what is so.                                            *)
(***************************************************************************)
LogEntry == [call : Nat, outcome : {"running", "ended"}]
Entries(calls) == {calls[i] : i \in 1..Len(calls)}
Installed == 1..Len(owner)
Begun == 1..Len(callOf)

ChannelTypeOK ==
  /\ owner \in Seq(Providers) /\ callOf \in Seq(Providers)
  /\ slot \in Installed \cup {NoChannel, Stranger}
  /\ channelOf \in [Providers -> Installed \cup {NoChannel}]
  /\ snapshot \in [Providers -> Snapshots]
  /\ ended \subseteq Begun
  /\ observed \in Seq(Nat) /\ Len(observed) = Len(owner)
  /\ \A channel \in Installed : observed[channel] \in 1..(Len(callOf) + 1)
  /\ sink \in Installed \cup {NoChannel}
  /\ firstSeen \in 1..(Len(callOf) + 1)

(* What is installed is its provider's, what the slot holds is installed, and *)
(* what is installed is there unless another script wrote the slot; the       *)
(* inspector's sinks are in the channel it found while that one is.           *)
InstalledInv ==
  /\ \A p \in Providers : channelOf[p] # NoChannel => owner[channelOf[p]] = p
  /\ slot \in Installed => channelOf[owner[slot]] = slot
  /\ ~meddled => \A p \in Providers : channelOf[p] # NoChannel => slot = channelOf[p]
  /\ sink # NoChannel => inspector.open /\ sink = inspector.found /\ channelOf[owner[sink]] = sink
  /\ inspector.open => inspector.found \in Installed \cup {NoChannel}
  /\ inspector.open /\ inspector.found # NoChannel
       /\ channelOf[owner[inspector.found]] = inspector.found => sink = inspector.found

OneEach(calls) == \A i, j \in 1..Len(calls) : calls[i].call = calls[j].call => i = j

(* An entry is of a call of that provider, heard of on that channel and since *)
(* the inspector was created, and says whether it runs.                      *)
Tells(e, channel) ==
  /\ e.call \in Begun /\ callOf[e.call] = owner[channel]
  /\ e.call >= observed[channel] /\ e.call >= firstSeen
  /\ e.outcome = "running" <=> e.call \notin ended

Shows(state, channel) ==
  state.drawn = [snapshot |-> {snapshot[owner[channel]]}, calls |-> Reverse(state.log),
                 truncated |-> state.truncated]

Complete(state, channel) ==
  \A c \in firstSeen..Len(callOf) :
    callOf[c] = owner[channel] => state.truncated \/ \E e \in Entries(state.log) : e.call = c

(* What the log let go is not in it. *)
NoneComesBack(state) ==
  state.gone \subseteq Begun /\ \A e \in Entries(state.log) : e.call \notin state.gone

LogTyped(state) ==
  /\ DOMAIN state = {"found", "open", "log", "truncated", "drawn", "gone"}
  /\ state.log \in Seq(LogEntry) /\ OneEach(state.log)
  /\ state.truncated \in BOOLEAN

PanelInv ==
  sink # NoChannel =>
    /\ firstSeen >= observed[sink]
    /\ LogTyped(inspector)
    /\ \A e \in Entries(inspector.log) : Tells(e, sink)
    /\ Shows(inspector, sink) /\ Complete(inspector, sink)
    /\ NoneComesBack(inspector)

ChannelInv == ChannelTypeOK /\ InstalledInv /\ PanelInv

-----------------------------------------------------------------------------
(* What leaves a log, and what stays. *)
LEMMA RemovedAt ==
  ASSUME NEW S, NEW q \in Seq(S), NEW i \in 1..Len(q)
  PROVE  /\ RemoveAt(q, i) \in Seq(S) /\ Len(RemoveAt(q, i)) = Len(q) - 1
         /\ \A k \in 1..(i - 1) : RemoveAt(q, i)[k] = q[k]
         /\ \A k \in i..(Len(q) - 1) : RemoveAt(q, i)[k] = q[k + 1]
<1> DEFINE front == SubSeq(q, 1, i - 1)
           back == SubSeq(q, i + 1, Len(q))
<1>1. /\ front \in Seq(S) /\ Len(front) = i - 1
      /\ \A k \in 1..(i - 1) : front[k] = q[k]
  OBVIOUS
<1>2. /\ back \in Seq(S) /\ Len(back) = Len(q) - i
      /\ \A k \in 1..(Len(q) - i) : back[k] = q[i + k]
  OBVIOUS
<1>3. RemoveAt(q, i) = front \o back
  BY DEF RemoveAt
<1>0. i \in Nat \ {0} /\ Len(q) \in Nat /\ i <= Len(q) /\ i - 1 \in Nat
  OBVIOUS
<1> HIDE DEF front, back
<1>4. /\ front \o back \in Seq(S) /\ Len(front \o back) = Len(q) - 1
      /\ \A k \in 1..(i - 1) : (front \o back)[k] = q[k]
  <2>1. /\ front \o back \in Seq(S) /\ Len(front \o back) = Len(front) + Len(back)
        /\ \A k \in 1..Len(front) : (front \o back)[k] = front[k]
    BY <1>1, <1>2, JoinedAt
  <2>2. Len(front \o back) = Len(q) - 1
    BY <1>0, <1>1, <1>2, <2>1
  <2> QED BY <1>1, <2>1, <2>2
<1>5. ASSUME NEW k \in i..(Len(q) - 1) PROVE (front \o back)[k] = q[k + 1]
  <2> DEFINE m == k - (i - 1)
  <2>1. m \in 1..(Len(q) - i) /\ k = Len(front) + m /\ i + m = k + 1
    BY <1>0, <1>1
  <2> HIDE DEF m
  <2>2. \A n \in 1..Len(back) : (front \o back)[Len(front) + n] = back[n]
    BY <1>1, <1>2, JoinedAt
  <2> QED BY <1>2, <2>1, <2>2
<1> QED BY <1>3, <1>4, <1>5

LEMMA WithoutKeeps ==
  ASSUME NEW calls \in Seq(LogEntry), OneEach(calls), NEW c
  PROVE  /\ Without(calls, c) \in Seq(LogEntry) /\ OneEach(Without(calls, c))
         /\ Entries(Without(calls, c)) = {e \in Entries(calls) : e.call # c}
<1>1. CASE Places(calls, c) = {}
  <2>1. Without(calls, c) = calls
    BY <1>1 DEF Without
  <2>2. \A i \in 1..Len(calls) : calls[i].call # c
    BY <1>1 DEF Places
  <2> QED BY <2>1, <2>2 DEF Entries
<1>2. CASE Places(calls, c) # {}
  <2> DEFINE i == CHOOSE i \in Places(calls, c) : TRUE
             rest == Without(calls, c)
  <2>1. i \in 1..Len(calls) /\ calls[i].call = c /\ rest = RemoveAt(calls, i)
    BY <1>2 DEF Places, Without
  <2>2. Len(calls) \in Nat /\ \A k \in 1..Len(calls) : calls[k].call = c => k = i
    BY <2>1 DEF OneEach
  <2> HIDE DEF i, rest
  <2>3. /\ rest \in Seq(LogEntry) /\ Len(rest) = Len(calls) - 1
        /\ \A k \in 1..(i - 1) : rest[k] = calls[k]
        /\ \A k \in i..(Len(calls) - 1) : rest[k] = calls[k + 1]
    BY <2>1, RemovedAt
  <2> DEFINE from(k) == IF k < i THEN k ELSE k + 1
  <2>4. /\ \A k \in 1..Len(rest) : from(k) \in 1..Len(calls) /\ from(k) # i /\ rest[k] = calls[from(k)]
        /\ \A k, m \in 1..Len(rest) : from(k) = from(m) => k = m
    <3>1. ASSUME NEW k \in 1..Len(rest)
          PROVE  from(k) \in 1..Len(calls) /\ from(k) # i /\ rest[k] = calls[from(k)]
      <4>1. CASE k < i
        BY <2>1, <2>2, <2>3, <4>1
      <4>2. CASE ~(k < i)
        BY <2>1, <2>2, <2>3, <4>2
      <4> QED BY <4>1, <4>2
    <3>2. \A k, m \in 1..Len(rest) : from(k) = from(m) => k = m
      BY <2>1
    <3> QED BY <3>1, <3>2
  <2> HIDE DEF from
  <2>5. OneEach(rest)
    BY <2>4 DEF OneEach
  <2>6. \A k \in 1..Len(rest) : rest[k] \in Entries(calls) /\ rest[k].call # c
    BY <2>2, <2>4 DEF Entries
  <2>7. ASSUME NEW k \in 1..Len(calls), calls[k].call # c PROVE \E m \in 1..Len(rest) : rest[m] = calls[k]
    <3>1. CASE k < i
      BY <2>1, <2>2, <2>3, <3>1
    <3>2. CASE k > i
      <4>1. k - 1 \in i..(Len(calls) - 1) /\ k - 1 \in 1..Len(rest) /\ (k - 1) + 1 = k
        BY <2>1, <2>2, <2>3, <3>2
      <4> QED BY <2>3, <4>1
    <3> QED BY <2>1, <2>7, <3>1, <3>2
  <2>8. Entries(rest) = {e \in Entries(calls) : e.call # c}
    BY <2>6, <2>7, SMTT(30) DEF Entries
  <2> QED BY <2>3, <2>5, <2>8 DEF rest
<1> QED BY <1>1, <1>2

(* Whatever is kept of a log is of the log, or the entry that came; and all   *)
(* of it is kept if nothing is said to be dropped.                           *)
KeptOf(now, state, c, outcome) ==
  /\ LogTyped(now)
  /\ now.found = state.found /\ now.open = state.open
  /\ \A e \in Entries(now.log) :
       e = CallEntry(c, outcome) \/ (e \in Entries(state.log) /\ e.call # c)
  /\ now.gone \subseteq state.gone \cup {c} \cup {e.call : e \in Entries(state.log)}
  /\ \A e \in Entries(now.log) : e.call \in now.gone => e.call \in state.gone
  /\ now.truncated \/ /\ ~state.truncated
                      /\ CallEntry(c, outcome) \in Entries(now.log)
                      /\ \A e \in Entries(state.log) : e.call # c => e \in Entries(now.log)

LEMMA KeptKeeps ==
  ASSUME NEW state, LogTyped(state), NEW c \in Nat, NEW outcome \in {"running", "ended"}
  PROVE  KeptOf(Kept(state, c, outcome), state, c, outcome)
<1> DEFINE rest == Without(state.log, c)
           new == CallEntry(c, outcome)
           calls == Append(rest, new)
           now == Kept(state, c, outcome)
<1>1. /\ rest \in Seq(LogEntry) /\ OneEach(rest) /\ Len(rest) \in Nat
      /\ Entries(rest) = {e \in Entries(state.log) : e.call # c}
  BY WithoutKeeps DEF LogTyped
<1>2. new \in LogEntry /\ new.call = c
  BY DEF LogEntry, CallEntry
<1> HIDE DEF rest, new
<1>3. /\ calls \in Seq(LogEntry) /\ Len(calls) = Len(rest) + 1 /\ calls[Len(rest) + 1] = new
      /\ \A k \in 1..Len(rest) : calls[k] = rest[k]
  BY <1>1, <1>2
<1> HIDE DEF calls
<1>4. \A k \in 1..Len(calls) :
        \/ k \in 1..Len(rest) /\ calls[k] = rest[k]
        \/ k = Len(rest) + 1 /\ calls[k] = new
  BY <1>1, <1>3
<1>5. \A k \in 1..Len(rest) : rest[k] \in Entries(state.log) /\ rest[k].call # c
  BY <1>1 DEF Entries
<1>6. OneEach(calls)
  BY <1>1, <1>2, <1>4, <1>5 DEF OneEach
<1>7. Entries(calls) = Entries(rest) \cup {new}
  <2>1. \A k \in 1..Len(rest) : k \in 1..Len(calls)
    BY <1>1, <1>3
  <2>2. Len(rest) + 1 \in 1..Len(calls)
    BY <1>1, <1>3
  <2>3. Entries(calls) \subseteq Entries(rest) \cup {new}
    BY <1>4 DEF Entries
  <2>4. Entries(rest) \subseteq Entries(calls)
    BY <1>3, <2>1 DEF Entries
  <2>5. new \in Entries(calls)
    BY <1>3, <2>2 DEF Entries
  <2> QED BY <2>3, <2>4, <2>5
<1>8. now = IF Len(calls) > RetainedCalls
            THEN [state EXCEPT !.log = Tail(calls), !.truncated = TRUE, !.gone = @ \cup {Head(calls).call}]
            ELSE [state EXCEPT !.log = calls]
  BY DEF Kept, calls, rest, new
<1> HIDE DEF now
<1>9. CASE Len(calls) > RetainedCalls
  <2>1. /\ DOMAIN now = DOMAIN state /\ now.log = Tail(calls) /\ now.truncated = TRUE
        /\ now.found = state.found /\ now.open = state.open
        /\ now.gone = state.gone \cup {Head(calls).call}
    BY <1>8, <1>9 DEF LogTyped
  <2>2. /\ now.log \in Seq(LogEntry) /\ Len(now.log) = Len(calls) - 1 /\ Len(calls) \in Nat
        /\ \A k \in 1..Len(now.log) : k + 1 \in 1..Len(calls) /\ now.log[k] = calls[k + 1]
    BY <1>1, <1>3, <2>1
  <2>3. OneEach(now.log)
    BY <1>6, <2>2 DEF OneEach
  <2>4. Entries(now.log) \subseteq Entries(calls)
    BY <2>2 DEF Entries
  <2>5. 1 \in 1..Len(calls) /\ Head(calls) = calls[1]
    BY <1>1, <1>3
  <2>6. \A e \in Entries(now.log) : e.call # Head(calls).call
    <3> SUFFICES ASSUME NEW k \in 1..Len(now.log), now.log[k].call = Head(calls).call PROVE FALSE
      BY DEF Entries
    <3>1. k + 1 \in 1..Len(calls) /\ calls[k + 1].call = calls[1].call /\ k + 1 # 1
      BY <2>2, <2>5
    <3> QED BY <1>6, <2>5, <3>1 DEF OneEach
  <2>7. Head(calls).call \in {c} \cup {e.call : e \in Entries(state.log)}
    <3>1. Head(calls) \in Entries(calls)
      BY <2>5 DEF Entries
    <3>2. CASE Head(calls) = new
      BY <1>2, <3>2
    <3>3. CASE Head(calls) \in Entries(state.log)
      BY <3>3
    <3> QED BY <1>1, <1>7, <3>1, <3>2, <3>3
  <2>8. /\ now.gone \subseteq state.gone \cup {c} \cup {e.call : e \in Entries(state.log)}
        /\ \A e \in Entries(now.log) : e.call \in now.gone => e.call \in state.gone
    BY <2>1, <2>6, <2>7
  <2> QED BY <1>1, <1>7, <2>1, <2>2, <2>3, <2>4, <2>8 DEF KeptOf, LogTyped, new, now
<1>10. CASE ~(Len(calls) > RetainedCalls)
  <2>1. /\ DOMAIN now = DOMAIN state /\ now.log = calls /\ now.truncated = state.truncated
        /\ now.found = state.found /\ now.open = state.open /\ now.gone = state.gone
    BY <1>8, <1>10 DEF LogTyped
  <2> QED BY <1>1, <1>3, <1>6, <1>7, <2>1 DEF KeptOf, LogTyped, new, now
<1> QED BY <1>9, <1>10

LEMMA DrawnShows ==
  ASSUME NEW state, LogTyped(state), NEW shown
  PROVE  /\ LogTyped(Drawn(state, shown))
         /\ Drawn(state, shown).log = state.log /\ Drawn(state, shown).truncated = state.truncated
         /\ Drawn(state, shown).found = state.found /\ Drawn(state, shown).open = state.open
         /\ Drawn(state, shown).gone = state.gone
         /\ Drawn(state, shown).drawn = [snapshot |-> shown, calls |-> Reverse(state.log),
                                        truncated |-> state.truncated]
BY DEF Drawn, LogTyped

-----------------------------------------------------------------------------
LEMMA ChannelFacts ==
  ASSUME ChannelTypeOK
  PROVE  /\ Len(owner) \in Nat /\ Len(callOf) \in Nat
         /\ NoChannel \notin Installed /\ Stranger \notin Installed /\ NoChannel # Stranger
         /\ \A channel \in Installed : owner[channel] \in Providers /\ observed[channel] \in Nat
         /\ \A c \in Begun : callOf[c] \in Providers
         /\ firstSeen \in Nat
<1>1. owner \in Seq(Providers) /\ callOf \in Seq(Providers)
  BY DEF ChannelTypeOK
<1>2. Len(owner) \in Nat /\ Len(callOf) \in Nat
  BY <1>1
<1>3. \A channel \in Installed : owner[channel] \in Providers
  BY <1>1 DEF Installed
<1>4. \A c \in Begun : callOf[c] \in Providers
  BY <1>1 DEF Begun
<1>5. NoChannel \notin Installed /\ Stranger \notin Installed /\ NoChannel # Stranger
  BY ChannelAssumption DEF Installed
<1>6. 1..(Len(callOf) + 1) \subseteq Nat
  BY <1>2
<1> QED BY <1>2, <1>3, <1>4, <1>5, <1>6 DEF ChannelTypeOK

LEMMA ChannelInitially == ChannelInit => ChannelInv
<1> SUFFICES ASSUME ChannelInit PROVE ChannelInv
  OBVIOUS
<1>1. ChannelTypeOK
  <2>1. \A S : <<>> \in Seq(S)
    OBVIOUS
  <2>2. Len(owner) = 0 /\ Len(callOf) = 0 /\ Len(observed) = 0
    BY DEF ChannelInit
  <2>3. owner = <<>> /\ callOf = <<>> /\ observed = <<>>
    BY DEF ChannelInit
  <2>4. /\ slot = NoChannel /\ channelOf = [p \in Providers |-> NoChannel]
        /\ snapshot \in [Providers -> Snapshots] /\ ended = {} /\ sink = NoChannel /\ firstSeen = 1
    BY DEF ChannelInit
  <2>5. Installed = {}
    BY <2>2 DEF Installed
  <2> QED BY <2>1, <2>2, <2>3, <2>4, <2>5 DEF ChannelTypeOK
<1>2. InstalledInv
  BY <1>1, ChannelFacts DEF ChannelInit, InstalledInv, NoInspector
<1>3. PanelInv
  BY DEF ChannelInit, PanelInv
<1> QED BY <1>1, <1>2, <1>3 DEF ChannelInv

(* What the inspector shows holds on while its channel and the calls are what *)
(* they were.                                                              *)
LEMMA PanelKept ==
  ASSUME PanelInv, sink' \in {sink, NoChannel},
         UNCHANGED <<snapshot, callOf, ended, inspector, firstSeen>>,
         sink # NoChannel => owner'[sink] = owner[sink] /\ observed'[sink] = observed[sink]
  PROVE  PanelInv'
<1> SUFFICES ASSUME sink' # NoChannel
             PROVE  /\ firstSeen' >= observed'[sink']
                    /\ LogTyped(inspector')
                    /\ \A e \in Entries(inspector'.log) : Tells(e, sink)'
                    /\ Shows(inspector, sink)' /\ Complete(inspector, sink)'
                    /\ NoneComesBack(inspector)'
  BY DEF PanelInv
<1>1. sink' = sink /\ owner'[sink] = owner[sink] /\ observed'[sink] = observed[sink]
  OBVIOUS
<1>2. /\ firstSeen >= observed[sink] /\ LogTyped(inspector)
      /\ \A e \in Entries(inspector.log) : Tells(e, sink)
      /\ Shows(inspector, sink) /\ Complete(inspector, sink) /\ NoneComesBack(inspector)
  BY <1>1 DEF PanelInv
<1>3. \A e \in Entries(inspector'.log) : Tells(e, sink)'
  BY <1>1, <1>2 DEF Tells, Begun
<1>4. Shows(inspector, sink)'
  BY <1>1, <1>2 DEF Shows
<1>5. Complete(inspector, sink)'
  BY <1>1, <1>2 DEF Complete
<1>6. NoneComesBack(inspector)'
  BY <1>2 DEF NoneComesBack, Begun
<1> QED BY <1>1, <1>2, <1>3, <1>4, <1>5, <1>6

-----------------------------------------------------------------------------
LEMMA InstallStep ==
  ASSUME ChannelInv, NEW p \in Providers, Install(p)
  PROVE  ChannelInv'
<1> DEFINE channel == Len(owner) + 1
<1>0. ChannelTypeOK /\ InstalledInv /\ PanelInv
  BY DEF ChannelInv
<1>1. /\ channelOf[p] = NoChannel /\ slot = NoChannel
      /\ slot' = channel /\ owner' = Append(owner, p) /\ observed' = Append(observed, Len(callOf) + 1)
      /\ channelOf' = [channelOf EXCEPT ![p] = channel]
      /\ UNCHANGED <<snapshot, callOf, ended, inspector, sink, firstSeen, meddled>>
  BY DEF Install
<1>2. /\ owner' \in Seq(Providers) /\ Len(owner') = channel /\ owner'[channel] = p
      /\ \A c \in Installed : owner'[c] = owner[c]
  BY <1>0, <1>1, AppendAt DEF ChannelTypeOK, Installed
<1>3. Len(owner) \in Nat /\ Len(callOf) \in Nat /\ Len(observed) = Len(owner)
  BY <1>0, ChannelFacts DEF ChannelTypeOK
<1>4. /\ observed' \in Seq(Nat) /\ Len(observed') = channel /\ observed'[channel] = Len(callOf) + 1
      /\ \A c \in Installed : observed'[c] = observed[c]
  <2>1. observed \in Seq(Nat) /\ Len(callOf) + 1 \in Nat
    BY <1>0, <1>3 DEF ChannelTypeOK
  <2>2. /\ observed' \in Seq(Nat) /\ Len(observed') = Len(observed) + 1
        /\ observed'[Len(observed) + 1] = Len(callOf) + 1
        /\ \A c \in 1..Len(observed) : observed'[c] = observed[c]
    BY <1>1, <2>1, AppendAt
  <2> QED BY <1>3, <2>2 DEF Installed
<1>5. Installed' = Installed \cup {channel} /\ channel \notin Installed
  BY <1>2, <1>3 DEF Installed
<1>6. ChannelTypeOK'
  <2>1. channelOf' \in [Providers -> Installed' \cup {NoChannel}]
    BY <1>0, <1>1, <1>5 DEF ChannelTypeOK
  <2>2. \A c \in Installed' : observed'[c] \in 1..(Len(callOf) + 1)
    <3>1. \A c \in Installed : observed[c] \in 1..(Len(callOf) + 1)
      BY <1>0 DEF ChannelTypeOK
    <3>2. Len(callOf) + 1 \in 1..(Len(callOf) + 1)
      BY <1>3
    <3> QED BY <1>4, <1>5, <3>1, <3>2
  <2> QED BY <1>0, <1>1, <1>2, <1>4, <1>5, <2>1, <2>2 DEF ChannelTypeOK, Begun
<1>7. InstalledInv'
  <2>1. /\ channel \notin {NoChannel, Stranger} /\ NoChannel \notin Installed
        /\ channelOf'[p] = channel /\ \A q \in Providers \ {p} : channelOf'[q] = channelOf[q]
        /\ \A q \in Providers : channelOf[q] \in Installed \cup {NoChannel}
    <3>1. channelOf \in [Providers -> Installed \cup {NoChannel}]
      BY <1>0 DEF ChannelTypeOK
    <3>2. channel \in Nat /\ NoChannel \notin Installed
      BY <1>0, <1>3, ChannelFacts
    <3>3. channel \notin {NoChannel, Stranger}
      BY <3>2, ChannelAssumption
    <3> QED BY <1>1, <3>1, <3>2, <3>3
  <2>2. \A q \in Providers : channelOf'[q] # NoChannel => owner'[channelOf'[q]] = q
    BY <1>0, <1>2, <2>1 DEF InstalledInv
  <2>3. channelOf'[owner'[slot']] = slot'
    BY <1>1, <1>2, <2>1
  <2>4. ASSUME NEW c \in Installed PROVE /\ owner'[c] = owner[c] /\ owner[c] \in Providers
                                         /\ channelOf'[owner'[c]] = c <=> channelOf[owner[c]] = c
    BY <1>0, <1>1, <1>2, <1>5, <2>1, ChannelFacts
  <2>5. sink # NoChannel => inspector.open /\ sink = inspector.found /\ channelOf'[owner'[sink]] = sink
    BY <1>0, <2>4 DEF InstalledInv, ChannelTypeOK
  <2>6. inspector.open /\ inspector.found # NoChannel
          /\ channelOf'[owner'[inspector.found]] = inspector.found => sink = inspector.found
    BY <1>0, <2>4 DEF InstalledInv
  <2>7. ~meddled => \A q \in Providers : channelOf'[q] # NoChannel => slot' = channelOf'[q]
    BY <1>0, <1>1, <2>1 DEF InstalledInv
  <2> QED BY <1>0, <1>1, <1>5, <2>2, <2>3, <2>5, <2>6, <2>7 DEF InstalledInv
<1>8. PanelInv'
  <2>1. sink # NoChannel => sink \in Installed
    BY <1>0 DEF ChannelTypeOK
  <2> QED BY <1>0, <1>1, <1>2, <1>4, <2>1, PanelKept
<1> QED BY <1>6, <1>7, <1>8 DEF ChannelInv

LEMMA UninstallStep ==
  ASSUME ChannelInv, NEW p \in Providers, Uninstall(p)
  PROVE  ChannelInv'
<1>0. ChannelTypeOK /\ InstalledInv /\ PanelInv
  BY DEF ChannelInv
<1>1. /\ channelOf[p] # NoChannel /\ channelOf' = [channelOf EXCEPT ![p] = NoChannel]
      /\ slot' = (IF slot = channelOf[p] THEN NoChannel ELSE slot)
      /\ sink' = (IF sink = channelOf[p] THEN NoChannel ELSE sink)
      /\ UNCHANGED <<owner, snapshot, callOf, ended, observed, inspector, firstSeen, meddled>>
  BY DEF Uninstall
<1>2. ChannelTypeOK'
  <2>1. channelOf' \in [Providers -> Installed \cup {NoChannel}]
    BY <1>0, <1>1 DEF ChannelTypeOK
  <2>2. slot' \in Installed \cup {NoChannel, Stranger} /\ sink' \in Installed \cup {NoChannel}
    BY <1>0, <1>1 DEF ChannelTypeOK
  <2> QED BY <1>0, <1>1, <2>1, <2>2 DEF ChannelTypeOK, Installed, Begun
<1>3. InstalledInv'
  <2>1. /\ channelOf'[p] = NoChannel /\ \A q \in Providers \ {p} : channelOf'[q] = channelOf[q]
        /\ NoChannel \notin Installed
    BY <1>0, <1>1, ChannelFacts DEF ChannelTypeOK
  <2>2. ASSUME NEW c \in Installed, c # channelOf[p], channelOf[owner[c]] = c
        PROVE  channelOf'[owner[c]] = c
    BY <1>0, <2>1, <2>2, ChannelFacts
  <2>3. ASSUME NEW c \in Installed, channelOf'[owner[c]] = c
        PROVE  channelOf[owner[c]] = c /\ c # channelOf[p]
    <3>1. owner[c] # p /\ owner[c] \in Providers
      BY <1>0, <2>1, <2>3, ChannelFacts
    <3>2. owner[channelOf[p]] = p
      BY <1>0, <1>1 DEF InstalledInv
    <3> QED BY <2>1, <2>3, <3>1, <3>2
  <2>4. \A q \in Providers : channelOf'[q] # NoChannel => owner'[channelOf'[q]] = q
    BY <1>0, <1>1, <2>1 DEF InstalledInv
  <2>5. slot' \in Installed => channelOf'[owner[slot']] = slot'
    BY <1>0, <1>1, <2>1, <2>2 DEF InstalledInv
  <2>6. sink' # NoChannel => inspector.open /\ sink' = inspector.found /\ channelOf'[owner[sink']] = sink'
    BY <1>0, <1>1, <2>2 DEF InstalledInv, ChannelTypeOK
  <2>7. inspector.open /\ inspector.found # NoChannel
          /\ channelOf'[owner[inspector.found]] = inspector.found => sink' = inspector.found
    BY <1>0, <1>1, <2>3 DEF InstalledInv
  <2>8. ~meddled => \A q \in Providers : channelOf'[q] # NoChannel => slot' = channelOf'[q]
    <3>1. ASSUME NEW q \in Providers, ~meddled, channelOf'[q] # NoChannel PROVE slot' = channelOf'[q]
      <4>1. q # p /\ channelOf[q] # NoChannel /\ channelOf'[q] = channelOf[q]
        BY <2>1, <3>1
      <4>2. slot = channelOf[q] /\ owner[channelOf[q]] = q /\ owner[channelOf[p]] = p
        BY <1>0, <1>1, <3>1, <4>1 DEF InstalledInv
      <4> QED BY <1>1, <4>1, <4>2
    <3> QED BY <3>1
  <2> QED BY <1>0, <1>1, <2>4, <2>5, <2>6, <2>7, <2>8 DEF InstalledInv, Installed
<1>4. PanelInv'
  BY <1>0, <1>1, PanelKept
<1> QED BY <1>2, <1>3, <1>4 DEF ChannelInv

LEMMA StrangerStep ==
  ASSUME ChannelInv, StrangerWrites
  PROVE  ChannelInv'
<1>0. ChannelTypeOK /\ InstalledInv /\ PanelInv
  BY DEF ChannelInv
<1>1. /\ slot' \in {Stranger, NoChannel} /\ meddled'
      /\ UNCHANGED <<owner, channelOf, snapshot, callOf, ended, observed, inspector, sink, firstSeen>>
  BY DEF StrangerWrites
<1>2. ChannelTypeOK'
  BY <1>0, <1>1 DEF ChannelTypeOK, Installed, Begun
<1>3. InstalledInv'
  <2>1. slot' \notin Installed
    BY <1>0, <1>1, ChannelFacts
  <2> QED BY <1>0, <1>1, <2>1 DEF InstalledInv, Installed
<1>4. PanelInv'
  BY <1>0, <1>1, PanelKept
<1> QED BY <1>2, <1>3, <1>4 DEF ChannelInv

-----------------------------------------------------------------------------
LEMMA InspectStep ==
  ASSUME ChannelInv, Inspect
  PROVE  ChannelInv'
<1> DEFINE fresh == [found |-> sink', open |-> TRUE, log |-> <<>>, truncated |-> FALSE, drawn |-> <<>>,
                     gone |-> {}]
           shown == IF sink' = NoChannel THEN {} ELSE {snapshot[owner[sink']]}
<1>0. ChannelTypeOK /\ InstalledInv
  BY DEF ChannelInv
<1>1. /\ sink' = (IF slot = Stranger THEN NoChannel ELSE slot)
      /\ firstSeen' = Len(callOf) + 1 /\ inspector' = Drawn(fresh, shown)
      /\ UNCHANGED <<slot, owner, channelOf, snapshot, callOf, ended, observed, meddled>>
  BY DEF Inspect
<1>2. /\ sink' \in Installed \cup {NoChannel}
      /\ sink' # NoChannel => sink' \in Installed /\ channelOf[owner[sink']] = sink'
  BY <1>0, <1>1, ChannelFacts DEF ChannelTypeOK, InstalledInv
<1>3. LogTyped(fresh) /\ fresh.log = <<>> /\ fresh.found = sink' /\ fresh.open = TRUE /\ fresh.gone = {}
  BY DEF LogTyped, OneEach
<1> HIDE DEF fresh, shown
<1>4. /\ LogTyped(inspector') /\ inspector'.log = <<>> /\ inspector'.found = sink' /\ inspector'.open = TRUE
      /\ inspector'.gone = {}
      /\ inspector'.drawn = [snapshot |-> shown, calls |-> Reverse(inspector'.log),
                             truncated |-> inspector'.truncated]
  <2>1. /\ LogTyped(Drawn(fresh, shown))
        /\ Drawn(fresh, shown).log = fresh.log /\ Drawn(fresh, shown).truncated = fresh.truncated
        /\ Drawn(fresh, shown).found = fresh.found /\ Drawn(fresh, shown).open = fresh.open
        /\ Drawn(fresh, shown).gone = fresh.gone
        /\ Drawn(fresh, shown).drawn = [snapshot |-> shown, calls |-> Reverse(fresh.log),
                                        truncated |-> fresh.truncated]
    BY <1>3, DrawnShows
  <2> QED BY <1>1, <1>3, <2>1
<1>5. ChannelTypeOK'
  <2>1. firstSeen' \in 1..(Len(callOf) + 1)
    BY <1>0, <1>1, ChannelFacts
  <2> QED BY <1>0, <1>1, <1>2, <2>1 DEF ChannelTypeOK, Installed, Begun
<1>6. InstalledInv'
  BY <1>0, <1>1, <1>2, <1>4 DEF InstalledInv, Installed
<1>7. PanelInv'
  <2> SUFFICES ASSUME sink' # NoChannel
               PROVE  /\ firstSeen' >= observed'[sink']
                      /\ \A e \in Entries(inspector'.log) : Tells(e, sink)'
                      /\ Shows(inspector, sink)' /\ Complete(inspector, sink)'
                      /\ NoneComesBack(inspector)'
    BY <1>4 DEF PanelInv
  <2>1. firstSeen' >= observed'[sink']
    BY <1>0, <1>1, <1>2, ChannelFacts DEF ChannelTypeOK
  <2>2. Entries(inspector'.log) = {}
    BY <1>4 DEF Entries
  <2>3. Shows(inspector, sink)'
    BY <1>1, <1>4 DEF Shows, shown
  <2>4. Complete(inspector, sink)'
    BY <1>0, <1>1, ChannelFacts DEF Complete
  <2>5. NoneComesBack(inspector)'
    BY <1>4, <2>2 DEF NoneComesBack
  <2> QED BY <2>1, <2>2, <2>3, <2>4, <2>5
<1> QED BY <1>5, <1>6, <1>7 DEF ChannelInv

LEMMA DisposeStep ==
  ASSUME ChannelInv, Dispose
  PROVE  ChannelInv'
<1>0. ChannelTypeOK /\ InstalledInv
  BY DEF ChannelInv
<1>1. /\ inspector' = NoInspector /\ sink' = NoChannel /\ firstSeen' = 1
      /\ UNCHANGED <<slot, owner, channelOf, snapshot, callOf, ended, observed, meddled>>
  BY DEF Dispose
<1>2. ChannelTypeOK'
  <2>1. 1 \in 1..(Len(callOf) + 1)
    BY <1>0, ChannelFacts
  <2> QED BY <1>0, <1>1, <2>1 DEF ChannelTypeOK, Installed, Begun
<1>3. InstalledInv'
  BY <1>0, <1>1 DEF InstalledInv, Installed, NoInspector
<1>4. PanelInv'
  BY <1>1 DEF PanelInv
<1> QED BY <1>2, <1>3, <1>4 DEF ChannelInv

LEMMA SnapshotStep ==
  ASSUME ChannelInv, NEW p \in Providers, SnapshotMoves(p)
  PROVE  ChannelInv'
<1>0. ChannelTypeOK /\ InstalledInv /\ PanelInv
  BY DEF ChannelInv
<1>1. PICK s \in Snapshots : snapshot' = [snapshot EXCEPT ![p] = s]
  BY DEF SnapshotMoves
<1>2. /\ inspector' = (IF Subscribed /\ owner[sink] = p THEN Drawn(inspector, {snapshot'[p]})
                                                       ELSE inspector)
      /\ UNCHANGED <<slot, owner, channelOf, callOf, ended, observed, sink, firstSeen, meddled>>
  BY DEF SnapshotMoves
<1>3. snapshot' \in [Providers -> Snapshots] /\ \A q \in Providers \ {p} : snapshot'[q] = snapshot[q]
  BY <1>0, <1>1 DEF ChannelTypeOK
<1>4. ChannelTypeOK'
  BY <1>0, <1>2, <1>3 DEF ChannelTypeOK, Installed, Begun
<1>5. CASE sink # NoChannel /\ owner[sink] = p
  <2>1. inspector' = Drawn(inspector, {snapshot'[p]})
    BY <1>0, <1>2, <1>5 DEF Subscribed, InstalledInv
  <2>2. /\ firstSeen >= observed[sink] /\ LogTyped(inspector)
        /\ \A e \in Entries(inspector.log) : Tells(e, sink)
        /\ Complete(inspector, sink) /\ NoneComesBack(inspector)
    BY <1>0, <1>5 DEF PanelInv
  <2>3. /\ LogTyped(inspector') /\ inspector'.log = inspector.log
        /\ inspector'.truncated = inspector.truncated
        /\ inspector'.found = inspector.found /\ inspector'.open = inspector.open
        /\ inspector'.gone = inspector.gone
        /\ inspector'.drawn = [snapshot |-> {snapshot'[p]}, calls |-> Reverse(inspector.log),
                               truncated |-> inspector.truncated]
    BY <2>1, <2>2, DrawnShows
  <2>4. InstalledInv'
    BY <1>0, <1>2, <2>3 DEF InstalledInv, Installed
  <2>5. Shows(inspector, sink)'
    BY <1>2, <1>5, <2>3 DEF Shows
  <2>6. \A e \in Entries(inspector'.log) : Tells(e, sink)'
    BY <1>2, <2>2, <2>3 DEF Tells, Begun
  <2>7. Complete(inspector, sink)'
    BY <1>2, <2>2, <2>3 DEF Complete
  <2>8. PanelInv'
    <3>1. NoneComesBack(inspector)'
      BY <1>2, <2>2, <2>3 DEF NoneComesBack, Begun
    <3> QED BY <1>2, <2>2, <2>3, <2>5, <2>6, <2>7, <3>1 DEF PanelInv
  <2> QED BY <1>4, <2>4, <2>8 DEF ChannelInv
<1>6. CASE ~(sink # NoChannel /\ owner[sink] = p)
  <2>1. inspector' = inspector
    BY <1>2, <1>6 DEF Subscribed
  <2>2. InstalledInv'
    BY <1>0, <1>2, <2>1 DEF InstalledInv, Installed
  <2>3. PanelInv'
    <3> SUFFICES ASSUME sink # NoChannel
                 PROVE  /\ firstSeen' >= observed'[sink']
                        /\ LogTyped(inspector')
                        /\ \A e \in Entries(inspector'.log) : Tells(e, sink)'
                        /\ Shows(inspector, sink)' /\ Complete(inspector, sink)'
                        /\ NoneComesBack(inspector)'
      BY <1>2 DEF PanelInv
    <3>1. snapshot'[owner[sink]] = snapshot[owner[sink]]
      BY <1>0, <1>3, <1>6, ChannelFacts DEF ChannelTypeOK
    <3>2. /\ firstSeen >= observed[sink] /\ LogTyped(inspector)
          /\ \A e \in Entries(inspector.log) : Tells(e, sink)
          /\ Shows(inspector, sink) /\ Complete(inspector, sink) /\ NoneComesBack(inspector)
      BY <1>0 DEF PanelInv
    <3>3. Shows(inspector, sink)'
      BY <1>2, <2>1, <3>1, <3>2 DEF Shows
    <3>4. \A e \in Entries(inspector'.log) : Tells(e, sink)'
      BY <1>2, <2>1, <3>2 DEF Tells, Begun
    <3>5. Complete(inspector, sink)'
      BY <1>2, <2>1, <3>2 DEF Complete
    <3>6. NoneComesBack(inspector)'
      BY <1>2, <2>1, <3>2 DEF NoneComesBack, Begun
    <3> QED BY <1>2, <2>1, <3>2, <3>3, <3>4, <3>5, <3>6
  <2> QED BY <1>4, <2>2, <2>3 DEF ChannelInv
<1> QED BY <1>5, <1>6

-----------------------------------------------------------------------------
(* What the log makes of an event: its entry, of a call the log has or may    *)
(* have, beside what it had, or a truncation.                                *)
AcceptedOf(now, state, c, outcome) ==
  /\ KeptOf(now, state, c, outcome)
  /\ outcome = "ended" /\ CallEntry(c, outcome) \in Entries(now.log) =>
       \E d \in Entries(state.log) : d.call = c

LEMMA AcceptedKeeps ==
  ASSUME NEW state, LogTyped(state), NEW c \in Nat, NEW outcome \in {"running", "ended"}
  PROVE  AcceptedOf(Accepted(state, c, outcome), state, c, outcome)
<1>1. Knows(state.log, c) <=> \E d \in Entries(state.log) : d.call = c
  <2>1. DOMAIN state.log = 1..Len(state.log)
    BY DEF LogTyped
  <2> QED BY <2>1 DEF Knows, Entries
<1>2. CASE outcome # "running" /\ ~Knows(state.log, c)
  <2>1. Accepted(state, c, outcome) = [state EXCEPT !.truncated = TRUE]
    BY <1>2 DEF Accepted
  <2> DEFINE now == [state EXCEPT !.truncated = TRUE]
  <2>2. /\ DOMAIN now = DOMAIN state /\ now.log = state.log /\ now.truncated = TRUE
        /\ now.found = state.found /\ now.open = state.open /\ now.gone = state.gone
    BY DEF LogTyped
  <2>3. \A e \in Entries(state.log) : e.call # c
    BY <1>1, <1>2
  <2> HIDE DEF now
  <2>4. LogTyped(now)
    BY <2>2 DEF LogTyped
  <2>5. AcceptedOf(now, state, c, outcome)
    BY <2>2, <2>3, <2>4 DEF AcceptedOf, KeptOf, CallEntry
  <2> QED BY <2>1, <2>5 DEF now
<1>3. CASE ~(outcome # "running" /\ ~Knows(state.log, c))
  <2>1. Accepted(state, c, outcome) = Kept(state, c, outcome)
    BY <1>3 DEF Accepted
  <2>2. outcome = "ended" => \E d \in Entries(state.log) : d.call = c
    BY <1>1, <1>3
  <2> QED BY <2>1, <2>2, KeptKeeps DEF AcceptedOf
<1> QED BY <1>2, <1>3

(* A call of p begins, with the next number, or ends. *)
Begins(c, p, outcome) ==
  /\ outcome = "running" /\ c = Len(callOf) + 1
  /\ callOf' = Append(callOf, p) /\ ended' = ended

EndsNow(c, p, outcome) ==
  /\ outcome = "ended" /\ c \in Begun \ ended /\ p = callOf[c]
  /\ callOf' = callOf /\ ended' = ended \cup {c}

LEMMA RecordStep ==
  ASSUME ChannelInv, NEW c, NEW p \in Providers, NEW outcome, Record(c, p, outcome),
         Begins(c, p, outcome) \/ EndsNow(c, p, outcome),
         UNCHANGED <<slot, owner, channelOf, snapshot, observed, sink, firstSeen, meddled>>
  PROVE  ChannelInv'
<1>0. ChannelTypeOK /\ InstalledInv /\ PanelInv
  BY DEF ChannelInv
<1>1. Len(callOf) \in Nat /\ callOf \in Seq(Providers) /\ ended \subseteq Begun
  BY <1>0, ChannelFacts DEF ChannelTypeOK
<1>2. /\ callOf' \in Seq(Providers) /\ Begun' = Begun \cup {c} /\ callOf'[c] = p
      /\ \A d \in Begun : callOf'[d] = callOf[d]
      /\ Len(callOf') \in Nat /\ Len(callOf) <= Len(callOf')
      /\ c \in Nat /\ outcome \in {"running", "ended"}
      /\ \A d \in Begun : d # c => (d \in ended' <=> d \in ended)
      /\ outcome = "running" <=> c \notin ended'
      /\ ended' \subseteq Begun'
  <2>1. CASE Begins(c, p, outcome)
    <3>1. /\ callOf' \in Seq(Providers) /\ Len(callOf') = Len(callOf) + 1 /\ callOf'[c] = p
          /\ \A d \in 1..Len(callOf) : callOf'[d] = callOf[d]
      BY <1>1, <2>1, AppendAt DEF Begins
    <3>2. Begun' = Begun \cup {c} /\ c \notin Begun /\ c \in Nat
      BY <1>1, <2>1, <3>1 DEF Begun, Begins
    <3> QED BY <1>1, <2>1, <3>1, <3>2 DEF Begins, Begun
  <2>2. CASE EndsNow(c, p, outcome)
    BY <1>1, <2>2 DEF EndsNow, Begun
  <2> QED BY <2>1, <2>2
<1>3. c \in Begun \/ (c = Len(callOf) + 1 /\ outcome = "running")
  BY DEF Begins, EndsNow
<1>4. ChannelTypeOK'
  <2>1. 1..(Len(callOf) + 1) \subseteq 1..(Len(callOf') + 1)
    BY <1>1, <1>2
  <2>2. \A channel \in Installed : observed[channel] \in 1..(Len(callOf') + 1)
    BY <1>0, <2>1 DEF ChannelTypeOK
  <2>3. firstSeen \in 1..(Len(callOf') + 1)
    BY <1>0, <2>1 DEF ChannelTypeOK
  <2> QED BY <1>0, <1>2, <2>2, <2>3 DEF ChannelTypeOK, Installed
<1>5. CASE sink = NoChannel
  <2>1. inspector' = inspector
    BY <1>5 DEF Record, Subscribed
  <2>2. InstalledInv'
    BY <1>0, <2>1 DEF InstalledInv, Installed
  <2> QED BY <1>4, <1>5, <2>2 DEF ChannelInv, PanelInv
<1>6. CASE sink # NoChannel
  <2>1. /\ sink \in Installed /\ inspector.open /\ observed[sink] \in Nat /\ firstSeen \in Nat \ {0}
        /\ observed[sink] <= Len(callOf) + 1 /\ firstSeen <= Len(callOf) + 1
    <3>1. sink \in Installed /\ inspector.open
      BY <1>0, <1>6 DEF ChannelTypeOK, InstalledInv
    <3>2. observed[sink] \in 1..(Len(callOf) + 1) /\ firstSeen \in 1..(Len(callOf) + 1)
      BY <1>0, <3>1 DEF ChannelTypeOK
    <3> QED BY <1>1, <3>1, <3>2
  <2>2. /\ firstSeen >= observed[sink] /\ LogTyped(inspector)
        /\ \A e \in Entries(inspector.log) : Tells(e, sink)
        /\ Shows(inspector, sink) /\ Complete(inspector, sink) /\ NoneComesBack(inspector)
    BY <1>0, <1>6 DEF PanelInv
  <2>3. ASSUME NEW e \in Entries(inspector.log), e.call # c PROVE Tells(e, sink)'
    <3>1. Tells(e, sink)
      BY <2>2
    <3> QED BY <1>2, <2>3, <3>1 DEF Tells
  <2>4. ASSUME owner[sink] # p \/ c < observed[sink]
        PROVE  PanelInv' /\ inspector' = inspector
    <3>1. inspector' = inspector
      BY <1>2, <2>1, <2>4 DEF Record
    <3>2. \A e \in Entries(inspector.log) : e.call # c
      <4> SUFFICES ASSUME NEW e \in Entries(inspector.log), e.call = c PROVE FALSE
        OBVIOUS
      <4>1. e.call \in Begun /\ callOf[e.call] = owner[sink] /\ e.call >= observed[sink]
        BY <2>2 DEF Tells
      <4>2. callOf[c] = p
        BY <1>2, <4>1
      <4> QED BY <1>2, <2>1, <2>4, <4>1, <4>2
    <3>3. \A e \in Entries(inspector'.log) : Tells(e, sink)'
      BY <2>3, <3>1, <3>2
    <3>4. Shows(inspector, sink)'
      BY <2>2, <3>1 DEF Shows
    <3>5. Complete(inspector, sink)'
      <4> SUFFICES ASSUME NEW d \in firstSeen..Len(callOf'), callOf'[d] = owner[sink]
                   PROVE  inspector.truncated \/ \E e \in Entries(inspector.log) : e.call = d
        BY <3>1 DEF Complete
      <4>1. d \in Begun'
        BY <2>1 DEF Begun
      <4>2. d \in Begun
        <5>1. CASE d = c
          <6>1. c < observed[sink]
            BY <1>2, <2>4, <5>1
          <6> QED BY <1>2, <1>3, <2>1, <5>1, <6>1
        <5> QED BY <1>2, <4>1, <5>1
      <4>3. d \in firstSeen..Len(callOf) /\ callOf[d] = owner[sink]
        BY <1>1, <1>2, <4>2 DEF Begun
      <4> QED BY <2>2, <4>3 DEF Complete
    <3>6. NoneComesBack(inspector)'
      BY <1>2, <2>2, <3>1 DEF NoneComesBack
    <3> QED BY <2>2, <3>1, <3>3, <3>4, <3>5, <3>6 DEF PanelInv
  <2>5. ASSUME owner[sink] = p, c >= observed[sink]
        PROVE  PanelInv' /\ inspector'.found = inspector.found /\ inspector'.open = inspector.open
    <3> DEFINE now == Accepted(inspector, c, outcome)
    <3>1. inspector' = Drawn(now, {snapshot[p]})
      BY <1>6, <2>1, <2>5 DEF Record, Subscribed
    <3>2. AcceptedOf(now, inspector, c, outcome)
      BY <1>2, <2>2, AcceptedKeeps
    <3> HIDE DEF now
    <3>3. /\ LogTyped(Drawn(now, {snapshot[p]}))
          /\ Drawn(now, {snapshot[p]}).log = now.log
          /\ Drawn(now, {snapshot[p]}).truncated = now.truncated
          /\ Drawn(now, {snapshot[p]}).found = now.found /\ Drawn(now, {snapshot[p]}).open = now.open
          /\ Drawn(now, {snapshot[p]}).gone = now.gone
          /\ Drawn(now, {snapshot[p]}).drawn = [snapshot |-> {snapshot[p]}, calls |-> Reverse(now.log),
                                               truncated |-> now.truncated]
      BY <3>2, DrawnShows DEF AcceptedOf, KeptOf
    <3>4. /\ LogTyped(inspector') /\ inspector'.log = now.log /\ inspector'.truncated = now.truncated
          /\ inspector'.found = inspector.found /\ inspector'.open = inspector.open
          /\ inspector'.gone = now.gone
          /\ inspector'.drawn = [snapshot |-> {snapshot[p]}, calls |-> Reverse(now.log),
                                 truncated |-> now.truncated]
      BY <3>1, <3>2, <3>3 DEF AcceptedOf, KeptOf
    <3>5. ASSUME NEW e \in Entries(now.log) PROVE Tells(e, sink)'
      <4>1. CASE e \in Entries(inspector.log) /\ e.call # c
        BY <2>3, <4>1
      <4>2. CASE e = CallEntry(c, outcome)
        <5>1. e.call = c /\ e.outcome = outcome
          BY <4>2 DEF CallEntry
        <5>2. c >= firstSeen
          <6>1. CASE outcome = "running"
            <7>1. c = Len(callOf) + 1
              BY <6>1 DEF Begins, EndsNow
            <7> QED BY <2>1, <1>1, <7>1
          <6>2. CASE outcome = "ended"
            <7>1. PICK d \in Entries(inspector.log) : d.call = c
              BY <3>2, <4>2, <6>2 DEF AcceptedOf
            <7> QED BY <2>2, <7>1 DEF Tells
          <6> QED BY <1>2, <6>1, <6>2
        <5> QED BY <1>2, <2>5, <5>1, <5>2 DEF Tells
      <4> QED BY <3>2, <4>1, <4>2 DEF AcceptedOf, KeptOf
    <3>6. Shows(inspector, sink)'
      BY <2>5, <3>4 DEF Shows
    <3>7. Complete(inspector, sink)'
      <4> SUFFICES ASSUME NEW d \in firstSeen..Len(callOf'), callOf'[d] = owner[sink], ~now.truncated
                   PROVE  \E e \in Entries(now.log) : e.call = d
        BY <3>4 DEF Complete
      <4>1. CASE d = c
        BY <3>2, <4>1 DEF CallEntry, AcceptedOf, KeptOf
      <4>2. CASE d # c
        <5>0. d \in Begun'
          BY <2>1 DEF Begun
        <5>1. d \in Begun
          BY <1>2, <4>2, <5>0
        <5>2. d \in firstSeen..Len(callOf) /\ callOf[d] = owner[sink]
          BY <1>1, <1>2, <5>0, <5>1 DEF Begun
        <5>3. PICK e \in Entries(inspector.log) : e.call = d
          BY <2>2, <3>2, <5>2 DEF Complete, AcceptedOf, KeptOf
        <5> QED BY <3>2, <4>2, <5>3 DEF AcceptedOf, KeptOf
      <4> QED BY <4>1, <4>2
    <3>8. firstSeen' >= observed'[sink']
      BY <2>2
    <3>9. \A e \in Entries(inspector'.log) : Tells(e, sink)'
      BY <3>4, <3>5
    <3>10. NoneComesBack(inspector)'
      <4>1. now.gone \subseteq Begun'
        <5>1. \A e \in Entries(inspector.log) : e.call \in Begun
          BY <2>2 DEF Tells
        <5> QED BY <1>2, <2>2, <3>2, <5>1 DEF NoneComesBack, AcceptedOf, KeptOf
      <4>2. ASSUME NEW e \in Entries(now.log), e.call \in inspector.gone PROVE FALSE
        <5>1. CASE e \in Entries(inspector.log)
          BY <2>2, <4>2, <5>1 DEF NoneComesBack
        <5>2. CASE e = CallEntry(c, outcome)
          <6>1. e.call = c /\ c \in Begun
            BY <2>2, <4>2, <5>2 DEF CallEntry, NoneComesBack
          <6>2. outcome = "ended"
            BY <1>1, <6>1 DEF Begins, EndsNow, Begun
          <6>3. PICK d \in Entries(inspector.log) : d.call = c
            BY <3>2, <4>2, <5>2, <6>2 DEF AcceptedOf
          <6> QED BY <2>2, <4>2, <6>1, <6>3 DEF NoneComesBack
        <5> QED BY <3>2, <5>1, <5>2 DEF AcceptedOf, KeptOf
      <4>3. \A e \in Entries(now.log) : e.call \notin now.gone
        BY <3>2, <4>2 DEF AcceptedOf, KeptOf
      <4> QED BY <3>4, <4>1, <4>3 DEF NoneComesBack
    <3> QED BY <3>4, <3>6, <3>7, <3>8, <3>9, <3>10 DEF PanelInv
  <2>6. PanelInv' /\ inspector'.found = inspector.found /\ inspector'.open = inspector.open
    <3>1. CASE owner[sink] # p \/ c < observed[sink]
      BY <2>4, <3>1
    <3>2. CASE ~(owner[sink] # p \/ c < observed[sink])
      <4>1. owner[sink] = p /\ c >= observed[sink]
        BY <1>2, <2>1, <3>2
      <4> QED BY <2>5, <4>1
    <3> QED BY <3>1, <3>2
  <2>7. InstalledInv'
    BY <1>0, <2>6 DEF InstalledInv, Installed
  <2> QED BY <1>4, <2>6, <2>7 DEF ChannelInv
<1> QED BY <1>5, <1>6

LEMMA ChannelStep == ChannelInv /\ [ChannelNext]_channelVars => ChannelInv'
<1> SUFFICES ASSUME ChannelInv, [ChannelNext]_channelVars PROVE ChannelInv'
  OBVIOUS
<1>0. ChannelTypeOK /\ InstalledInv /\ PanelInv
  BY DEF ChannelInv
<1>1. ASSUME NEW p \in Providers, CallBegins(p) PROVE ChannelInv'
  <2>1. Len(callOf') = Len(callOf) + 1
    BY <1>0, <1>1 DEF CallBegins, ChannelTypeOK
  <2>2. Begins(Len(callOf'), p, "running")
    BY <1>1, <2>1 DEF CallBegins, Begins
  <2>3. PICK c : c = Len(callOf')
    OBVIOUS
  <2> QED BY <1>1, <2>2, <2>3, RecordStep DEF CallBegins
<1>2. ASSUME NEW c \in DOMAIN callOf, CallEnds(c) PROVE ChannelInv'
  <2>1. c \in Begun /\ callOf[c] \in Providers
    BY <1>0, ChannelFacts DEF ChannelTypeOK, Begun
  <2>2. PICK p \in Providers : p = callOf[c]
    BY <2>1
  <2>3. EndsNow(c, p, "ended")
    BY <1>2, <2>1, <2>2 DEF CallEnds, EndsNow
  <2>4. Record(c, p, "ended")
    BY <1>2, <2>2 DEF CallEnds
  <2> QED BY <1>2, <2>3, <2>4, RecordStep DEF CallEnds
<1>3. CASE UNCHANGED channelVars
  <2>1. ChannelTypeOK'
    BY <1>0, <1>3 DEF channelVars, ChannelTypeOK, Installed, Begun
  <2>2. InstalledInv'
    BY <1>0, <1>3 DEF channelVars, InstalledInv, Installed
  <2>3. PanelInv'
    BY <1>0, <1>3, PanelKept DEF channelVars
  <2> QED BY <2>1, <2>2, <2>3 DEF ChannelInv
<1> QED BY <1>1, <1>2, <1>3, InstallStep, UninstallStep, SnapshotStep, StrangerStep, InspectStep,
           DisposeStep DEF ChannelNext

LEMMA ChannelCorrect == ChannelSpec => []ChannelInv
BY ChannelInitially, ChannelStep, PTL DEF ChannelSpec

(* What an inspector shows of the provider whose channel it found is so while *)
(* that channel is installed, whatever providers mount, other scripts write   *)
(* and calls are dropped for room, none of which comes back; and only another *)
(* script takes an installed channel out of the slot (devtools/call-log.ts,   *)
(* accept; provider.tsx, the claim of the slot).                             *)
THEOREM PanelIsTrue == ChannelSpec => []PanelTellsTheTruth
<1>1. ChannelInv => PanelTellsTheTruth
  <2> SUFFICES ASSUME ChannelInv PROVE PanelTellsTheTruth
    OBVIOUS
  <2>0. ChannelTypeOK /\ InstalledInv /\ PanelInv
    BY DEF ChannelInv
  <2>1. /\ slot \notin {Stranger, NoChannel} => channelOf[owner[slot]] = slot
        /\ ~meddled => \A p \in Providers : channelOf[p] # NoChannel => slot = channelOf[p]
    BY <2>0 DEF ChannelTypeOK, InstalledInv
  <2>2. ASSUME inspector.open, inspector.found # NoChannel,
               channelOf[owner[inspector.found]] = inspector.found
        PROVE  LET channel == inspector.found
                   drawn == inspector.drawn
                   calls == {drawn.calls[i] : i \in DOMAIN drawn.calls}
               IN  /\ drawn.snapshot = {snapshot[owner[channel]]}
                   /\ \A e \in calls : /\ e.outcome = "running" <=> e.call \notin ended
                                      /\ e.call >= firstSeen /\ e.call \notin inspector.gone
                   /\ \A c \in firstSeen..Len(callOf) :
                        callOf[c] = owner[channel] => drawn.truncated \/ \E e \in calls : e.call = c
    <3>1. sink = inspector.found /\ sink # NoChannel
      BY <2>0, <2>2 DEF InstalledInv
    <3>2. /\ LogTyped(inspector) /\ \A e \in Entries(inspector.log) : Tells(e, sink)
          /\ Shows(inspector, sink) /\ Complete(inspector, sink) /\ NoneComesBack(inspector)
      BY <2>0, <3>1 DEF PanelInv
    <3> DEFINE drawn == inspector.drawn
               shown == {drawn.calls[i] : i \in DOMAIN drawn.calls}
    <3>3. /\ drawn.snapshot = {snapshot[owner[sink]]} /\ drawn.calls = Reverse(inspector.log)
          /\ drawn.truncated = inspector.truncated
      BY <3>2 DEF Shows
    <3>4. shown = Entries(inspector.log)
      <4> DEFINE n == Len(inspector.log)
      <4>1. n \in Nat /\ DOMAIN drawn.calls = 1..n
        BY <3>2, <3>3 DEF LogTyped, Reverse
      <4>2. \A i \in 1..n : drawn.calls[i] = inspector.log[(n - i) + 1]
        BY <3>3 DEF Reverse
      <4>3. \A i \in 1..n : (n - i) + 1 \in 1..n /\ (n - ((n - i) + 1)) + 1 = i
        BY <4>1
      <4> HIDE DEF n, drawn
      <4>4. \A i \in 1..n : drawn.calls[i] \in {inspector.log[j] : j \in 1..n}
        BY <4>2, <4>3
      <4>5. \A i \in 1..n : inspector.log[i] = drawn.calls[(n - i) + 1]
        BY <4>2, <4>3
      <4>6. \A i \in 1..n : inspector.log[i] \in {drawn.calls[j] : j \in 1..n}
        BY <4>3, <4>5
      <4>7. {drawn.calls[j] : j \in 1..n} = {inspector.log[j] : j \in 1..n}
        BY <4>4, <4>6
      <4> QED BY <4>1, <4>7 DEF Entries, n
    <3> HIDE DEF drawn, shown
    <3>5. \A e \in shown : /\ e.outcome = "running" <=> e.call \notin ended
                           /\ e.call >= firstSeen /\ e.call \notin inspector.gone
      BY <3>2, <3>4 DEF Tells, NoneComesBack
    <3>6. \A c \in firstSeen..Len(callOf) :
            callOf[c] = owner[sink] => drawn.truncated \/ \E e \in shown : e.call = c
      BY <3>2, <3>3, <3>4 DEF Complete
    <3> QED BY <3>1, <3>3, <3>5, <3>6 DEF drawn, shown
  <2> QED BY <2>1, <2>2 DEF PanelTellsTheTruth
<1> QED BY <1>1, ChannelCorrect, PTL

-----------------------------------------------------------------------------
(***************************************************************************)
(* ObservationBus: what waits is the end of what was published, and every   *)
(* subscription has heard a beginning of it.                               *)
(***************************************************************************)
Starts(c) == [call |-> c, phase |-> "start"]
Ends(c) == [call |-> c, phase |-> "terminal"]

(* How much of the log has been walked to its last subscription. *)
Gone == Len(log) - Len(walk) - Len(queue)

WaitingInv ==
  /\ Gone \in Nat
  /\ \A k \in 1..Len(walk) : walk[k] = log[Gone + k]
  /\ \A k \in 1..Len(queue) : queue[k] = log[Gone + Len(walk) + k]

(* A call begins once and ends once, in that order. *)
LogInv ==
  /\ \A i \in 1..Len(log) : log[i].call \in IF log[i].phase = "start" THEN begun ELSE settled
  /\ \A i, j \in 1..Len(log) : log[i] = log[j] => i = j
  /\ \A c \in begun : \E i \in 1..Len(log) : log[i] = Starts(c)
  /\ \A i \in 1..Len(log) :
       log[i].phase = "terminal" => \E j \in 1..(i - 1) : log[j] = Starts(log[i].call)

Wants(s, i) == log[i].call >= since[s]

(* s was given what it wants of the first n events, and nothing else. *)
Heard(s, n) ==
  /\ \A i \in 1..n : Wants(s, i) => \E k \in 1..Len(received[s]) : received[s][k] = log[i]
  /\ \A k \in 1..Len(received[s]) : \E i \in 1..n : received[s][k] = log[i] /\ Wants(s, i)
  /\ \A k, l \in 1..Len(received[s]) : \A i, j \in 1..n :
       k < l /\ received[s][k] = log[i] /\ received[s][l] = log[j] => i < j

(* The present item counts for those who have been given it or passed over. *)
HeardUpTo(s) == IF walk # <<>> /\ s <= hearing THEN Gone + 1 ELSE Gone

HearingInv ==
  /\ \A s \in Subs : \E n \in 0..Len(log) : Heard(s, n)
  /\ \A s \in subscribed : Heard(s, HeardUpTo(s))

BusInv == BusTypeOK /\ WaitingInv /\ LogInv /\ HearingInv

-----------------------------------------------------------------------------
LEMMA EventParts ==
  ASSUME NEW e \in Event
  PROVE  /\ e.call \in Calls /\ e.phase \in {"start", "terminal"}
         /\ e.phase = "start" => e = Starts(e.call)
         /\ e.phase = "terminal" => e = Ends(e.call)
BY DEF Event, Starts, Ends

(* From what BusTypeOK says, once and for all. *)
LEMMA BusSequences ==
  ASSUME BusTypeOK
  PROVE  /\ log \in Seq(Event) /\ walk \in Seq(Event) /\ queue \in Seq(Event)
         /\ Len(log) \in Nat /\ Len(walk) \in Nat /\ Len(queue) \in Nat
         /\ Len(since) \in Nat /\ Len(received) = Len(since)
         /\ \A s \in Subs : since[s] \in Nat /\ received[s] \in Seq(Event)
<1>1. /\ log \in Seq(Event) /\ walk \in Seq(Event) /\ queue \in Seq(Event)
      /\ since \in Seq(1..(currentCall + 1)) /\ received \in Seq(Seq(Event))
      /\ Len(received) = Len(since)
  BY DEF BusTypeOK
<1>2. ASSUME NEW s \in Subs
      PROVE  since[s] \in 1..(currentCall + 1) /\ received[s] \in Seq(Event)
  <2>1. \A S : \A q \in Seq(S) : \A k \in 1..Len(q) : q[k] \in S
    OBVIOUS
  <2>2. s \in 1..Len(since) /\ s \in 1..Len(received)
    BY <1>1 DEF Subs
  <2>3. since[s] \in 1..(currentCall + 1)
    BY <1>1, <2>1, <2>2
  <2>4. received[s] \in Seq(Event)
    BY <1>1, <2>1, <2>2
  <2> QED BY <2>3, <2>4
<1>3. Len(log) \in Nat /\ Len(walk) \in Nat /\ Len(queue) \in Nat /\ Len(since) \in Nat
  BY <1>1
<1>4. \A n : 1..(n + 1) \subseteq Nat
  OBVIOUS
<1> QED BY <1>1, <1>2, <1>3, <1>4

(* What was heard stays heard when more is published. *)
LEMMA HeardKept ==
  ASSUME BusTypeOK, NEW s \in Subs, NEW n \in 0..Len(log), Heard(s, n),
         since'[s] = since[s], received'[s] = received[s],
         \A i \in 1..Len(log) : log'[i] = log[i]
  PROVE  Heard(s, n)'
<1>1. \A i \in 1..n : log'[i] = log[i]
  BY BusSequences
<1>2. (\A i \in 1..n : Wants(s, i) => \E k \in 1..Len(received[s]) : received[s][k] = log[i])'
  BY <1>1 DEF Heard, Wants
<1>3. (\A k \in 1..Len(received[s]) : \E i \in 1..n : received[s][k] = log[i] /\ Wants(s, i))'
  <2>1. \A k \in 1..Len(received[s]) : \E i \in 1..n : received[s][k] = log[i] /\ Wants(s, i)
    BY DEF Heard
  <2> QED BY <1>1, <2>1 DEF Wants
<1>4. (\A k, l \in 1..Len(received[s]) : \A i, j \in 1..n :
         k < l /\ received[s][k] = log[i] /\ received[s][l] = log[j] => i < j)'
  BY <1>1 DEF Heard
<1> QED BY <1>2, <1>3, <1>4 DEF Heard

(* An event that s does not want is heard by passing it over. *)
LEMMA HeardPassing ==
  ASSUME BusTypeOK, NEW s \in Subs, NEW n \in Nat, n + 1 <= Len(log), Heard(s, n), ~Wants(s, n + 1)
  PROVE  Heard(s, n + 1)
<1>1. received[s] \in Seq(Event)
  BY BusSequences
<1>2. ASSUME NEW i \in 1..(n + 1), Wants(s, i)
      PROVE  \E k \in 1..Len(received[s]) : received[s][k] = log[i]
  <2>1. i \in 1..n
    BY <1>2
  <2> QED BY <2>1, <1>2 DEF Heard
<1>3. ASSUME NEW k \in 1..Len(received[s])
      PROVE  \E i \in 1..(n + 1) : received[s][k] = log[i] /\ Wants(s, i)
  <2>1. PICK i \in 1..n : received[s][k] = log[i] /\ Wants(s, i)
    BY DEF Heard
  <2> QED BY <2>1
<1>4. ASSUME NEW k \in 1..Len(received[s]), NEW l \in 1..Len(received[s]),
             NEW i \in 1..(n + 1), NEW j \in 1..(n + 1),
             k < l, received[s][k] = log[i], received[s][l] = log[j]
      PROVE  i < j
  <2>1. PICK a \in 1..n : received[s][k] = log[a] /\ Wants(s, a)
    BY DEF Heard
  <2>2. PICK b \in 1..n : received[s][l] = log[b] /\ Wants(s, b)
    BY DEF Heard
  <2>3. i # n + 1 /\ j # n + 1
    BY <1>4, <2>1, <2>2 DEF Wants
  <2>4. i \in 1..n /\ j \in 1..n
    BY <2>3
  <2> QED BY <1>4, <2>4 DEF Heard
<1> QED BY <1>2, <1>3, <1>4 DEF Heard

(* An event that s wants is heard by being given it. *)
LEMMA HeardGiving ==
  ASSUME BusTypeOK, LogInv, NEW s \in Subs, NEW n \in Nat, n + 1 <= Len(log), Heard(s, n),
         Wants(s, n + 1), UNCHANGED <<log, since>>,
         received'[s] = Append(received[s], log[n + 1])
  PROVE  Heard(s, n + 1)'
<1> DEFINE old == received[s]
           new == received'[s]
<1>1. old \in Seq(Event) /\ log \in Seq(Event) /\ log[n + 1] \in Event
  BY BusSequences
<1>2. /\ Len(new) = Len(old) + 1 /\ new[Len(old) + 1] = log[n + 1]
      /\ \A k \in 1..Len(old) : new[k] = old[k]
  BY <1>1, AppendAt
<1>3. /\ Len(old) \in Nat /\ 1..(n + 1) \subseteq 1..Len(log) /\ 1..n \subseteq 1..(n + 1)
      /\ \A p, q \in 1..Len(log) : log[p] = log[q] => p = q
  BY <1>1 DEF LogInv
<1> HIDE DEF old, new
<1>4. ASSUME NEW i \in 1..(n + 1), Wants(s, i)
      PROVE  \E k \in 1..Len(new) : new[k] = log[i]
  <2>1. CASE i = n + 1
    BY <1>2, <1>3, <2>1
  <2>2. CASE i \in 1..n
    <3>1. PICK k \in 1..Len(old) : old[k] = log[i]
      BY <1>4, <2>2 DEF Heard, old
    <3> QED BY <1>2, <1>3, <3>1
  <2> QED BY <2>1, <2>2
<1>5. ASSUME NEW k \in 1..Len(new)
      PROVE  \E i \in 1..(n + 1) : new[k] = log[i] /\ Wants(s, i)
  <2>1. CASE k = Len(old) + 1
    BY <1>2, <2>1
  <2>2. CASE k \in 1..Len(old)
    <3>1. PICK i \in 1..n : old[k] = log[i] /\ Wants(s, i)
      BY <2>2 DEF Heard, old
    <3> QED BY <1>2, <2>2, <3>1
  <2> QED BY <1>2, <1>3, <2>1, <2>2
<1>6. ASSUME NEW k \in 1..Len(new), NEW l \in 1..Len(new),
             NEW i \in 1..(n + 1), NEW j \in 1..(n + 1),
             k < l, new[k] = log[i], new[l] = log[j]
      PROVE  i < j
  <2>1. k \in 1..Len(old)
    BY <1>2, <1>3, <1>6
  <2>2. PICK a \in 1..n : old[k] = log[a]
    BY <2>1 DEF Heard, old
  <2>3. i = a
    BY <1>2, <1>3, <1>6, <2>1, <2>2
  <2>4. CASE l = Len(old) + 1
    <3>1. j = n + 1
      BY <1>2, <1>3, <1>6, <2>4
    <3> QED BY <2>3, <3>1
  <2>5. CASE l \in 1..Len(old)
    <3>1. PICK b \in 1..n : old[l] = log[b]
      BY <2>5 DEF Heard, old
    <3>2. j = b
      BY <1>2, <1>3, <1>6, <2>5, <3>1
    <3> QED BY <1>2, <1>6, <2>1, <2>2, <2>3, <2>5, <3>1, <3>2 DEF Heard, old
  <2> QED BY <1>2, <1>3, <2>4, <2>5
<1> QED BY <1>4, <1>5, <1>6 DEF Heard, Wants, old, new

-----------------------------------------------------------------------------
LEMMA BusInitially == BusInit => BusInv
<1> SUFFICES ASSUME BusInit PROVE BusInv
  OBVIOUS
<1>1. BusTypeOK
  <2>1. \A S : <<>> \in Seq(S)
    OBVIOUS
  <2>2. Len(since) = 0 /\ Len(received) = 0 /\ since = <<>> /\ received = <<>>
    BY DEF BusInit
  <2>3. currentCall \in 0..MaxCalls /\ Len(since) <= MaxSubs
    BY <2>2, BusAssumption DEF BusInit
  <2>5. /\ begun \subseteq 1..currentCall /\ settled \subseteq begun
        /\ subscribed \subseteq Subs /\ draining \in BOOLEAN
    BY DEF BusInit
  <2>6. hearing \in 0..Len(since)
    BY <2>2 DEF BusInit
  <2>4. queue = <<>> /\ walk = <<>> /\ log = <<>> /\ hearing = 0
    BY DEF BusInit
  <2> QED BY <2>1, <2>2, <2>3, <2>4, <2>5, <2>6 DEF BusTypeOK
<1>2. WaitingInv /\ LogInv
  BY DEF BusInit, WaitingInv, LogInv, Gone
<1>3. HearingInv
  BY DEF BusInit, HearingInv, Subs
<1> QED BY <1>1, <1>2, <1>3 DEF BusInv

(* An event is published: it waits behind what waited, and nobody has heard   *)
(* it yet.                                                                 *)
LEMMA Publishing ==
  ASSUME BusInv, NEW e \in Event, Publish(e),
         UNCHANGED <<since, subscribed, walk, hearing, received>>
  PROVE  /\ log' \in Seq(Event) /\ queue' \in Seq(Event) /\ draining' = TRUE
         /\ Len(log') = Len(log) + 1 /\ log'[Len(log) + 1] = e
         /\ \A i \in 1..Len(log) : log'[i] = log[i]
         /\ WaitingInv' /\ HearingInv'
<1>0. BusTypeOK /\ WaitingInv /\ HearingInv
  BY DEF BusInv
<1>1. /\ log' \in Seq(Event) /\ Len(log') = Len(log) + 1 /\ log'[Len(log) + 1] = e
      /\ \A i \in 1..Len(log) : log'[i] = log[i]
  BY <1>0, BusSequences, AppendAt DEF Publish
<1>2. /\ queue' \in Seq(Event) /\ Len(queue') = Len(queue) + 1 /\ queue'[Len(queue) + 1] = e
      /\ \A i \in 1..Len(queue) : queue'[i] = queue[i]
  BY <1>0, BusSequences, AppendAt DEF Publish
<1>3. Gone \in Nat /\ Gone' = Gone /\ Gone + Len(walk) + Len(queue) = Len(log)
  BY <1>0, <1>1, <1>2, BusSequences DEF WaitingInv, Gone
<1>4. WaitingInv'
  <2>1. ASSUME NEW k \in 1..Len(walk) PROVE walk[k] = log'[Gone + k]
    <3>1. Gone + k \in 1..Len(log)
      BY <1>0, <1>3, BusSequences
    <3> QED BY <1>0, <1>1, <3>1 DEF WaitingInv
  <2>2. ASSUME NEW k \in 1..Len(queue') PROVE queue'[k] = log'[Gone + Len(walk) + k]
    <3>1. CASE k = Len(queue) + 1
      BY <1>0, <1>1, <1>2, <1>3, <3>1, BusSequences
    <3>2. CASE k \in 1..Len(queue)
      <4>1. Gone + Len(walk) + k \in 1..Len(log)
        BY <1>0, <1>3, <3>2, BusSequences
      <4> QED BY <1>0, <1>1, <1>2, <3>2, <4>1 DEF WaitingInv
    <3> QED BY <1>0, <1>2, <3>1, <3>2, BusSequences
  <2> QED BY <1>3, <2>1, <2>2 DEF WaitingInv
<1>5. ASSUME NEW s \in Subs, NEW n \in 0..Len(log), Heard(s, n) PROVE Heard(s, n)'
  BY <1>0, <1>1, <1>5, HeardKept
<1>6. HearingInv'
  <2>1. ASSUME NEW s \in Subs PROVE \E n \in 0..Len(log') : Heard(s, n)'
    <3>1. PICK n \in 0..Len(log) : Heard(s, n)
      BY <1>0 DEF HearingInv
    <3>2. n \in 0..Len(log')
      BY <1>0, <1>1, BusSequences
    <3> QED BY <1>5, <3>1, <3>2
  <2>2. ASSUME NEW s \in subscribed PROVE Heard(s, HeardUpTo(s))'
    <3>1. HeardUpTo(s) \in 0..Len(log) /\ HeardUpTo(s)' = HeardUpTo(s)
      BY <1>0, <1>3, BusSequences DEF HeardUpTo
    <3>2. s \in Subs
      BY <1>0 DEF BusTypeOK
    <3>3. Heard(s, HeardUpTo(s))
      BY <1>0 DEF HearingInv
    <3> HIDE DEF HeardUpTo
    <3>4. PICK n \in 0..Len(log) : n = HeardUpTo(s)
      BY <3>1
    <3>5. Heard(s, n)'
      BY <1>5, <3>2, <3>3, <3>4
    <3> QED BY <3>1, <3>4, <3>5 DEF Heard, Wants
  <2> QED BY <2>1, <2>2 DEF HearingInv, Subs
<1> QED BY <1>1, <1>2, <1>4, <1>6 DEF Publish

LEMMA BeginStep ==
  ASSUME BusInv, Begin
  PROVE  BusInv'
<1> DEFINE c == currentCall + 1
<1>0. BusTypeOK /\ LogInv
  BY DEF BusInv
<1>1. /\ currentCall \in Nat /\ currentCall' = c /\ c \in Calls /\ c \notin begun
      /\ begun' = begun \cup {c} /\ UNCHANGED <<settled, since, subscribed, walk, hearing, received>>
  BY <1>0, BusAssumption DEF Begin, BusTypeOK, Calls
<1>2. Starts(c) \in Event /\ Publish(Starts(c))
  BY <1>1 DEF Begin, Starts, Event
<1>3. /\ log' \in Seq(Event) /\ queue' \in Seq(Event) /\ draining' = TRUE
      /\ Len(log') = Len(log) + 1 /\ log'[Len(log) + 1] = Starts(c)
      /\ \A i \in 1..Len(log) : log'[i] = log[i]
      /\ WaitingInv' /\ HearingInv'
  BY <1>1, <1>2, Publishing
<1>4. BusTypeOK'
  <2>1. /\ currentCall' \in 0..MaxCalls /\ begun' \subseteq 1..currentCall' /\ settled' \subseteq begun'
    BY <1>0, <1>1, BusAssumption DEF BusTypeOK, Calls
  <2>2. since \in Seq(1..(currentCall' + 1))
    <3>1. 1..(currentCall + 1) \subseteq 1..(currentCall' + 1)
      BY <1>1
    <3> QED BY <1>0, <3>1, SequenceWidens DEF BusTypeOK
  <2> QED BY <1>0, <1>1, <1>3, <2>1, <2>2 DEF BusTypeOK, Subs
<1>5. LogInv'
  <2>1. \A i \in 1..Len(log') : i \in 1..Len(log) \/ i = Len(log) + 1
    BY <1>0, <1>3, BusSequences
  <2>2. \A i \in 1..Len(log) : log[i] \in Event /\ log[i].call # c
    <3>1. log \in Seq(Event) /\ settled \subseteq begun
      BY <1>0 DEF BusTypeOK
    <3>2. \A i \in 1..Len(log) : log[i].call \in begun
      BY <1>0, <3>1 DEF LogInv
    <3> QED BY <1>1, <3>1, <3>2
  <2>3. Starts(c).call = c /\ Starts(c).phase = "start"
    BY DEF Starts
  <2>4. \A i \in 1..Len(log') : log'[i].call \in IF log'[i].phase = "start" THEN begun' ELSE settled'
    BY <1>0, <1>1, <1>3, <2>1, <2>3 DEF LogInv
  <2>5. \A i, j \in 1..Len(log') : log'[i] = log'[j] => i = j
    BY <1>0, <1>3, <2>1, <2>2, <2>3 DEF LogInv
  <2>6. ASSUME NEW d \in begun' PROVE \E i \in 1..Len(log') : log'[i] = Starts(d)
    <3>1. CASE d = c
      BY <1>0, <1>3, <3>1, BusSequences
    <3>2. CASE d \in begun
      <4>1. PICK i \in 1..Len(log) : log[i] = Starts(d)
        BY <1>0, <3>2 DEF LogInv
      <4>2. i \in 1..Len(log')
        BY <1>0, <1>3, BusSequences
      <4> QED BY <1>3, <4>1, <4>2
    <3> QED BY <1>1, <3>1, <3>2
  <2>7. ASSUME NEW i \in 1..Len(log'), log'[i].phase = "terminal"
        PROVE  \E j \in 1..(i - 1) : log'[j] = Starts(log'[i].call)
    <3>1. i \in 1..Len(log)
      BY <1>3, <2>1, <2>3, <2>7
    <3>2. PICK j \in 1..(i - 1) : log[j] = Starts(log[i].call)
      BY <1>0, <1>3, <2>7, <3>1 DEF LogInv
    <3>3. j \in 1..Len(log)
      BY <1>0, <3>1, BusSequences
    <3> QED BY <1>3, <3>1, <3>2, <3>3
  <2> QED BY <2>4, <2>5, <2>6, <2>7 DEF LogInv
<1> QED BY <1>3, <1>4, <1>5 DEF BusInv

LEMMA FinishStep ==
  ASSUME BusInv, NEW c \in begun, Finish(c)
  PROVE  BusInv'
<1>0. BusTypeOK /\ LogInv
  BY DEF BusInv
<1>1. /\ c \in Calls /\ c \notin settled /\ settled' = settled \cup {c}
      /\ UNCHANGED <<currentCall, begun, since, subscribed, walk, hearing, received>>
  BY <1>0, BusAssumption DEF Finish, BusTypeOK, Calls
<1>2. Ends(c) \in Event /\ Publish(Ends(c))
  BY <1>1 DEF Finish, Ends, Event
<1>3. /\ log' \in Seq(Event) /\ queue' \in Seq(Event) /\ draining' = TRUE
      /\ Len(log') = Len(log) + 1 /\ log'[Len(log) + 1] = Ends(c)
      /\ \A i \in 1..Len(log) : log'[i] = log[i]
      /\ WaitingInv' /\ HearingInv'
  BY <1>1, <1>2, Publishing
<1>4. BusTypeOK'
  BY <1>0, <1>1, <1>3 DEF BusTypeOK, Subs
<1>5. LogInv'
  <2>1. \A i \in 1..Len(log') : i \in 1..Len(log) \/ i = Len(log) + 1
    BY <1>0, <1>3, BusSequences
  <2>2. Ends(c).call = c /\ Ends(c).phase = "terminal" /\ Ends(c).phase # "start"
    BY DEF Ends
  <2>3. \A i \in 1..Len(log) : log[i] # Ends(c)
    BY <1>0, <1>1, <2>2 DEF LogInv
  <2>4. \A i \in 1..Len(log') : log'[i].call \in IF log'[i].phase = "start" THEN begun' ELSE settled'
    BY <1>0, <1>1, <1>3, <2>1, <2>2 DEF LogInv
  <2>5. \A i, j \in 1..Len(log') : log'[i] = log'[j] => i = j
    BY <1>0, <1>3, <2>1, <2>3 DEF LogInv
  <2>6. ASSUME NEW d \in begun' PROVE \E i \in 1..Len(log') : log'[i] = Starts(d)
    <3>1. PICK i \in 1..Len(log) : log[i] = Starts(d)
      BY <1>0, <1>1 DEF LogInv
    <3>2. i \in 1..Len(log')
      BY <1>0, <1>3, BusSequences
    <3> QED BY <1>3, <3>1, <3>2
  <2>7. ASSUME NEW i \in 1..Len(log'), log'[i].phase = "terminal"
        PROVE  \E j \in 1..(i - 1) : log'[j] = Starts(log'[i].call)
    <3>1. CASE i = Len(log) + 1
      <4>1. PICK j \in 1..Len(log) : log[j] = Starts(c)
        BY <1>0 DEF LogInv
      <4>2. j \in 1..(i - 1)
        BY <1>0, <3>1, BusSequences
      <4> QED BY <1>3, <2>2, <3>1, <4>1, <4>2
    <3>2. CASE i \in 1..Len(log)
      <4>1. PICK j \in 1..(i - 1) : log[j] = Starts(log[i].call)
        BY <1>0, <1>3, <2>7, <3>2 DEF LogInv
      <4>2. j \in 1..Len(log)
        BY <1>0, <3>2, BusSequences
      <4> QED BY <1>3, <3>2, <4>1, <4>2
    <3> QED BY <2>1, <3>1, <3>2
  <2> QED BY <2>4, <2>5, <2>6, <2>7 DEF LogInv
<1> QED BY <1>3, <1>4, <1>5 DEF BusInv

(* Nothing of what was heard changes while nothing is published or given. *)
LEMMA HearingKept ==
  ASSUME HearingInv, UNCHANGED <<since, walk, hearing, queue, log, received>>,
         subscribed' \subseteq subscribed
  PROVE  HearingInv'
<1>1. ASSUME NEW s, NEW n, Heard(s, n) PROVE Heard(s, n)'
  BY <1>1 DEF Heard, Wants
<1>2. ASSUME NEW s \in Subs PROVE \E n \in 0..Len(log) : Heard(s, n)'
  BY <1>1 DEF HearingInv
<1>3. ASSUME NEW s \in subscribed PROVE Heard(s, HeardUpTo(s))'
  <2>1. PICK n : n = HeardUpTo(s)
    OBVIOUS
  <2>2. HeardUpTo(s)' = n
    BY <2>1 DEF HeardUpTo, Gone
  <2>3. Heard(s, n)'
    BY <1>1, <2>1 DEF HearingInv
  <2> QED BY <2>2, <2>3
<1> QED BY <1>2, <1>3 DEF HearingInv, Subs

(* A call of another bus leaves no trace on this one but the next id. *)
LEMMA ElsewhereStep ==
  ASSUME BusInv, BeginElsewhere
  PROVE  BusInv'
<1>0. BusTypeOK /\ WaitingInv /\ LogInv /\ HearingInv
  BY DEF BusInv
<1>1. /\ currentCall \in Nat /\ currentCall < MaxCalls /\ currentCall' = currentCall + 1
      /\ UNCHANGED <<begun, settled, since, subscribed, queue, draining, walk, hearing, log, received>>
  BY <1>0, BusAssumption DEF BeginElsewhere, BusTypeOK
<1>2. BusTypeOK'
  <2>1. 1..(currentCall + 1) \subseteq 1..(currentCall' + 1) /\ 1..currentCall \subseteq 1..currentCall'
    BY <1>1
  <2>2. since' \in Seq(1..(currentCall' + 1))
    BY <1>0, <1>1, <2>1, SequenceWidens DEF BusTypeOK
  <2>3. currentCall' \in 0..MaxCalls
    BY <1>1, BusAssumption
  <2> QED BY <1>0, <1>1, <2>1, <2>2, <2>3 DEF BusTypeOK, Subs
<1>3. WaitingInv'
  BY <1>0, <1>1 DEF WaitingInv, Gone
<1>4. LogInv'
  BY <1>0, <1>1 DEF LogInv
<1>5. HearingInv'
  BY <1>0, <1>1, HearingKept
<1> QED BY <1>2, <1>3, <1>4, <1>5 DEF BusInv

(* Whoever subscribes wants nothing of what was published. *)
LEMMA SubscribeStep ==
  ASSUME BusInv, Subscribe
  PROVE  BusInv'
<1> DEFINE new == Len(since) + 1
<1>0. BusTypeOK /\ WaitingInv /\ LogInv /\ HearingInv
  BY DEF BusInv
<1>1. /\ Len(since) < MaxSubs
      /\ since' = Append(since, currentCall + 1)
      /\ subscribed' = subscribed \cup {new}
      /\ received' = Append(received, <<>>)
      /\ UNCHANGED <<currentCall, begun, settled, queue, draining, walk, hearing, log>>
  BY DEF Subscribe, Since
<1>2. /\ currentCall \in Nat /\ Len(since) \in Nat /\ Len(received) = Len(since)
      /\ since \in Seq(1..(currentCall + 1)) /\ received \in Seq(Seq(Event)) /\ <<>> \in Seq(Event)
      /\ currentCall + 1 \in 1..(currentCall + 1)
  BY <1>0, BusSequences, BusAssumption DEF BusTypeOK
<1>3. /\ since' \in Seq(1..(currentCall + 1)) /\ Len(since') = new /\ since'[new] = currentCall + 1
      /\ \A s \in Subs : since'[s] = since[s]
  BY <1>1, <1>2, AppendAt DEF Subs
<1>4. /\ received' \in Seq(Seq(Event)) /\ Len(received') = new /\ received'[new] = <<>>
      /\ \A s \in Subs : received'[s] = received[s]
  <2>1. /\ received' \in Seq(Seq(Event)) /\ Len(received') = Len(received) + 1
        /\ received'[Len(received) + 1] = <<>>
        /\ \A s \in 1..Len(received) : received'[s] = received[s]
    BY <1>1, <1>2, AppendAt
  <2> QED BY <1>2, <2>1 DEF Subs
<1>5. Subs' = Subs \cup {new}
  BY <1>2, <1>3 DEF Subs
<1>6. BusTypeOK'
  <2>1. Len(since') <= MaxSubs /\ hearing' \in 0..Len(since')
    BY <1>0, <1>1, <1>2, <1>3, BusAssumption DEF BusTypeOK
  <2>2. subscribed' \subseteq Subs'
    BY <1>0, <1>1, <1>5 DEF BusTypeOK
  <2> QED BY <1>0, <1>1, <1>3, <1>4, <2>1, <2>2 DEF BusTypeOK
<1>7. WaitingInv' /\ Gone' = Gone
  BY <1>0, <1>1 DEF WaitingInv, Gone
<1>8. LogInv'
  BY <1>0, <1>1 DEF LogInv
<1>9. ASSUME NEW s \in Subs, NEW n \in 0..Len(log), Heard(s, n) PROVE Heard(s, n)'
  BY <1>0, <1>1, <1>3, <1>4, <1>9, HeardKept
<1>10. ASSUME NEW s \in {new}, NEW n \in 0..Len(log) PROVE Heard(s, n)'
  <2>1. \A i \in 1..n : ~(log[i].call >= currentCall + 1)
    <3>1. \A i \in 1..n : i \in 1..Len(log)
      BY <1>0, BusSequences
    <3>2. \A i \in 1..n : log[i].call \in 1..currentCall
      BY <1>0, <3>1 DEF LogInv, BusTypeOK
    <3> QED BY <1>2, <3>2
  <2>2. Len(received'[s]) = 0 /\ since'[s] = currentCall + 1
    BY <1>3, <1>4
  <2>3. (\A i \in 1..n : Wants(s, i) => \E k \in 1..Len(received[s]) : received[s][k] = log[i])'
    BY <1>1, <2>1, <2>2 DEF Wants
  <2> QED BY <2>2, <2>3 DEF Heard
<1>11. HearingInv'
  <2>1. ASSUME NEW s \in Subs' PROVE \E n \in 0..Len(log) : Heard(s, n)'
    <3>1. CASE s = new
      <4>1. 0 \in 0..Len(log)
        BY <1>0, BusSequences
      <4> QED BY <1>10, <3>1, <4>1
    <3>2. CASE s \in Subs
      BY <1>0, <1>9, <3>2 DEF HearingInv
    <3> QED BY <1>5, <3>1, <3>2
  <2>2. ASSUME NEW s \in subscribed' PROVE Heard(s, HeardUpTo(s))'
    <3>1. HeardUpTo(s) \in 0..Len(log) /\ HeardUpTo(s)' = HeardUpTo(s)
      BY <1>0, <1>1, <1>7, BusSequences DEF HeardUpTo, WaitingInv, Gone
    <3>2. PICK n \in 0..Len(log) : n = HeardUpTo(s)
      BY <3>1
    <3>3. Heard(s, n)'
      <4>1. CASE s = new
        BY <1>10, <4>1
      <4>2. CASE s \in subscribed
        <5>1. Heard(s, HeardUpTo(s)) /\ s \in Subs
          BY <1>0, <4>2 DEF HearingInv, BusTypeOK
        <5>2. Heard(s, n)
          BY <5>1, <3>2
        <5> QED BY <1>9, <5>1, <5>2
      <4> QED BY <1>1, <4>1, <4>2
    <3> HIDE DEF HeardUpTo
    <3> QED BY <3>1, <3>2, <3>3 DEF Heard, Wants
  <2> QED BY <1>1, <2>1, <2>2 DEF HearingInv
<1> QED BY <1>6, <1>7, <1>8, <1>11 DEF BusInv

LEMMA UnsubscribeStep ==
  ASSUME BusInv, NEW s \in Subs, Unsubscribe(s)
  PROVE  BusInv'
<1>0. BusTypeOK /\ WaitingInv /\ LogInv /\ HearingInv
  BY DEF BusInv
<1>1. /\ subscribed' \subseteq subscribed
      /\ UNCHANGED <<currentCall, begun, settled, since, queue, draining, walk, hearing, log, received>>
  BY DEF Unsubscribe
<1>2. BusTypeOK'
  BY <1>0, <1>1 DEF BusTypeOK, Subs
<1>3. WaitingInv'
  BY <1>0, <1>1 DEF WaitingInv, Gone
<1>4. LogInv'
  BY <1>0, <1>1 DEF LogInv
<1>5. HearingInv'
  BY <1>0, <1>1, HearingKept
<1> QED BY <1>2, <1>3, <1>4, <1>5 DEF BusInv

-----------------------------------------------------------------------------
(* The drain takes what waits, in its order. *)
LEMMA DrainStep ==
  ASSUME BusInv, Drain
  PROVE  BusInv'
<1>0. BusTypeOK /\ WaitingInv /\ LogInv /\ HearingInv
  BY DEF BusInv
<1>1. /\ walk = <<>> /\ walk' = queue /\ queue' = <<>> /\ hearing' = 0 /\ draining' = FALSE
      /\ UNCHANGED <<currentCall, begun, settled, since, subscribed, log, received>>
  BY DEF Drain
<1>2. Len(walk) = 0 /\ Len(queue') = 0 /\ Len(walk') = Len(queue)
  BY <1>1
<1>3. BusTypeOK'
  <2>1. <<>> \in Seq(Event) /\ 0 \in 0..Len(since)
    BY <1>0, BusSequences
  <2> QED BY <1>0, <1>1, <2>1 DEF BusTypeOK, Subs
<1>4. WaitingInv' /\ Gone' = Gone
  BY <1>0, <1>1, <1>2, BusSequences DEF WaitingInv, Gone
<1>5. LogInv'
  BY <1>0, <1>1 DEF LogInv
<1>6. HearingInv'
  <2>1. ASSUME NEW s \in Subs PROVE \E n \in 0..Len(log) : Heard(s, n)'
    <3>1. PICK n \in 0..Len(log) : Heard(s, n)
      BY <1>0 DEF HearingInv
    <3>2. Heard(s, n)'
      BY <1>0, <1>1, <3>1, HeardKept
    <3> QED BY <3>2
  <2>2. ASSUME NEW s \in subscribed PROVE Heard(s, HeardUpTo(s))'
    <3>1. s \in Nat \ {0}
      BY <1>0, BusSequences DEF BusTypeOK, Subs
    <3>2. HeardUpTo(s) = Gone /\ HeardUpTo(s)' = Gone
      BY <1>1, <1>4, <3>1 DEF HeardUpTo
    <3>3. Heard(s, HeardUpTo(s))
      BY <1>0 DEF HearingInv
    <3> HIDE DEF HeardUpTo
    <3> QED BY <1>1, <3>2, <3>3 DEF Heard, Wants
  <2> QED BY <1>1, <2>1, <2>2 DEF HearingInv, Subs
<1> QED BY <1>3, <1>4, <1>5, <1>6 DEF BusInv

(* The present item goes to the next who wants it; those between the last one *)
(* given it and this one do not.                                            *)
LEMMA DeliverStep ==
  ASSUME BusInv, Deliver
  PROVE  BusInv'
<1> DEFINE s == CHOOSE s \in Remaining : \A r \in Remaining : s <= r
<1>0. BusTypeOK /\ WaitingInv /\ LogInv /\ HearingInv
  BY DEF BusInv
<1>1. /\ walk # <<>> /\ Remaining # {} /\ hearing' = s
      /\ received' = [received EXCEPT ![hearing'] = Append(@, Head(walk))]
      /\ UNCHANGED <<currentCall, begun, settled, since, subscribed, queue, draining, walk, log>>
  BY DEF Deliver
<1>2. /\ Len(walk) # 0 /\ Gone \in Nat /\ Gone + 1 <= Len(log)
      /\ Head(walk) = log[Gone + 1] /\ log[Gone + 1] \in Event
  <2>1. walk \in Seq(Event) /\ Len(walk) \in Nat /\ Len(queue) \in Nat /\ log \in Seq(Event)
    BY <1>0, BusSequences
  <2>2. Len(walk) # 0 /\ Head(walk) = walk[1]
    BY <1>1, <2>1
  <2>3. Gone \in Nat /\ Gone + 1 <= Len(log) /\ 1 \in 1..Len(walk)
    BY <1>0, <2>1, <2>2 DEF WaitingInv, Gone
  <2>4. walk[1] = log[Gone + 1]
    BY <1>0, <2>3 DEF WaitingInv
  <2> QED BY <2>1, <2>2, <2>3, <2>4
<1>3. Remaining \subseteq Nat /\ Remaining \subseteq Subs /\ Subs \subseteq Nat /\ hearing \in Nat
  <2>1. Subs \subseteq Nat /\ hearing \in Nat
    BY <1>0 DEF BusTypeOK, Subs
  <2>2. Remaining \subseteq Subs
    BY <1>0 DEF BusTypeOK, Remaining
  <2> QED BY <2>1, <2>2
<1>4. s \in Remaining /\ \A r \in Remaining : s <= r
  <2>1. \E r \in Remaining : \A q \in Remaining : r <= q
    BY <1>1, <1>3, LeastExists
  <2> QED BY <2>1
<1> HIDE DEF s
<1>5. s \in Subs /\ s \in subscribed /\ s > hearing /\ Wants(s, Gone + 1)
  BY <1>2, <1>3, <1>4 DEF Remaining, Wants
<1>6. /\ received' \in Seq(Seq(Event)) /\ Len(received') = Len(received)
      /\ received'[s] = Append(received[s], log[Gone + 1])
      /\ \A r \in Subs : r # s => received'[r] = received[r]
  <2>1. s \in 1..Len(received) /\ received \in Seq(Seq(Event)) /\ received[s] \in Seq(Event)
    BY <1>0, <1>5, BusSequences DEF BusTypeOK, Subs
  <2>2. Append(received[s], log[Gone + 1]) \in Seq(Event)
    BY <1>2, <2>1
  <2>3. received' = [received EXCEPT ![s] = Append(received[s], log[Gone + 1])]
    BY <1>1, <1>2
  <2>4. Subs = 1..Len(received)
    BY <1>0, BusSequences DEF Subs
  <2> QED BY <2>1, <2>2, <2>3, <2>4
<1>7. BusTypeOK'
  <2>1. hearing' \in 0..Len(since)
    BY <1>1, <1>3, <1>5 DEF Subs
  <2> QED BY <1>0, <1>1, <1>6, <2>1 DEF BusTypeOK, Subs
<1>8. WaitingInv' /\ Gone' = Gone
  BY <1>0, <1>1 DEF WaitingInv, Gone
<1>9. LogInv'
  BY <1>0, <1>1 DEF LogInv
<1>10. ASSUME NEW r \in Subs, NEW n \in 0..Len(log), r # s, Heard(r, n) PROVE Heard(r, n)'
  BY <1>0, <1>1, <1>6, <1>10, HeardKept
<1>11. ASSUME NEW r \in Subs, r = s, NEW n \in Nat, n = Gone + 1 PROVE Heard(r, n)'
  <2>1. Heard(r, HeardUpTo(r)) /\ HeardUpTo(r) = Gone
    BY <1>0, <1>3, <1>5, <1>11 DEF HearingInv, HeardUpTo
  <2>2. PICK m \in Nat : m = Gone
    BY <1>2
  <2>3. Heard(r, m)
    BY <2>1, <2>2
  <2>4. /\ m + 1 <= Len(log) /\ Wants(r, m + 1) /\ received'[r] = Append(received[r], log[m + 1])
    BY <1>2, <1>5, <1>6, <1>11, <2>2
  <2>5. Heard(r, m + 1)'
    BY <1>0, <1>1, <2>3, <2>4, HeardGiving
  <2> QED BY <1>11, <2>2, <2>5
<1>12. HearingInv'
  <2>1. ASSUME NEW r \in Subs PROVE \E n \in 0..Len(log) : Heard(r, n)'
    <3>1. CASE r = s
      <4>1. PICK n \in Nat : n = Gone + 1
        BY <1>2
      <4>2. n \in 0..Len(log)
        BY <1>0, <1>2, <4>1, BusSequences
      <4> QED BY <1>11, <3>1, <4>1, <4>2
    <3>2. CASE r # s
      BY <1>0, <1>10, <3>2 DEF HearingInv
    <3> QED BY <3>1, <3>2
  <2>2. ASSUME NEW r \in subscribed PROVE Heard(r, HeardUpTo(r))'
    <3>0. r \in Subs /\ Heard(r, HeardUpTo(r)) /\ r \in Nat /\ s \in Nat
      BY <1>0, <1>3, <1>5 DEF HearingInv, BusTypeOK
    <3>1. HeardUpTo(r)' = IF r <= s THEN Gone + 1 ELSE Gone
      BY <1>1, <1>8 DEF HeardUpTo
    <3>2. PICK n \in Nat : n = IF r <= s THEN Gone + 1 ELSE Gone
      BY <1>2
    <3>3. n \in 0..Len(log)
      BY <1>0, <1>2, <3>2, BusSequences
    <3>4. Heard(r, n)'
      <4>1. CASE r = s
        BY <1>11, <3>0, <3>2, <4>1
      <4>2. CASE r # s
        <5>1. Heard(r, n)
          <6>1. CASE r <= hearing \/ r > s
            <7>1. HeardUpTo(r) = n
              BY <1>1, <1>3, <1>5, <3>0, <3>2, <6>1 DEF HeardUpTo
            <7> QED BY <3>0, <7>1
          <6>2. CASE r > hearing /\ r < s
            <7>1. r \notin Remaining /\ ~Wants(r, Gone + 1)
              BY <1>2, <1>4, <3>0, <6>2 DEF Remaining, Wants
            <7>2. HeardUpTo(r) = Gone /\ n = Gone + 1
              BY <1>3, <3>0, <3>2, <6>2 DEF HeardUpTo
            <7>3. PICK m \in Nat : m = Gone
              BY <1>2
            <7>4. Heard(r, m) /\ m + 1 <= Len(log) /\ ~Wants(r, m + 1)
              BY <1>2, <3>0, <7>1, <7>2, <7>3
            <7>5. Heard(r, m + 1)
              BY <1>0, <3>0, <7>4, HeardPassing
            <7> QED BY <7>2, <7>3, <7>5
          <6> QED BY <1>3, <3>0, <4>2, <6>1, <6>2
        <5> QED BY <1>10, <3>0, <3>3, <4>2, <5>1
      <4> QED BY <4>1, <4>2
    <3> HIDE DEF HeardUpTo
    <3> QED BY <3>1, <3>2, <3>4 DEF Heard, Wants
  <2> QED BY <1>1, <2>1, <2>2 DEF HearingInv, Subs
<1> QED BY <1>7, <1>8, <1>9, <1>12 DEF BusInv

(* An item nobody is left for has been heard by everyone. *)
LEMMA WalkedStep ==
  ASSUME BusInv, Walked
  PROVE  BusInv'
<1>0. BusTypeOK /\ WaitingInv /\ LogInv /\ HearingInv
  BY DEF BusInv
<1>1. /\ walk # <<>> /\ Remaining = {} /\ walk' = Tail(walk) /\ hearing' = 0
      /\ draining' = (draining \/ (walk' = <<>> /\ queue # <<>>))
      /\ UNCHANGED <<currentCall, begun, settled, since, subscribed, queue, log, received>>
  BY DEF Walked
<1>2. /\ walk \in Seq(Event) /\ Len(walk) \in Nat \ {0} /\ Len(queue) \in Nat
      /\ walk' \in Seq(Event) /\ Len(walk') = Len(walk) - 1 /\ Head(walk) = walk[1]
      /\ \A k \in 1..Len(walk') : walk'[k] = walk[k + 1]
  BY <1>0, <1>1, BusSequences
<1>3. /\ Gone \in Nat /\ Gone + 1 <= Len(log) /\ Gone' = Gone + 1
      /\ Head(walk) = log[Gone + 1]
  <2>1. Gone \in Nat /\ Gone + 1 <= Len(log) /\ Gone' = Gone + 1
    BY <1>0, <1>1, <1>2, BusSequences DEF WaitingInv, Gone
  <2>2. walk[1] = log[Gone + 1]
    BY <1>0, <1>2 DEF WaitingInv
  <2> QED BY <1>2, <2>1, <2>2
<1>4. BusTypeOK'
  <2>1. 0 \in 0..Len(since) /\ draining' \in BOOLEAN
    BY <1>0, <1>1, BusSequences DEF BusTypeOK
  <2> QED BY <1>0, <1>1, <1>2, <2>1 DEF BusTypeOK, Subs
<1>5. WaitingInv'
  <2>1. ASSUME NEW k \in 1..Len(walk') PROVE walk'[k] = log[Gone + 1 + k]
    <3>1. k + 1 \in 1..Len(walk) /\ walk'[k] = walk[k + 1]
      BY <1>2
    <3>2. walk[k + 1] = log[Gone + (k + 1)]
      BY <1>0, <3>1 DEF WaitingInv
    <3>3. Gone + (k + 1) = Gone + 1 + k
      BY <1>3
    <3> QED BY <3>1, <3>2, <3>3
  <2>2. ASSUME NEW k \in 1..Len(queue) PROVE queue[k] = log[Gone + 1 + Len(walk') + k]
    <3>1. Gone + 1 + Len(walk') + k = Gone + Len(walk) + k
      BY <1>2, <1>3
    <3> QED BY <1>0, <3>1 DEF WaitingInv
  <2> QED BY <1>1, <1>3, <2>1, <2>2 DEF WaitingInv
<1>6. LogInv'
  BY <1>0, <1>1 DEF LogInv
<1>7. HearingInv'
  <2>1. ASSUME NEW r \in Subs PROVE \E n \in 0..Len(log) : Heard(r, n)'
    <3>1. PICK n \in 0..Len(log) : Heard(r, n)
      BY <1>0 DEF HearingInv
    <3>2. Heard(r, n)'
      BY <1>0, <1>1, <3>1, HeardKept
    <3> QED BY <3>2
  <2>2. ASSUME NEW r \in subscribed PROVE Heard(r, HeardUpTo(r))'
    <3>0. r \in Subs /\ Heard(r, HeardUpTo(r)) /\ r \in Nat \ {0} /\ hearing \in Nat
      BY <1>0, BusSequences DEF HearingInv, BusTypeOK, Subs
    <3>1. HeardUpTo(r)' = Gone + 1
      BY <1>1, <1>3, <3>0 DEF HeardUpTo
    <3>2. PICK m \in Nat : m = Gone
      BY <1>3
    <3>3. Heard(r, m + 1)
      <4>1. CASE r <= hearing
        BY <1>1, <3>0, <3>2, <4>1 DEF HeardUpTo
      <4>2. CASE r > hearing
        <5>1. ~Wants(r, m + 1)
          BY <1>1, <1>3, <3>0, <3>2, <4>2 DEF Remaining, Wants
        <5>2. Heard(r, m)
          BY <1>3, <3>0, <3>2, <4>2 DEF HeardUpTo
        <5> QED BY <1>0, <1>3, <3>0, <3>2, <5>1, <5>2, HeardPassing
      <4> QED BY <3>0, <4>1, <4>2
    <3> HIDE DEF HeardUpTo
    <3> QED BY <1>1, <3>1, <3>2, <3>3 DEF Heard, Wants
  <2> QED BY <1>1, <2>1, <2>2 DEF HearingInv, Subs
<1> QED BY <1>4, <1>5, <1>6, <1>7 DEF BusInv

LEMMA BusStep == BusInv /\ [BusNext]_busVars => BusInv'
<1> SUFFICES ASSUME BusInv, [BusNext]_busVars PROVE BusInv'
  OBVIOUS
<1>1. CASE UNCHANGED busVars
  <2>1. BusTypeOK /\ WaitingInv /\ LogInv /\ HearingInv
    BY DEF BusInv
  <2>2. BusTypeOK'
    BY <1>1, <2>1 DEF busVars, BusTypeOK, Subs
  <2>3. WaitingInv' /\ LogInv'
    BY <1>1, <2>1 DEF busVars, WaitingInv, LogInv, Gone
  <2>4. HearingInv'
    BY <1>1, <2>1, HearingKept DEF busVars
  <2> QED BY <2>2, <2>3, <2>4 DEF BusInv
<1> QED BY <1>1, BeginStep, FinishStep, ElsewhereStep, SubscribeStep, UnsubscribeStep, DrainStep,
           DeliverStep, WalkedStep DEF BusNext, BusApplication

LEMMA BusCorrect == BusSpec => []BusInv
BY BusInitially, BusStep, PTL DEF BusSpec

-----------------------------------------------------------------------------
(* The subscriptions, the queue and the drain keep their types, and what is   *)
(* queued has a drain scheduled or running (observation.ts, publish).        *)
THEOREM BusTyped == BusSpec => []BusTypeOK
<1>1. BusInv => BusTypeOK
  BY DEF BusInv
<1> QED BY <1>1, BusCorrect, PTL

(* An ending is given to those, and only to those, who were given the         *)
(* beginning before it, and once (observation.ts, the since of a subscription *)
(* and the drain).                                                          *)
THEOREM EndingsFollowBeginnings == BusSpec => []WellPaired
<1>1. BusInv => WellPaired
  <2> SUFFICES ASSUME BusInv, NEW s \in Subs, NEW i \in DOMAIN received[s]
               PROVE  LET e == received[s][i]
                          Earlier(phase) == \E k \in 1..(i - 1) :
                                              received[s][k] = [call |-> e.call, phase |-> phase]
                      IN  /\ (e.phase = "terminal") = Earlier("start")
                          /\ ~Earlier("terminal")
    BY DEF WellPaired
  <2> DEFINE got == received[s]
             e == got[i]
  <2>1. BusTypeOK /\ LogInv
    BY DEF BusInv
  <2>2. /\ got \in Seq(Event) /\ i \in 1..Len(got) /\ Len(got) \in Nat /\ e \in Event
        /\ log \in Seq(Event) /\ Len(log) \in Nat
    BY <2>1, BusSequences
  <2>3. PICK n \in 0..Len(log) : Heard(s, n)
    BY DEF BusInv, HearingInv
  <2> HIDE DEF got, e
  <2>4. PICK p \in 1..n : e = log[p] /\ Wants(s, p)
    BY <2>2, <2>3 DEF Heard, got, e
  <2>5. /\ 1..n \subseteq 1..Len(log)
        /\ \A a, b \in 1..Len(log) : log[a] = log[b] => a = b
    BY <2>1, <2>2 DEF LogInv
  <2>6. ASSUME NEW k \in 1..(i - 1) PROVE \E q \in 1..(p - 1) : got[k] = log[q]
    <3>1. k \in 1..Len(got) /\ k < i
      BY <2>2
    <3>2. PICK q \in 1..n : got[k] = log[q]
      BY <2>3, <3>1 DEF Heard, got
    <3>3. q < p
      BY <2>2, <2>3, <2>4, <3>1, <3>2 DEF Heard, got, e
    <3> QED BY <3>2, <3>3
  <2>7. ASSUME e.phase = "terminal" PROVE \E k \in 1..(i - 1) : got[k] = Starts(e.call)
    <3>1. PICK q \in 1..(p - 1) : log[q] = Starts(log[p].call)
      BY <2>1, <2>4, <2>5, <2>7 DEF LogInv
    <3>2. q \in 1..n /\ log[q].call = log[p].call
      BY <3>1 DEF Starts
    <3>3. Wants(s, q)
      BY <2>4, <3>2 DEF Wants
    <3>4. PICK k \in 1..Len(got) : got[k] = log[q]
      BY <2>3, <3>2, <3>3 DEF Heard, got
    <3>5. k < i
      <4>1. CASE k = i
        <5>1. p = q
          BY <2>4, <2>5, <3>2, <3>4, <4>1 DEF e
        <5> QED BY <3>1, <5>1
      <4>2. CASE i < k
        <5>1. p < q
          BY <2>2, <2>3, <2>4, <3>2, <3>4, <4>2 DEF Heard, got, e
        <5> QED BY <3>1, <5>1
      <4> QED BY <2>2, <4>1, <4>2
    <3> QED BY <2>2, <2>4, <3>1, <3>4, <3>5
  <2>8. ASSUME NEW k \in 1..(i - 1), got[k] = Starts(e.call) PROVE e.phase = "terminal"
    <3>1. PICK q \in 1..(p - 1) : got[k] = log[q]
      BY <2>6
    <3>2. CASE e.phase = "start"
      <4>1. log[q] = log[p]
        BY <2>2, <2>4, <2>8, <3>1, <3>2, EventParts
      <4>2. q \in 1..Len(log) /\ q # p
        BY <2>5
      <4> QED BY <2>5, <4>1, <4>2
    <3> QED BY <2>2, <3>2, EventParts
  <2>9. ASSUME NEW k \in 1..(i - 1), got[k] = Ends(e.call) PROVE FALSE
    <3>1. PICK q \in 1..(p - 1) : got[k] = log[q]
      BY <2>6
    <3>2. q \in 1..Len(log) /\ q # p
      BY <2>5
    <3>3. CASE e.phase = "terminal"
      <4>1. log[q] = log[p]
        BY <2>2, <2>4, <2>9, <3>1, <3>3, EventParts
      <4> QED BY <2>5, <3>2, <4>1
    <3>4. CASE e.phase = "start"
      <4>1. log[q].phase = "terminal" /\ log[q].call = e.call
        BY <2>9, <3>1 DEF Ends
      <4>2. PICK r \in 1..(q - 1) : log[r] = Starts(e.call)
        BY <2>1, <3>2, <4>1 DEF LogInv
      <4>3. log[r] = log[p]
        BY <2>2, <2>4, <3>4, <4>2, EventParts
      <4>4. r \in 1..Len(log) /\ r # p
        BY <2>5
      <4> QED BY <2>5, <4>3, <4>4
    <3> QED BY <2>2, <3>3, <3>4, EventParts
  <2> QED BY <2>7, <2>8, <2>9 DEF got, e, Starts, Ends
<1> QED BY <1>1, BusCorrect, PTL

(* Of what was published, the drains still owe a live subscription the end,   *)
(* and have given it of the rest what it is to hear, once and in order,       *)
(* whatever the sinks did meanwhile (observation.ts, drain).                 *)
THEOREM OncePerSubscriber == BusSpec => []ExactlyOnceInOrder
<1>1. BusInv => ExactlyOnceInOrder
  <2> SUFFICES ASSUME BusInv, NEW s \in subscribed
               PROVE  LET given == received[s]
                          Wanted(e) == e.call >= since[s]
                          told == Len(log) - Len(Pending(s))
                      IN  /\ \A k \in DOMAIN Pending(s) : Pending(s)[k] = log[told + k]
                          /\ \A i \in 1..told : Wanted(log[i]) => Contains(given, log[i])
                          /\ \A k \in DOMAIN given : \E i \in 1..told : given[k] = log[i] /\ Wanted(log[i])
                          /\ \A k, l \in DOMAIN given : \A i, j \in DOMAIN log :
                               k < l /\ given[k] = log[i] /\ given[l] = log[j] => i < j
    BY DEF ExactlyOnceInOrder
  <2> DEFINE told == HeardUpTo(s)
             left == IF walk # <<>> /\ s <= hearing THEN Tail(walk) ELSE walk
             skip == IF walk # <<>> /\ s <= hearing THEN 1 ELSE 0
  <2>1. BusTypeOK /\ WaitingInv /\ LogInv /\ Heard(s, told) /\ s \in Subs
    BY DEF BusInv, HearingInv, BusTypeOK
  <2>2. /\ walk \in Seq(Event) /\ queue \in Seq(Event) /\ log \in Seq(Event) /\ received[s] \in Seq(Event)
        /\ Len(walk) \in Nat /\ Len(queue) \in Nat /\ Len(log) \in Nat
    BY <2>1, BusSequences
  <2>3. /\ left \in Seq(Event) /\ Len(left) = Len(walk) - skip /\ Len(left) \in Nat /\ skip \in 0..1
        /\ \A k \in 1..Len(left) : left[k] = walk[k + skip]
    <3>1. CASE walk # <<>> /\ s <= hearing
      BY <2>2, <3>1
    <3>2. CASE ~(walk # <<>> /\ s <= hearing)
      BY <2>2, <3>2
    <3> QED BY <3>1, <3>2
  <2>4. Gone \in Nat /\ Gone + Len(walk) + Len(queue) = Len(log) /\ told = Gone + skip
    BY <2>1, <2>2 DEF WaitingInv, Gone, HeardUpTo
  <2> HIDE DEF left, skip, told
  <2>5. /\ Pending(s) \in Seq(Event) /\ Len(Pending(s)) = Len(left) + Len(queue)
        /\ \A k \in 1..Len(left) : Pending(s)[k] = left[k]
        /\ \A k \in 1..Len(queue) : Pending(s)[Len(left) + k] = queue[k]
    <3>1. Pending(s) = left \o queue
      BY DEF Pending, left
    <3>2. left \in Seq(Event) /\ queue \in Seq(Event)
      BY <2>2, <2>3
    <3>3. /\ left \o queue \in Seq(Event) /\ Len(left \o queue) = Len(left) + Len(queue)
          /\ \A k \in 1..Len(left) : (left \o queue)[k] = left[k]
          /\ \A k \in 1..Len(queue) : (left \o queue)[Len(left) + k] = queue[k]
      BY <3>2, JoinedAt
    <3> QED BY <3>1, <3>3
  <2>6. Len(log) - Len(Pending(s)) = told /\ told \in 0..Len(log)
    <3>1. Len(Pending(s)) = Len(walk) - skip + Len(queue) /\ skip \in Nat /\ Len(walk) - skip >= 0
      BY <2>2, <2>3, <2>5
    <3>2. Len(walk) \in Nat /\ Len(queue) \in Nat /\ Len(log) \in Nat
      BY <2>2
    <3> QED BY <2>4, <3>1, <3>2
  <2>7. ASSUME NEW k \in 1..Len(Pending(s)) PROVE Pending(s)[k] = log[told + k]
    <3>1. CASE k \in 1..Len(left)
      <4>1. k + skip \in 1..Len(walk) /\ told + k = Gone + (k + skip)
        BY <2>2, <2>3, <2>4, <3>1
      <4>2. walk[k + skip] = log[Gone + (k + skip)]
        BY <2>1, <4>1 DEF WaitingInv
      <4> QED BY <2>3, <2>5, <3>1, <4>1, <4>2
    <3>2. CASE k \notin 1..Len(left)
      <4>1. PICK m \in 1..Len(queue) : k = Len(left) + m
        <5>1. k - Len(left) \in 1..Len(queue) /\ k = Len(left) + (k - Len(left))
          BY <2>2, <2>3, <2>5, <3>2
        <5> QED BY <5>1
      <4>2. told + k = Gone + Len(walk) + m
        BY <2>2, <2>3, <2>4, <4>1
      <4> QED BY <2>1, <2>5, <4>1, <4>2 DEF WaitingInv
    <3> QED BY <3>1, <3>2
  <2>8. /\ DOMAIN Pending(s) = 1..Len(Pending(s)) /\ DOMAIN received[s] = 1..Len(received[s])
        /\ DOMAIN log = 1..Len(log)
    BY <2>2, <2>5
  <2>9. \A i \in 1..told : log[i].call >= since[s] => Contains(received[s], log[i])
    BY <2>1 DEF Heard, Wants, Contains
  <2>10. \A k \in 1..Len(received[s]) : \E i \in 1..told : received[s][k] = log[i] /\ log[i].call >= since[s]
    BY <2>1 DEF Heard, Wants
  <2>11. ASSUME NEW k \in 1..Len(received[s]), NEW l \in 1..Len(received[s]),
                NEW i \in 1..Len(log), NEW j \in 1..Len(log),
                k < l, received[s][k] = log[i], received[s][l] = log[j]
         PROVE  i < j
    <3>1. PICK a \in 1..told : received[s][k] = log[a]
      BY <2>10
    <3>2. PICK b \in 1..told : received[s][l] = log[b]
      BY <2>10
    <3>3. a \in 1..Len(log) /\ b \in 1..Len(log)
      BY <2>6
    <3>4. a = i /\ b = j
      BY <2>1, <2>11, <3>1, <3>2, <3>3 DEF LogInv
    <3> QED BY <2>1, <2>11, <3>1, <3>2, <3>4 DEF Heard
  <2> QED BY <2>6, <2>7, <2>8, <2>9, <2>10, <2>11
<1> QED BY <1>1, BusCorrect, PTL

(* With no drain scheduled and none running, everyone has heard of all that   *)
(* is theirs to hear of (observation.ts, publish and drain).                *)
THEOREM NobodyIsBehindAtRest == BusSpec => []HeardAtRest
<1>1. BusTypeOK /\ ExactlyOnceInOrder => HeardAtRest
  <2> SUFFICES ASSUME BusTypeOK, ExactlyOnceInOrder, ~draining, walk = <<>>,
                      NEW s \in subscribed, NEW i \in DOMAIN log, log[i].call >= since[s]
               PROVE  Contains(received[s], log[i])
    BY DEF HeardAtRest, Behind
  <2>1. queue = <<>> /\ log \in Seq(Event)
    BY DEF BusTypeOK
  <2>2. Pending(s) = <<>>
    BY <2>1 DEF Pending
  <2>3. i \in 1..(Len(log) - Len(Pending(s)))
    BY <2>1, <2>2
  <2> QED BY <2>3 DEF ExactlyOnceInOrder
<1> QED BY <1>1, BusTyped, OncePerSubscriber, PTL

-----------------------------------------------------------------------------
(***************************************************************************)
(* ConfirmationSurface: a person approves what they see.                   *)
(***************************************************************************)
(* The updaters that may wait: prompts asked for, and calls that have ended.  *)
Given ==
  {Update("ask", c, "none") : c \in Prompts} \cup {Update("abort", c, "none") : c \in over}

TwoParts(s) == s = [top |-> s.top, held |-> s.held]

(* Somebody looks at the prompt of a call that has not ended. *)
Looked == shownPrompt # Nobody /\ shownPrompt \notin over

(* What the person looks at is the top of what the updaters leave, until its  *)
(* call ends: no updater that waits takes another call's prompt away.        *)
PromptInv ==
  /\ TwoParts(surface)
  /\ updates \in Seq(Given)
  /\ Looked => surface.top = shownPrompt
  /\ answer = [c \in Prompts |-> answer[c]]

LEMMA QueueFiltered ==
  ASSUME NEW s, TwoParts(s), NEW dropped
  PROVE  TwoParts(QueueWithout(s, dropped)) /\ QueueWithout(s, dropped).top = s.top
<1> DEFINE remaining == Filtered(s.held, dropped)
<1>1. QueueWithout(s, dropped) = [s EXCEPT !.held = remaining]
  BY DEF QueueWithout
<1> HIDE DEF remaining
<1>2. [s EXCEPT !.held = remaining] = [top |-> s.top, held |-> remaining]
  BY DEF TwoParts
<1>3. QED
  BY <1>1, <1>2 DEF TwoParts

LEMMA AskedKeeps ==
  ASSUME NEW s, TwoParts(s), NEW c
  PROVE  TwoParts(Asked(s, c)) /\ (s.top # Nobody => Asked(s, c).top = s.top)
<1> DEFINE remaining == Append(s.held, c)
<1>1. Asked(s, c) = IF s.top = Nobody THEN [s EXCEPT !.top = c] ELSE [s EXCEPT !.held = remaining]
  BY DEF Asked
<1> HIDE DEF remaining
<1>2. /\ [s EXCEPT !.held = remaining] = [top |-> s.top, held |-> remaining]
      /\ [s EXCEPT !.top = c] = [top |-> c, held |-> s.held]
  BY DEF TwoParts
<1>3. QED
  BY <1>1, <1>2 DEF TwoParts

LEMMA ShiftedWell ==
  ASSUME NEW s, TwoParts(s)
  PROVE  TwoParts(Shifted(s))
<1>1. [s EXCEPT !.top = Nobody] = [top |-> Nobody, held |-> s.held]
  BY DEF TwoParts
<1>2. QED
  BY <1>1 DEF Shifted, TwoParts

LEMMA TakenBackKeeps ==
  ASSUME NEW s, TwoParts(s), NEW c
  PROVE  TwoParts(TakenBack(s, c)) /\ (s.top # c => TakenBack(s, c).top = s.top)
BY ShiftedWell DEF TakenBack

(* One updater, and what somebody looks at. *)
LEMMA AppliedKeeps ==
  ASSUME NEW s, TwoParts(s), NEW u \in Given
  PROVE  TwoParts(Applied(s, u)) /\ (Looked /\ s.top = shownPrompt => Applied(s, u).top = shownPrompt)
<1>1. ASSUME NEW c \in Prompts, u = Update("ask", c, "none")
      PROVE  TwoParts(Applied(s, u)) /\ (Looked /\ s.top = shownPrompt => Applied(s, u).top = shownPrompt)
  <2>1. Applied(s, u) = Asked(s, c)
    BY <1>1 DEF Applied, Update
  <2>2. QED
    BY <2>1, AskedKeeps DEF Looked
<1>2. ASSUME NEW c \in over, u = Update("abort", c, "none")
      PROVE  TwoParts(Applied(s, u)) /\ (Looked /\ s.top = shownPrompt => Applied(s, u).top = shownPrompt)
  <2>1. Applied(s, u) = TakenBack(s, c)
    BY <1>2 DEF Applied, Update
  <2>2. QED
    BY <2>1, TakenBackKeeps DEF Looked
<1>3. QED
  BY <1>1, <1>2 DEF Given

(* The recursive function is there: each of its beginnings is.                *)
Evaluates(f, m) ==
  f = [n \in 0..m |-> IF n = 0 THEN surface ELSE Applied(f[n - 1], updates[n])]

LEMMA OneMoreUpdate ==
  ASSUME NEW m \in Nat, NEW f, Evaluates(f, m)
  PROVE  \E g : Evaluates(g, m + 1)
<1> DEFINE g == [n \in 0..(m + 1) |-> IF n = m + 1 THEN Applied(f[m], updates[m + 1]) ELSE f[n]]
           h == [n \in 0..(m + 1) |-> IF n = 0 THEN surface ELSE Applied(g[n - 1], updates[n])]
<1>1. ASSUME NEW n \in 0..(m + 1) PROVE g[n] = h[n]
  <2>1. CASE n = m + 1
    <3>1. g[n] = Applied(f[m], updates[m + 1]) /\ n # 0
      BY <2>1
    <3>2. n - 1 = m /\ g[m] = f[m]
      BY <2>1
    <3>3. QED
      BY <2>1, <3>1, <3>2
  <2>2. CASE n = 0
    <3>1. g[n] = f[0] /\ f[0] = surface
      BY <2>2 DEF Evaluates
    <3>2. QED
      BY <2>2, <3>1
  <2>3. CASE n # 0 /\ n # m + 1
    <3>1. n \in 1..m /\ n - 1 \in 0..m /\ n - 1 # m + 1
      BY <2>3
    <3>2. g[n] = f[n] /\ g[n - 1] = f[n - 1]
      BY <2>3, <3>1
    <3>3. f[n] = Applied(f[n - 1], updates[n])
      BY <3>1 DEF Evaluates
    <3>4. QED
      BY <2>3, <3>2, <3>3
  <2>4. QED
    BY <2>1, <2>2, <2>3
<1>2. g = h
  BY <1>1
<1>3. QED
  BY <1>2 DEF Evaluates

LEMMA EvaluationExists == ASSUME NEW m \in Nat PROVE \E f : Evaluates(f, m)
<1> DEFINE bad == {k \in Nat : ~\E f : Evaluates(f, k)}
<1>1. SUFFICES ASSUME bad # {} PROVE FALSE
  OBVIOUS
<1>2. PICK k \in bad : \A q \in bad : k <= q
  <2> HIDE DEF bad
  <2>1. bad \subseteq Nat
    BY DEF bad
  <2>2. QED
    BY <1>1, <2>1, LeastExists
<1>3. Evaluates([n \in 0..0 |-> surface], 0)
  BY DEF Evaluates
<1>4. k # 0
  BY <1>3
<1>5. k - 1 \in Nat /\ k - 1 \notin bad
  BY <1>2, <1>4
<1>6. PICK f : Evaluates(f, k - 1)
  BY <1>5
<1>7. \E g : Evaluates(g, (k - 1) + 1)
  BY <1>5, <1>6, OneMoreUpdate
<1>8. QED
  BY <1>7

LEMMA AfterUnfolds ==
  ASSUME PromptInv, NEW n \in 0..Len(updates)
  PROVE  After[n] = IF n = 0 THEN surface ELSE Applied(After[n - 1], updates[n])
<1>1. Len(updates) \in Nat
  BY DEF PromptInv
<1>2. \E f : Evaluates(f, Len(updates))
  BY <1>1, EvaluationExists
<1>3. After = CHOOSE f : Evaluates(f, Len(updates))
  BY DEF After, Evaluates
<1>4. Evaluates(After, Len(updates))
  BY <1>2, <1>3
<1>5. QED
  BY <1>4 DEF Evaluates

(* Whatever waits, what somebody looks at is still there when it is evaluated. *)
LEMMA EvaluatedKeeps ==
  ASSUME PromptInv
  PROVE  TwoParts(Evaluated) /\ (Looked => Evaluated.top = shownPrompt)
<1> DEFINE Well(s) == TwoParts(s) /\ (Looked => s.top = shownPrompt)
           bad == {k \in 0..Len(updates) : ~Well(After[k])}
<1>1. Len(updates) \in Nat
  BY DEF PromptInv
<1>2. ASSUME NEW k \in bad, \A q \in bad : k <= q PROVE FALSE
  <2>1. k \in 0..Len(updates) /\ ~Well(After[k])
    OBVIOUS
  <2>2. Well(surface)
    BY DEF PromptInv
  <2> HIDE DEF Well
  <2>3. k # 0
    <3>1. After[0] = surface
      BY <1>1, AfterUnfolds
    <3>2. QED
      BY <2>1, <2>2, <3>1
  <2>4. k - 1 \in 0..Len(updates) /\ k \in 1..Len(updates)
    BY <1>1, <2>1, <2>3
  <2>5. Well(After[k - 1])
    <3>1. k - 1 \notin bad
      BY <1>1, <1>2, <2>4
    <3>2. QED
      BY <2>4, <3>1
  <2>6. After[k] = Applied(After[k - 1], updates[k]) /\ updates[k] \in Given
    BY <2>1, <2>3, <2>4, AfterUnfolds DEF PromptInv
  <2>7. Well(Applied(After[k - 1], updates[k]))
    BY <2>5, <2>6, AppliedKeeps DEF Well
  <2>8. QED
    BY <2>1, <2>6, <2>7
<1>3. bad = {}
  <2> HIDE DEF bad
  <2>1. bad \subseteq Nat
    BY <1>1 DEF bad
  <2>2. QED
    BY <1>2, <2>1, LeastExists
<1>4. Well(After[Len(updates)])
  <2> HIDE DEF Well
  <2>1. Len(updates) \in 0..Len(updates)
    BY <1>1
  <2>2. QED
    BY <1>3, <2>1
<1>5. QED
  BY <1>4 DEF Evaluated


(* The change of one asker: its updater is applied or waits, and a held prompt *)
(* of an ended call goes.                                                    *)
LEMMA GivenKeeps ==
  ASSUME PromptInv, NEW u, NEW dropped, Give(u, dropped),
         over \subseteq over', u \in Given', UNCHANGED shownPrompt
  PROVE  TwoParts(surface)' /\ updates' \in Seq(Given') /\ (Looked' => surface'.top = shownPrompt')
<1>1. Given \subseteq Given' /\ (Looked' => Looked)
  BY DEF Given, Looked
<1>2. TwoParts(surface) /\ updates \in Seq(Given) /\ (Looked => surface.top = shownPrompt)
  BY DEF PromptInv
<1>3. updates \in Seq(Given')
  <2> DEFINE wider == Given'
  <2>1. Given \subseteq wider
    BY <1>1
  <2> HIDE DEF wider
  <2>2. updates \in Seq(wider)
    BY <1>2, <2>1
  <2>3. QED
    BY <2>2 DEF wider
<1>4. CASE updates' = Append(updates, u) /\ surface' = QueueWithout(surface, dropped)
  <2>1. TwoParts(surface') /\ surface'.top = surface.top
    BY <1>2, <1>4, QueueFiltered
  <2>2. updates' \in Seq(Given')
    <3> DEFINE wider == Given'
    <3> HIDE DEF wider
    <3>1. updates \in Seq(wider) /\ u \in wider
      BY <1>3 DEF wider
    <3>2. updates' \in Seq(wider)
      BY <1>4, <3>1
    <3>3. QED
      BY <3>2 DEF wider
  <2>3. QED
    BY <1>1, <1>2, <2>1, <2>2 DEF TwoParts
<1>5. CASE surface' = QueueWithout(Applied(surface, u), dropped) /\ UNCHANGED updates
  <2>1. /\ TwoParts(Applied(surface, u))
        /\ Looked' => Applied(surface, u).top = shownPrompt
    <3>1. ASSUME NEW c \in Prompts, u = Update("ask", c, "none")
          PROVE  /\ TwoParts(Applied(surface, u))
                 /\ Looked' => Applied(surface, u).top = shownPrompt
      <4>1. u \in Given
        BY <3>1 DEF Given
      <4>2. QED
        BY <1>1, <1>2, <4>1, AppliedKeeps
    <3>2. ASSUME NEW c \in over', u = Update("abort", c, "none")
          PROVE  /\ TwoParts(Applied(surface, u))
                 /\ Looked' => Applied(surface, u).top = shownPrompt
      <4>1. Applied(surface, u) = TakenBack(surface, c)
        BY <3>2 DEF Applied, Update
      <4>2. Looked' => surface.top # c
        BY <1>1, <1>2, <3>2 DEF Looked
      <4>3. QED
        BY <1>1, <1>2, <4>1, <4>2, TakenBackKeeps
    <3>3. QED
      BY <3>1, <3>2 DEF Given
  <2>2. TwoParts(surface') /\ surface'.top = Applied(surface, u).top
    BY <1>5, <2>1, QueueFiltered
  <2>3. QED
    BY <1>3, <1>5, <2>1, <2>2 DEF TwoParts
<1>6. QED
  BY <1>4, <1>5 DEF Give

LEMMA DecidedWell ==
  ASSUME PromptInv, NEW c, NEW decision
  PROVE  LET a == Decided(c, decision) IN
         /\ a = [d \in Prompts |-> a[d]]
         /\ \A d \in Prompts : d # c => a[d] = answer[d]
BY DEF PromptInv, Decided

LEMMA PromptStep == ASSUME PromptInv, [PromptNext]_promptVars PROVE PromptInv'
<1>1. ASSUME NEW c \in Prompts, Ask(c) PROVE PromptInv'
  <2>1. /\ Give(Update("ask", c, "none"), {}) /\ UNCHANGED <<shownPrompt, over>>
        /\ answer' = [answer EXCEPT ![c] = "open"]
    BY <1>1 DEF Ask
  <2>2. Update("ask", c, "none") \in Given' /\ over \subseteq over'
    BY <2>1 DEF Given
  <2>3. answer' = [d \in Prompts |-> answer'[d]]
    BY <2>1 DEF PromptInv
  <2>4. TwoParts(surface)' /\ updates' \in Seq(Given') /\ (Looked' => surface'.top = shownPrompt')
    BY <2>1, <2>2, GivenKeeps
  <2>5. QED
    BY <2>3, <2>4 DEF PromptInv
<1>2. ASSUME NEW c \in Prompts, Abort(c) PROVE PromptInv'
  <2>1. /\ Give(Update("abort", c, "none"), {c}) /\ UNCHANGED shownPrompt
        /\ answer' = Decided(c, "refused") /\ over' = over \cup {c}
    BY <1>2 DEF Abort
  <2>2. Update("abort", c, "none") \in Given' /\ over \subseteq over'
    BY <2>1 DEF Given
  <2>3. answer' = [d \in Prompts |-> answer'[d]]
    BY <2>1, DecidedWell
  <2>4. TwoParts(surface)' /\ updates' \in Seq(Given') /\ (Looked' => surface'.top = shownPrompt')
    BY <2>1, <2>2, GivenKeeps
  <2>5. QED
    BY <2>3, <2>4 DEF PromptInv
<1>3. ASSUME RenderPrompt PROVE PromptInv'
  <2>1. /\ surface' = Evaluated /\ updates' = <<>> /\ shownPrompt' = Evaluated.top
        /\ UNCHANGED <<answer, over>>
    BY <1>3 DEF RenderPrompt
  <2>2. TwoParts(surface') /\ surface'.top = shownPrompt' /\ updates' \in Seq(Given')
    BY <2>1, EvaluatedKeeps
  <2>3. QED
    BY <2>1, <2>2 DEF PromptInv, TwoParts
<1>4. ASSUME NEW decision, Decide(decision) PROVE PromptInv'
  <2>1. /\ surface' = Shifted(Evaluated) /\ updates' = <<>> /\ shownPrompt' = Shifted(Evaluated).top
        /\ answer' = Decided(Evaluated.top, decision)
    BY <1>4 DEF Decide
  <2>2. TwoParts(surface') /\ surface'.top = shownPrompt' /\ updates' \in Seq(Given')
    BY <2>1, EvaluatedKeeps, ShiftedWell
  <2>3. answer' = [d \in Prompts |-> answer'[d]]
    BY <2>1, DecidedWell
  <2>4. QED
    BY <2>2, <2>3 DEF PromptInv, TwoParts
<1>5. CASE UNCHANGED promptVars
  BY <1>5 DEF promptVars, PromptInv, TwoParts, Looked, Given
<1>6. QED
  BY <1>1, <1>2, <1>3, <1>4, <1>5 DEF PromptNext

(* A call is approved only by a person looking at it, or at one that had ended  *)
(* and was not yet off the screen: for any calls, and whatever updaters wait     *)
(* (ConfirmationDialog.tsx, useConfirmationSurface).                         *)
THEOREM ApprovedIsSeen == PromptSpec => ApprovedAsShown
<1>1. PromptInit => PromptInv
  BY DEF PromptInit, PromptInv, TwoParts, Looked
<1>2. PromptInv /\ [PromptNext]_promptVars => PromptInv'
  BY PromptStep
<1>3. PromptInv /\ [PromptNext]_promptVars =>
        [\A c \in Prompts : answer[c] = "open" /\ answer'[c] = "approved" =>
           shownPrompt = c \/ shownPrompt \in over]_promptVars
  <2> SUFFICES ASSUME PromptInv, PromptNext, NEW c \in Prompts,
                      answer[c] = "open", answer'[c] = "approved"
               PROVE  shownPrompt = c \/ shownPrompt \in over
    OBVIOUS
  <2>1. ASSUME NEW d \in Prompts, Ask(d) PROVE FALSE
    BY <2>1 DEF Ask, PromptInv
  <2>2. ASSUME NEW d \in Prompts, Abort(d) PROVE FALSE
    BY <2>2 DEF Abort, PromptInv, Decided
  <2>3. ASSUME RenderPrompt PROVE FALSE
    BY <2>3 DEF RenderPrompt
  <2>4. ASSUME NEW decision, Decide(decision) PROVE shownPrompt = c \/ shownPrompt \in over
    <3>1. shownPrompt # Nobody /\ answer' = Decided(Evaluated.top, decision)
      BY <2>4 DEF Decide
    <3>2. c = Evaluated.top
      BY <3>1, DecidedWell
    <3>3. QED
      BY <3>1, <3>2, EvaluatedKeeps DEF Looked
  <2>5. QED
    BY <2>1, <2>2, <2>3, <2>4 DEF PromptNext
<1>4. QED
  BY <1>1, <1>2, <1>3, PTL DEF PromptSpec, ApprovedAsShown

-----------------------------------------------------------------------------
(***************************************************************************)
(* ConfirmationSurface: no call that waits is forgotten.                   *)
(***************************************************************************)
(* The queue's filter is there: each of its beginnings is. *)
Filters(f, asks, dropped, m) ==
  f = [n \in 0..m |->
         IF n = 0 THEN <<>>
         ELSE IF asks[n] \in dropped THEN f[n - 1] ELSE Append(f[n - 1], asks[n])]

LEMMA OneMoreFiltered ==
  ASSUME NEW asks, NEW dropped, NEW m \in Nat, NEW f, Filters(f, asks, dropped, m)
  PROVE  \E g : Filters(g, asks, dropped, m + 1)
<1> DEFINE Next1(q, n) == IF asks[n] \in dropped THEN q ELSE Append(q, asks[n])
           g == [n \in 0..(m + 1) |-> IF n = m + 1 THEN Next1(f[m], n) ELSE f[n]]
           h == [n \in 0..(m + 1) |-> IF n = 0 THEN <<>> ELSE Next1(g[n - 1], n)]
<1>0. f = [n \in 0..m |-> IF n = 0 THEN <<>> ELSE Next1(f[n - 1], n)]
  BY DEF Filters
<1> HIDE DEF Next1
<1>1. ASSUME NEW n \in 0..(m + 1) PROVE g[n] = h[n]
  <2>1. CASE n = m + 1
    <3>1. n - 1 = m /\ m \in 0..(m + 1) /\ m # m + 1 /\ n # 0
      BY <2>1
    <3>2. QED
      BY <2>1, <3>1
  <2>2. CASE n = 0
    BY <1>0, <2>2
  <2>3. CASE n # 0 /\ n # m + 1
    <3>1. n \in 1..m /\ n - 1 \in 0..m /\ n - 1 \in 0..(m + 1) /\ n - 1 # m + 1
      BY <2>3
    <3>2. g[n] = f[n] /\ g[n - 1] = f[n - 1]
      BY <2>3, <3>1
    <3>3. f[n] = Next1(f[n - 1], n)
      BY <1>0, <3>1
    <3>4. QED
      BY <2>3, <3>2, <3>3
  <2>4. QED
    BY <2>1, <2>2, <2>3
<1>2. g = h
  BY <1>1
<1>3. QED
  BY <1>2 DEF Filters, Next1

LEMMA FilterExists ==
  ASSUME NEW asks, NEW dropped, NEW m \in Nat
  PROVE  \E f : Filters(f, asks, dropped, m)
<1> DEFINE bad == {k \in Nat : ~\E f : Filters(f, asks, dropped, k)}
<1>1. SUFFICES ASSUME bad # {} PROVE FALSE
  OBVIOUS
<1>2. PICK k \in bad : \A q \in bad : k <= q
  <2> HIDE DEF bad
  <2>1. bad \subseteq Nat
    BY DEF bad
  <2>2. QED
    BY <1>1, <2>1, LeastExists
<1>3. Filters([n \in 0..0 |-> <<>>], asks, dropped, 0)
  BY DEF Filters
<1>4. k # 0
  BY <1>3
<1>5. k - 1 \in Nat /\ k - 1 \notin bad
  BY <1>2, <1>4
<1>6. PICK f : Filters(f, asks, dropped, k - 1)
  BY <1>5
<1>7. \E g : Filters(g, asks, dropped, (k - 1) + 1)
  BY <1>5, <1>6, OneMoreFiltered
<1>8. QED
  BY <1>7

(* A filter keeps a queue of calls one, and in it every call that is not       *)
(* dropped.                                                                  *)
LEMMA FilteredKeeps ==
  ASSUME NEW asks \in Seq(Prompts), NEW dropped
  PROVE  /\ Filtered(asks, dropped) \in Seq(Prompts)
         /\ \A i \in 1..Len(asks) : asks[i] \notin dropped =>
              \E j \in 1..Len(Filtered(asks, dropped)) : Filtered(asks, dropped)[j] = asks[i]
         /\ asks = <<>> => Filtered(asks, dropped) = <<>>
<1> DEFINE In(c, q) == \E j \in 1..Len(q) : q[j] = c
           Well(q, n) == /\ q \in Seq(Prompts)
                         /\ \A i \in 1..n : asks[i] \notin dropped => In(asks[i], q)
<1>1. Len(asks) \in Nat
  OBVIOUS
<1>2. PICK f : Filters(f, asks, dropped, Len(asks))
  BY <1>1, FilterExists
<1>3. \E kept : /\ Filters(kept, asks, dropped, Len(asks))
                /\ Filtered(asks, dropped) = kept[Len(asks)]
  <2> DEFINE kept == CHOOSE g : Filters(g, asks, dropped, Len(asks))
  <2>1. Filters(kept, asks, dropped, Len(asks))
    BY <1>2
  <2>2. Filtered(asks, dropped) = kept[Len(asks)]
    BY DEF Filtered, Filters
  <2>3. QED
    BY <2>1, <2>2
<1>4. PICK kept : /\ Filters(kept, asks, dropped, Len(asks))
                  /\ Filtered(asks, dropped) = kept[Len(asks)]
  BY <1>3
<1>5. /\ kept[0] = <<>>
      /\ \A n \in 1..Len(asks) :
           kept[n] = IF asks[n] \in dropped THEN kept[n - 1] ELSE Append(kept[n - 1], asks[n])
  <2>1. ASSUME NEW n \in 0..Len(asks)
        PROVE  kept[n] = IF n = 0 THEN <<>>
                         ELSE IF asks[n] \in dropped THEN kept[n - 1]
                         ELSE Append(kept[n - 1], asks[n])
    BY <1>4 DEF Filters
  <2>2. 0 \in 0..Len(asks) /\ \A n \in 1..Len(asks) : n \in 0..Len(asks) /\ n # 0
    BY <1>1
  <2>3. QED
    BY <2>1, <2>2
<1>6. ASSUME NEW q, NEW n \in 1..Len(asks), Well(q, n - 1)
      PROVE  Well(IF asks[n] \in dropped THEN q ELSE Append(q, asks[n]), n)
  <2>1. \A i \in 1..n : i \in 1..(n - 1) \/ i = n
    OBVIOUS
  <2>2. CASE asks[n] \in dropped
    BY <1>6, <2>1, <2>2
  <2>3. CASE asks[n] \notin dropped
    <3> DEFINE longer == Append(q, asks[n])
    <3>1. /\ longer \in Seq(Prompts) /\ Len(longer) = Len(q) + 1 /\ Len(q) \in Nat
          /\ longer[Len(q) + 1] = asks[n]
          /\ \A j \in 1..Len(q) : longer[j] = q[j]
      BY <1>6
    <3> HIDE DEF longer
    <3>2. In(asks[n], longer)
      BY <3>1
    <3>3. \A c : In(c, q) => In(c, longer)
      BY <3>1
    <3>4. Well(longer, n)
      BY <1>6, <2>1, <3>1, <3>2, <3>3
    <3>5. QED
      BY <2>3, <3>4 DEF longer
  <2>4. QED
    BY <2>2, <2>3
<1>7. Well(<<>>, 0)
  OBVIOUS
<1> HIDE DEF Well
<1>8. ASSUME NEW k \in {n \in 0..Len(asks) : ~Well(kept[n], n)},
             \A q \in {n \in 0..Len(asks) : ~Well(kept[n], n)} : k <= q
      PROVE  FALSE
  <2>1. k # 0
    BY <1>5, <1>7, <1>8
  <2>2. k \in 1..Len(asks) /\ k - 1 \in 0..Len(asks) /\ ~(k <= k - 1)
    BY <1>1, <2>1
  <2>3. Well(kept[k - 1], k - 1)
    BY <1>8, <2>2
  <2>4. Well(kept[k], k)
    BY <1>5, <1>6, <2>2, <2>3
  <2>5. QED
    BY <2>4
<1>9. Well(kept[Len(asks)], Len(asks))
  <2> DEFINE bad == {n \in 0..Len(asks) : ~Well(kept[n], n)}
  <2>1. bad = {}
    <3> HIDE DEF bad
    <3>1. bad \subseteq Nat
      BY <1>1 DEF bad
    <3>2. ASSUME NEW k \in bad, \A q \in bad : k <= q PROVE FALSE
      BY <1>8, <3>2 DEF bad
    <3>3. QED
      BY <3>1, <3>2, LeastExists
  <2>2. Len(asks) \in 0..Len(asks)
    BY <1>1
  <2>3. QED
    BY <2>1, <2>2
<1>10. asks = <<>> => Filtered(asks, dropped) = <<>>
  BY <1>4, <1>5
<1>11. QED
  BY <1>4, <1>9, <1>10 DEF Well

(* The line of a surface: a queue of calls, and an empty screen only over none. *)
InOrder(s) == TwoParts(s) /\ s.held \in Seq(Prompts) /\ (s.top = Nobody => s.held = <<>>)

InLine(s, c) == c = s.top \/ \E i \in 1..Len(s.held) : s.held[i] = c

LEMMA AskedInOrder ==
  ASSUME NEW s, InOrder(s), NEW c \in Prompts
  PROVE  /\ InOrder(Asked(s, c)) /\ InLine(Asked(s, c), c)
         /\ \A d \in Prompts : InLine(s, d) => InLine(Asked(s, c), d)
<1>1. s = [top |-> s.top, held |-> s.held] /\ s.held \in Seq(Prompts) /\ c # Nobody
  BY NobodyAssumption DEF InOrder, TwoParts
<1>2. CASE s.top = Nobody
  <2>1. Asked(s, c) = [top |-> c, held |-> <<>>] /\ s.held = <<>>
    BY <1>1, <1>2 DEF Asked, InOrder
  <2>2. QED
    BY <1>1, <1>2, <2>1, NobodyAssumption DEF InOrder, TwoParts, InLine
<1>3. CASE s.top # Nobody
  <2> DEFINE longer == Append(s.held, c)
  <2>1. /\ longer \in Seq(Prompts) /\ Len(longer) = Len(s.held) + 1 /\ Len(s.held) \in Nat
        /\ longer[Len(s.held) + 1] = c
        /\ \A j \in 1..Len(s.held) : longer[j] = s.held[j]
    BY <1>1
  <2>2. Asked(s, c) = [s EXCEPT !.held = longer]
    BY <1>3 DEF Asked
  <2> HIDE DEF longer
  <2>3. Asked(s, c) = [top |-> s.top, held |-> longer]
    BY <1>1, <2>2
  <2>4. \A j \in 1..Len(s.held) : j \in 1..Len(longer)
    BY <2>1
  <2>5. Len(s.held) + 1 \in 1..Len(longer)
    BY <2>1
  <2>6. QED
    BY <1>3, <2>1, <2>3, <2>4, <2>5 DEF InOrder, TwoParts, InLine
<1>4. QED
  BY <1>2, <1>3

LEMMA ShiftedInOrder ==
  ASSUME NEW s, InOrder(s)
  PROVE  /\ InOrder(Shifted(s))
         /\ \A d \in Prompts : InLine(s, d) /\ d # s.top => InLine(Shifted(s), d)
<1>1. s = [top |-> s.top, held |-> s.held] /\ s.held \in Seq(Prompts)
  BY DEF InOrder, TwoParts
<1>2. CASE s.held = <<>>
  <2>1. Shifted(s) = [top |-> Nobody, held |-> <<>>]
    BY <1>1, <1>2 DEF Shifted
  <2>2. QED
    BY <1>2, <2>1 DEF InOrder, TwoParts, InLine
<1>3. CASE s.held # <<>>
  <2> DEFINE rest == Tail(s.held)
  <2>1. /\ Head(s.held) = s.held[1] /\ Head(s.held) \in Prompts
        /\ rest \in Seq(Prompts) /\ Len(rest) = Len(s.held) - 1 /\ Len(s.held) \in Nat
        /\ \A j \in 1..Len(rest) : rest[j] = s.held[j + 1]
    BY <1>1, <1>3
  <2>2. Shifted(s) = [top |-> Head(s.held), held |-> rest]
    BY <1>3 DEF Shifted
  <2> HIDE DEF rest
  <2>3. ASSUME NEW j \in 1..Len(s.held), j # 1
        PROVE  \E i \in 1..Len(rest) : rest[i] = s.held[j]
    <3>1. j - 1 \in 1..Len(rest) /\ (j - 1) + 1 = j
      BY <2>1, <2>3
    <3>2. QED
      BY <2>1, <3>1
  <2>4. Head(s.held) # Nobody
    BY <2>1, NobodyAssumption
  <2>5. InOrder(Shifted(s))
    BY <2>1, <2>2, <2>4 DEF InOrder, TwoParts
  <2>6. ASSUME NEW d \in Prompts, InLine(s, d), d # s.top PROVE InLine(Shifted(s), d)
    <3>1. PICK j \in 1..Len(s.held) : s.held[j] = d
      BY <2>6 DEF InLine
    <3>2. CASE j = 1
      BY <2>1, <2>2, <3>1, <3>2 DEF InLine
    <3>3. CASE j # 1
      <4>1. \E i \in 1..Len(rest) : rest[i] = d
        BY <2>3, <3>1, <3>3
      <4>2. Shifted(s).held = rest
        BY <2>2
      <4>3. QED
        BY <4>1, <4>2 DEF InLine
    <3>4. QED
      BY <3>2, <3>3
  <2>7. QED
    BY <2>5, <2>6
<1>4. QED
  BY <1>2, <1>3

(* One updater: it takes a call out of line only when that call has ended.    *)
LEMMA AppliedInOrder ==
  ASSUME NEW s, InOrder(s), NEW u \in Given
  PROVE  /\ InOrder(Applied(s, u))
         /\ \A d \in Prompts : InLine(s, d) /\ d \notin over => InLine(Applied(s, u), d)
         /\ \A d \in Prompts : u = Update("ask", d, "none") => InLine(Applied(s, u), d)
<1>1. ASSUME NEW c \in Prompts, u = Update("ask", c, "none")
      PROVE  /\ InOrder(Applied(s, u))
             /\ \A d \in Prompts : InLine(s, d) /\ d \notin over => InLine(Applied(s, u), d)
             /\ \A d \in Prompts : u = Update("ask", d, "none") => InLine(Applied(s, u), d)
  <2>1. Applied(s, u) = Asked(s, c)
    BY <1>1 DEF Applied, Update
  <2>2. \A d \in Prompts : u = Update("ask", d, "none") => d = c
    BY <1>1 DEF Update
  <2>3. QED
    BY <2>1, <2>2, AskedInOrder
<1>2. ASSUME NEW c \in over, u = Update("abort", c, "none")
      PROVE  /\ InOrder(Applied(s, u))
             /\ \A d \in Prompts : InLine(s, d) /\ d \notin over => InLine(Applied(s, u), d)
             /\ \A d \in Prompts : u = Update("ask", d, "none") => InLine(Applied(s, u), d)
  <2>1. Applied(s, u) = IF s.top = c THEN Shifted(s) ELSE s
    BY <1>2 DEF Applied, Update, TakenBack
  <2>2. \A d \in Prompts : u # Update("ask", d, "none")
    BY <1>2 DEF Update
  <2>3. QED
    BY <1>2, <2>1, <2>2, ShiftedInOrder
<1>3. QED
  BY <1>1, <1>2 DEF Given

(* The ref's queue loses nobody but the call that ended.                     *)
LEMMA QueueInOrder ==
  ASSUME NEW s, InOrder(s), NEW dropped
  PROVE  /\ InOrder(QueueWithout(s, dropped))
         /\ \A d \in Prompts : InLine(s, d) /\ d \notin dropped => InLine(QueueWithout(s, dropped), d)
<1> DEFINE remaining == Filtered(s.held, dropped)
<1>1. s = [top |-> s.top, held |-> s.held] /\ s.held \in Seq(Prompts)
  BY DEF InOrder, TwoParts
<1>2. /\ remaining \in Seq(Prompts)
      /\ \A i \in 1..Len(s.held) : s.held[i] \notin dropped =>
           \E j \in 1..Len(remaining) : remaining[j] = s.held[i]
      /\ s.held = <<>> => remaining = <<>>
  BY <1>1, FilteredKeeps
<1>3. QueueWithout(s, dropped) = [s EXCEPT !.held = remaining]
  BY DEF QueueWithout
<1> HIDE DEF remaining
<1>4. QueueWithout(s, dropped) = [top |-> s.top, held |-> remaining]
  BY <1>1, <1>3
<1>5. QED
  BY <1>2, <1>4 DEF InOrder, TwoParts, InLine

(* A call that waits has not ended, and is in line or about to ask.          *)
Waiting(c) ==
  /\ c \notin over
  /\ InLine(surface, c) \/ \E i \in 1..Len(updates) : updates[i] = Update("ask", c, "none")

LineInv ==
  /\ InOrder(surface)
  /\ over \subseteq Prompts /\ \A c \in over : answer[c] # "unasked"
  /\ \A c \in Prompts : answer[c] = "open" => Waiting(c)

(* Whatever updaters wait, everybody is in line when they are evaluated.      *)
LEMMA EvaluatedInOrder ==
  ASSUME PromptInv, LineInv
  PROVE  InOrder(Evaluated) /\ \A c \in Prompts : answer[c] = "open" => InLine(Evaluated, c)
<1> DEFINE Well(n) ==
      /\ InOrder(After[n])
      /\ \A c \in Prompts \ over :
           InLine(surface, c) \/ (\E i \in 1..n : updates[i] = Update("ask", c, "none"))
             => InLine(After[n], c)
<1>1. Len(updates) \in Nat /\ \A i \in 1..Len(updates) : updates[i] \in Given
  BY DEF PromptInv
<1>2. Well(0)
  <2>1. After[0] = surface
    BY <1>1, AfterUnfolds
  <2>2. QED
    BY <2>1 DEF LineInv
<1>3. ASSUME NEW n \in 1..Len(updates), Well(n - 1) PROVE Well(n)
  <2> DEFINE s == After[n - 1]
             u == updates[n]
  <2>1. n \in 0..Len(updates) /\ n # 0
    BY <1>1
  <2>2. After[n] = Applied(s, u) /\ u \in Given /\ InOrder(s)
    BY <1>1, <1>3, <2>1, AfterUnfolds
  <2>3. /\ InOrder(Applied(s, u))
        /\ \A d \in Prompts : InLine(s, d) /\ d \notin over => InLine(Applied(s, u), d)
        /\ \A d \in Prompts : u = Update("ask", d, "none") => InLine(Applied(s, u), d)
    <3> HIDE DEF s, u
    <3>1. QED
      BY <2>2, AppliedInOrder
  <2>4. \A i \in 1..n : i \in 1..(n - 1) \/ i = n
    OBVIOUS
  <2>5. ASSUME NEW c \in Prompts \ over,
               InLine(surface, c) \/ \E i \in 1..n : updates[i] = Update("ask", c, "none")
        PROVE  InLine(After[n], c)
    <3>1. CASE u = Update("ask", c, "none")
      BY <2>2, <2>3, <3>1
    <3>2. CASE u # Update("ask", c, "none")
      <4>1. InLine(s, c)
        BY <1>3, <2>4, <2>5, <3>2
      <4>2. QED
        BY <2>2, <2>3, <4>1
    <3>3. QED
      BY <3>1, <3>2
  <2>6. QED
    BY <2>2, <2>3, <2>5
<1> HIDE DEF Well
<1>4. Well(Len(updates))
  <2> DEFINE bad == {n \in 0..Len(updates) : ~Well(n)}
  <2>1. ASSUME NEW k \in bad, \A q \in bad : k <= q PROVE FALSE
    <3>1. k \in 1..Len(updates) /\ k - 1 \in 0..Len(updates) /\ ~(k <= k - 1)
      BY <1>1, <1>2
    <3>2. Well(k - 1)
      BY <2>1, <3>1
    <3>3. QED
      BY <1>3, <3>1, <3>2
  <2>2. bad \subseteq Nat
    BY <1>1
  <2>3. bad = {}
    <3> HIDE DEF bad
    <3>1. QED
      BY <2>1, <2>2, LeastExists
  <2>4. Len(updates) \in 0..Len(updates)
    BY <1>1
  <2>5. QED
    BY <2>3, <2>4
<1>5. QED
  BY <1>4 DEF Well, Evaluated, LineInv, Waiting

(* The change of one asker loses nobody else from the line.                   *)
LEMMA GivenInOrder ==
  ASSUME PromptInv, LineInv, NEW u \in Given', NEW dropped \in SUBSET over', Give(u, dropped),
         over \subseteq over'
  PROVE  /\ InOrder(surface')
         /\ \A c \in Prompts \ over' : Waiting(c) => Waiting(c)'
         /\ \A c \in Prompts \ over' : u = Update("ask", c, "none") => Waiting(c)'
<1>1. Len(updates) \in Nat /\ InOrder(surface)
  BY DEF PromptInv, LineInv
<1>2. CASE updates = <<>> /\ surface' = QueueWithout(Applied(surface, u), dropped) /\ UNCHANGED updates
  <2> DEFINE s == Applied(surface, u)
  <2>1. /\ InOrder(s)
        /\ \A d \in Prompts \ over' : InLine(surface, d) => InLine(s, d)
        /\ \A d \in Prompts : u = Update("ask", d, "none") => InLine(s, d)
    <3>1. ASSUME NEW c \in Prompts, u = Update("ask", c, "none")
          PROVE  /\ InOrder(s)
                 /\ \A d \in Prompts \ over' : InLine(surface, d) => InLine(s, d)
                 /\ \A d \in Prompts : u = Update("ask", d, "none") => InLine(s, d)
      <4>1. s = Asked(surface, c)
        BY <3>1 DEF Applied, Update
      <4>2. \A d \in Prompts : u = Update("ask", d, "none") => d = c
        BY <3>1 DEF Update
      <4>3. QED
        BY <1>1, <4>1, <4>2, AskedInOrder
    <3>2. ASSUME NEW c \in over', u = Update("abort", c, "none")
          PROVE  /\ InOrder(s)
                 /\ \A d \in Prompts \ over' : InLine(surface, d) => InLine(s, d)
                 /\ \A d \in Prompts : u = Update("ask", d, "none") => InLine(s, d)
      <4>1. s = IF surface.top = c THEN Shifted(surface) ELSE surface
        BY <3>2 DEF Applied, Update, TakenBack
      <4>2. \A d \in Prompts : u # Update("ask", d, "none")
        BY <3>2 DEF Update
      <4>3. QED
        BY <1>1, <3>2, <4>1, <4>2, ShiftedInOrder
    <3>3. QED
      BY <3>1, <3>2 DEF Given
  <2> HIDE DEF s
  <2>2. /\ InOrder(surface')
        /\ \A d \in Prompts : InLine(s, d) /\ d \notin dropped => InLine(surface', d)
    BY <1>2, <2>1, QueueInOrder DEF s
  <2>3. \A d \in Prompts \ over' : Waiting(d) => InLine(surface, d)
    BY <1>2 DEF Waiting
  <2>4. QED
    BY <2>1, <2>2, <2>3 DEF Waiting, InLine
<1>3. CASE updates' = Append(updates, u) /\ surface' = QueueWithout(surface, dropped)
  <2>1. /\ InOrder(surface')
        /\ \A d \in Prompts : InLine(surface, d) /\ d \notin dropped => InLine(surface', d)
    BY <1>1, <1>3, QueueInOrder
  <2>2. /\ Len(updates') = Len(updates) + 1 /\ updates'[Len(updates) + 1] = u
        /\ \A i \in 1..Len(updates) : updates'[i] = updates[i]
    <3>1. updates \in Seq(Given)
      BY DEF PromptInv
    <3> DEFINE wider == Given \cup {u}
    <3>2. updates \in Seq(wider) /\ u \in wider
      <4>1. Given \subseteq wider /\ u \in wider
        OBVIOUS
      <4> HIDE DEF wider
      <4>2. QED
        BY <3>1, <4>1
    <3> HIDE DEF wider
    <3>3. QED
      BY <1>3, <3>2
  <2>3. /\ Len(updates) + 1 \in 1..Len(updates')
        /\ \A i \in 1..Len(updates) : i \in 1..Len(updates')
    BY <1>1, <2>2
  <2>4. QED
    BY <2>1, <2>2, <2>3 DEF Waiting, InLine
<1>4. QED
  BY <1>2, <1>3 DEF Give

LEMMA LineStep ==
  ASSUME PromptInv, LineInv, [PromptNext]_promptVars
  PROVE  LineInv'
<1>1. ASSUME NEW c \in Prompts, Ask(c) PROVE LineInv'
  <2>1. /\ Give(Update("ask", c, "none"), {}) /\ UNCHANGED over
        /\ answer' = [answer EXCEPT ![c] = "open"] /\ answer[c] = "unasked"
    BY <1>1 DEF Ask
  <2>2. Update("ask", c, "none") \in Given' /\ over \subseteq over' /\ {} \in SUBSET over'
    BY <2>1 DEF Given
  <2>3. /\ InOrder(surface')
        /\ \A d \in Prompts \ over' : Waiting(d) => Waiting(d)'
        /\ \A d \in Prompts \ over' :
             Update("ask", c, "none") = Update("ask", d, "none") => Waiting(d)'
    BY <2>1, <2>2, GivenInOrder
  <2>4. c \notin over'
    BY <2>1 DEF LineInv
  <2>5. answer'[c] = "open" /\ \A d \in Prompts : d # c => answer'[d] = answer[d]
    BY <2>1 DEF PromptInv
  <2>6. \A d \in Prompts : answer'[d] = "open" => Waiting(d)'
    BY <2>1, <2>3, <2>4, <2>5 DEF LineInv, Waiting
  <2>7. \A d \in over' : answer'[d] # "unasked"
    BY <2>1, <2>5 DEF LineInv
  <2>8. QED
    BY <2>1, <2>3, <2>6, <2>7 DEF LineInv, InOrder, TwoParts
<1>2. ASSUME NEW c \in Prompts, Abort(c) PROVE LineInv'
  <2>1. /\ Give(Update("abort", c, "none"), {c}) /\ answer[c] # "unasked"
        /\ answer' = Decided(c, "refused") /\ over' = over \cup {c}
    BY <1>2 DEF Abort
  <2>2. Update("abort", c, "none") \in Given' /\ over \subseteq over' /\ {c} \in SUBSET over'
    BY <2>1 DEF Given
  <2>3. /\ InOrder(surface')
        /\ \A d \in Prompts \ over' : Waiting(d) => Waiting(d)'
    BY <2>1, <2>2, GivenInOrder
  <2>4. /\ \A d \in Prompts : d # c => answer'[d] = answer[d]
        /\ answer'[c] # "open" /\ answer'[c] # "unasked"
    BY <2>1, DecidedWell, NobodyAssumption DEF Decided, PromptInv
  <2>5. \A d \in Prompts : answer'[d] = "open" => Waiting(d)'
    BY <2>1, <2>3, <2>4 DEF LineInv, Waiting
  <2>6. over' \subseteq Prompts /\ \A d \in over' : answer'[d] # "unasked"
    BY <2>1, <2>4 DEF LineInv
  <2>7. QED
    BY <2>3, <2>5, <2>6 DEF LineInv, InOrder, TwoParts
<1>3. ASSUME RenderPrompt PROVE LineInv'
  <2>1. surface' = Evaluated /\ UNCHANGED <<answer, over>>
    BY <1>3 DEF RenderPrompt
  <2>2. InOrder(surface') /\ \A c \in Prompts : answer'[c] = "open" => InLine(surface', c)
    BY <2>1, EvaluatedInOrder
  <2>3. QED
    BY <2>1, <2>2 DEF LineInv, Waiting, InLine, InOrder, TwoParts
<1>4. ASSUME NEW decision \in {"approved", "refused"}, Decide(decision) PROVE LineInv'
  <2> DEFINE s == Evaluated
  <2>1. /\ surface' = Shifted(s) /\ UNCHANGED over
        /\ answer' = Decided(s.top, decision)
    BY <1>4 DEF Decide
  <2>2. InOrder(s) /\ \A c \in Prompts : answer[c] = "open" => InLine(s, c)
    BY EvaluatedInOrder
  <2> HIDE DEF s
  <2>3. /\ InOrder(surface')
        /\ \A c \in Prompts : InLine(s, c) /\ c # s.top => InLine(surface', c)
    BY <2>1, <2>2, ShiftedInOrder
  <2>4. ASSUME NEW c \in Prompts
        PROVE  /\ c # s.top => answer'[c] = answer[c]
               /\ answer'[c] = "open" => answer[c] = "open" /\ c # s.top
               /\ answer'[c] = "unasked" => answer[c] = "unasked"
    <3>1. CASE c # s.top
      BY <2>1, <3>1, DecidedWell
    <3>2. CASE c = s.top
      BY <2>1, <3>2, NobodyAssumption DEF Decided, PromptInv
    <3>3. QED
      BY <3>1, <3>2
  <2>5. \A c \in Prompts : answer'[c] = "open" => Waiting(c)'
    BY <2>1, <2>2, <2>3, <2>4 DEF LineInv, Waiting, InLine
  <2>6. QED
    BY <2>1, <2>3, <2>4, <2>5 DEF LineInv, InOrder, TwoParts
<1>5. CASE UNCHANGED promptVars
  BY <1>5 DEF promptVars, LineInv, Waiting, InLine, InOrder, TwoParts
<1>6. QED
  BY <1>1, <1>2, <1>3, <1>4, <1>5 DEF PromptNext

(* No call waits for a prompt that will not come: whatever prompts are asked   *)
(* for, end and are answered between two renders, every call that is open is  *)
(* in line in what the updaters leave (ConfirmationDialog.tsx).              *)
THEOREM NobodyIsForgotten == PromptSpec => []EveryOpenCallIsInLine
<1>1. PromptInit => PromptInv /\ LineInv
  <2>1. PromptInit => PromptInv
    BY DEF PromptInit, PromptInv, TwoParts, Looked
  <2>2. PromptInit => LineInv
    BY DEF PromptInit, LineInv, InOrder, TwoParts
  <2>3. QED
    BY <2>1, <2>2
<1>2. PromptInv /\ LineInv /\ [PromptNext]_promptVars => PromptInv' /\ LineInv'
  BY PromptStep, LineStep
<1>3. PromptInv /\ LineInv => EveryOpenCallIsInLine
  <2> SUFFICES ASSUME PromptInv, LineInv PROVE EveryOpenCallIsInLine
    OBVIOUS
  <2> DEFINE s == Evaluated
  <2>1. InOrder(s) /\ \A c \in Prompts : answer[c] = "open" => InLine(s, c)
    BY EvaluatedInOrder
  <2> HIDE DEF s
  <2>2. ASSUME NEW c, InLine(s, c) PROVE c \in {s.top} \cup ToSet(s.held)
    BY <2>1, <2>2 DEF InLine, ToSet, InOrder
  <2>3. QED
    BY <2>1, <2>2 DEF EveryOpenCallIsInLine, InOrder, s
<1>4. QED
  BY <1>1, <1>2, <1>3, PTL DEF PromptSpec
=============================================================================
