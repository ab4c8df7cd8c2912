---------------------- MODULE ConnectionLifecycleProofs ----------------------
(***************************************************************************)
(* Proofs about ConnectionLifecycle.                                       *)
(***************************************************************************)
EXTENDS ConnectionLifecycle, FiniteSetTheorems, TLAPS

(* What an attempt's record says of itself: torn only once its transport    *)
(* was closed; over only when torn and shut; one that is neither torn nor   *)
(* dropped has what its stage promises.                                     *)
AttemptWell(r) ==
  /\ r \in Attempts
  /\ r.stage = "none" => r = NoAttempt
  /\ r.stage = "over" => r.torn /\ ~r.window /\ ~r.subscribed
  /\ r.stage = "connected" => ~r.torn /\ Sendable(r.transport)
  /\ r.stage = "url" => r.transport.socket = "none"
  /\ r.stage = "dialing" => r.transport.socket # "open"
  /\ r.torn => Detached(r.transport)
  /\ ~r.torn /\ r.stage \in {"url", "dialing"} => r.transport.position = "starting"
  /\ ~r.torn /\ r.stage \in {"subscribing", "baselining"} =>
       Sendable(r.transport) \/ (Detached(r.transport) /\ ~Held(r.transport))

(* The one attempt of the mounted effect is the one runtimeRef names.       *)
CurrentWell ==
  /\ \A a \in Slots : attempt[a].stage # "none" /\ ~attempt[a].torn => a = current
  /\ current # NoRuntime =>
       mounted /\ attempt[current].stage # "none" /\ ~attempt[current].torn

(* What the effect holds is held while it is mounted, and acquired once.    *)
EffectWell ==
  /\ ~mounted => ~timer /\ ~serving
  /\ claim = "ours" => serving
  /\ "mounted" \in starting => mounted /\ current = NoRuntime /\ ~timer /\ ~serving
  /\ timer /\ (~failed \/ ~ObserverMayThrow) => current = NoRuntime

LifecycleInv ==
  /\ TypeOK
  /\ \A a \in Slots : AttemptWell(attempt[a])
  /\ CurrentWell
  /\ EffectWell

(* What is published agrees with what is going on, but for a channel a      *)
(* failing provider still has, and for a recovery an observer stopped.      *)
StatusInv ==
  /\ ~mounted \/ "mounted" \in starting => published = "disconnected"
  /\ timer => published \in {"connecting", "reconnecting"}
  /\ current # NoRuntime =>
       /\ attempt[current].stage = "connected" => published \in {"connected", "reconnecting"}
       /\ attempt[current].stage = "connected" /\ ~Failing => published = "connected"
       /\ InFlight(current) => ~timer /\ published \in {"connecting", "reconnecting"}
       /\ InFlight(current) /\ attempt[current].first => published = "connecting"
  /\ published = "connected" => current # NoRuntime /\ attempt[current].stage = "connected"
  /\ ~ObserverMayThrow => RecoveryNeverGivesUp

-----------------------------------------------------------------------------
(***************************************************************************)
(* The operators.                                                          *)
(***************************************************************************)

(* report() publishes a status, and only an observer that may throw does.   *)
LEMMA ReportTyped ==
  ASSUME NEW from \in Statuses, NEW next \in Statuses
  PROVE  /\ Reported(from, next) \in Statuses
         /\ Throws(from, next) \subseteq BOOLEAN
         /\ ~ObserverMayThrow => Throws(from, next) = {FALSE}
BY DEF Reported, Throws, Statuses

(* The schedule never leaves its table. *)
LEMMA AdvancedTyped ==
  ASSUME NEW i \in 0..LastInterval
  PROVE  Advanced(i) \in 0..LastInterval
BY LifecycleAssumption DEF Advanced

(* Two recoveries in a row, and one from the start of the schedule. *)
LEMMA AdvancedTwice ==
  ASSUME NEW i \in 0..LastInterval
  PROVE  Advanced(Advanced(i)) \in 0..LastInterval /\ Advanced(0) \in 0..LastInterval
BY LifecycleAssumption, AdvancedTyped, AdvancedTyped DEF Advanced

(* A transport stays one under each of its events. *)
LEMMA TransportTyped ==
  ASSUME NEW t \in Transports
  PROVE  /\ Ended(t) \in Transports /\ Detached(Ended(t))
         /\ GivenUp(t) \in Transports /\ Detached(GivenUp(t)) /\ ~Held(GivenUp(t))
         /\ Dialed(t) \in Transports /\ Opened(t) \in Transports
         /\ Dropped(t) \in Transports /\ Detached(Dropped(t)) /\ ~Held(Dropped(t))
         /\ Started(Unused) \in Transports /\ Unused \in Transports
BY DEF Transports, Positions, Sockets, Ended, Detached, GivenUp, Held, Dialed, Opened, Dropped,
       Started, Unused

(* A free slot is well. *)
LEMMA NoAttemptTyped == AttemptWell(NoAttempt) /\ ~NoAttempt.torn /\ NoAttempt.stage = "none"
BY TransportTyped DEF AttemptWell, NoAttempt, Attempts, Stages, Awaiting, Unused, Transports,
     Positions, Sockets, Detached, Sendable

(* shutdown() leaves nothing of an attempt but what its page cannot reach.  *)
LEMMA ShutWell ==
  ASSUME NEW r \in Attempts
  PROVE  /\ Shut(r) \in Attempts
         /\ Shut(r).stage = r.stage /\ Shut(r).torn = r.torn /\ Shut(r).first = r.first
         /\ ~Shut(r).window /\ ~Shut(r).subscribed
         /\ Detached(Shut(r).transport)
         /\ ~Detached(r.transport) => ~Held(Shut(r).transport)
         /\ Detached(r.transport) => Shut(r).transport = r.transport
<1>1. r.transport \in Transports
  BY DEF Attempts
<1>2. GivenUp(r.transport) \in Transports /\ Detached(GivenUp(r.transport))
        /\ ~Held(GivenUp(r.transport))
  BY <1>1, TransportTyped
<1> QED
  BY <1>1, <1>2 DEF Attempts, Shut

(* An attempt that ends frees its slot, unless its effect was torn down: of *)
(* that one only a socket nobody reaches may be left.                       *)
LEMMA OverWell ==
  ASSUME NEW s \in Attempts,
         ~s.torn /\ Detached(s.transport) => ~Held(s.transport)
  PROVE  /\ AttemptWell(Over(Shut(s)))
         /\ ~s.torn => Over(Shut(s)) = NoAttempt
         /\ Over(Shut(s)).stage # "none" => Over(Shut(s)).torn
<1> DEFINE r == Shut(s)
<1>1. /\ r \in Attempts /\ r.torn = s.torn /\ ~r.window /\ ~r.subscribed
      /\ Detached(r.transport) /\ (~s.torn => ~Held(r.transport))
  BY ShutWell
<1> HIDE DEF r
<1>2. CASE Held(r.transport)
  <2>1. Over(r) = [r EXCEPT !.stage = "over"] /\ r.torn
    BY <1>1, <1>2 DEF Over
  <2> QED
    BY <1>1, <2>1 DEF AttemptWell, Attempts, Stages, r
<1>3. CASE ~Held(r.transport)
  BY <1>1, <1>3, NoAttemptTyped DEF Over, r
<1> QED
  BY <1>2, <1>3

-----------------------------------------------------------------------------
(***************************************************************************)
(* LifecycleInv is inductive.                                              *)
(***************************************************************************)

(* A step of one attempt that stays on its page keeps the invariant.        *)
LEMMA BecomesWell ==
  ASSUME LifecycleInv, NEW a \in Slots, NEW r, Becomes(a, r), AttemptWell(r),
         r.stage # "none" => attempt[a].stage # "none" /\ r.torn = attempt[a].torn,
         r.stage = "none" => attempt[a].torn
  PROVE  LifecycleInv'
<1>1. attempt \in [Slots -> Attempts] /\ r \in Attempts
  BY DEF LifecycleInv, TypeOK, AttemptWell
<1>2. attempt' = [attempt EXCEPT ![a] = r]
  BY DEF Becomes
<1>3. TypeOK'
  BY <1>1, <1>2 DEF LifecycleInv, TypeOK, Becomes
<1>4. \A b \in Slots : AttemptWell(attempt'[b])
  BY <1>1, <1>2 DEF LifecycleInv
<1>5. CurrentWell'
  BY <1>1, <1>2 DEF LifecycleInv, CurrentWell, Becomes, TypeOK, NoRuntime, Slots
<1>6. EffectWell'
  BY DEF LifecycleInv, EffectWell, Becomes
<1> QED
  BY <1>3, <1>4, <1>5, <1>6 DEF LifecycleInv

(* So does the end of an attempt that shut its runtime down. *)
LEMMA EndsWell ==
  ASSUME LifecycleInv, NEW a \in Slots, NEW s \in Attempts,
         attempt[a].stage # "none", s.torn = attempt[a].torn,
         ~s.torn /\ Detached(s.transport) => ~Held(s.transport),
         attempt' = [attempt EXCEPT ![a] = Over(Shut(s))],
         current' = LetGo(a),
         UNCHANGED <<mounted, mounts, starting, claim, serving>>,
         published' \in Statuses, index' \in 0..LastInterval,
         timer' \in BOOLEAN, failed' \in BOOLEAN,
         attempt[a].torn => UNCHANGED <<timer, failed>>
  PROVE  LifecycleInv'
<1>1. attempt \in [Slots -> Attempts]
  BY DEF LifecycleInv, TypeOK
<1>2. AttemptWell(attempt'[a])
      /\ (~attempt[a].torn => attempt'[a] = NoAttempt)
      /\ (attempt'[a].stage # "none" => attempt'[a].torn)
  BY <1>1, OverWell
<1>3. \A b \in Slots : b # a => attempt'[b] = attempt[b]
  BY <1>1
<1>4. attempt' \in [Slots -> Attempts] /\ current' \in Slots \cup {NoRuntime}
  BY <1>1, OverWell DEF AttemptWell, LetGo, LifecycleInv, TypeOK
<1>5. TypeOK'
  BY <1>4 DEF LifecycleInv, TypeOK
<1>6. \A b \in Slots : AttemptWell(attempt'[b])
  BY <1>2, <1>3 DEF LifecycleInv
<1>7. ~attempt[a].torn => current = a /\ current' = NoRuntime /\ mounted
  BY DEF LifecycleInv, CurrentWell, LetGo, NoRuntime, Slots
<1>8. attempt[a].torn => current # a /\ current' = current
  BY DEF LifecycleInv, CurrentWell, LetGo, NoRuntime, Slots
<1>9. CurrentWell'
  <2>1. \A b \in Slots : attempt'[b].stage # "none" /\ ~attempt'[b].torn => b = current'
    BY <1>2, <1>3, <1>7, <1>8, NoAttemptTyped DEF LifecycleInv, CurrentWell
  <2>2. current' # NoRuntime =>
          mounted' /\ attempt'[current'].stage # "none" /\ ~attempt'[current'].torn
    BY <1>3, <1>7, <1>8 DEF LifecycleInv, CurrentWell, TypeOK
  <2> QED
    BY <2>1, <2>2 DEF CurrentWell
<1>10. EffectWell'
  <2>1. CASE attempt[a].torn
    BY <1>8, <2>1 DEF LifecycleInv, EffectWell
  <2>2. CASE ~attempt[a].torn
    <3>1. a # NoRuntime
      BY DEF Slots, NoRuntime
    <3> QED
      BY <1>7, <2>2, <3>1 DEF LifecycleInv, EffectWell
  <2> QED
    BY <2>1, <2>2
<1> QED
  BY <1>5, <1>6, <1>9, <1>10 DEF LifecycleInv

(* Asking for another recovery publishes a status and moves the schedule.   *)
LEMMA ScheduleTyped ==
  ASSUME NEW from \in Statuses, ScheduleRecovery(from), index \in 0..LastInterval,
         timer \in BOOLEAN
  PROVE  published' \in Statuses /\ index' \in 0..LastInterval /\ timer' \in BOOLEAN
         /\ (~ObserverMayThrow => timer')
<1>1. "reconnecting" \in Statuses
  BY DEF Statuses
<1> QED
  BY <1>1, ReportTyped, AdvancedTyped DEF ScheduleRecovery

(* So does the loud one. *)
LEMMA LoudTyped ==
  ASSUME NEW from \in Statuses, NEW at \in 0..LastInterval, RecoverLoudly(from, at)
  PROVE  published' \in Statuses /\ index' \in 0..LastInterval /\ timer' \in BOOLEAN
         /\ failed'
<1>1. "reconnecting" \in Statuses
  BY DEF Statuses
<1> QED
  BY <1>1, ReportTyped, AdvancedTyped DEF RecoverLoudly

(* A rejected attempt is one that ends, in every way it can be rejected.    *)
LEMMA RejectedWell ==
  ASSUME LifecycleInv, NEW a \in Slots, attempt[a].stage # "none", NEW t \in Transports,
         ~attempt[a].torn /\ Detached(t) => ~Held(t),
         NEW loud \in BOOLEAN, Rejected(a, t, loud)
  PROVE  LifecycleInv'
<1> DEFINE s == [attempt[a] EXCEPT !.transport = t]
<1>1. attempt \in [Slots -> Attempts] /\ published \in Statuses /\ index \in 0..LastInterval
      /\ timer \in BOOLEAN /\ failed \in BOOLEAN
  BY DEF LifecycleInv, TypeOK
<1>2. s \in Attempts /\ s.torn = attempt[a].torn /\ s.transport = t
  BY <1>1 DEF Attempts
<1>3. attempt' = [attempt EXCEPT ![a] = Over(Shut(s))]
  BY <1>1 DEF Rejected
<1>4. /\ published' \in Statuses /\ index' \in 0..LastInterval
      /\ timer' \in BOOLEAN /\ failed' \in BOOLEAN
  <2>1. "error" \in Statuses
    BY DEF Statuses
  <2> QED
    BY <1>1, <2>1, ReportTyped, ScheduleTyped DEF Rejected
<1>5. attempt[a].torn => UNCHANGED <<timer, failed>>
  BY DEF Rejected
<1>6. current' = LetGo(a) /\ UNCHANGED <<mounted, mounts, starting, claim, serving>>
  BY DEF Rejected
<1> HIDE DEF s
<1> QED
  BY <1>2, <1>3, <1>4, <1>5, <1>6, EndsWell

(* So does the beginning of an attempt, when there is none. *)
LEMMA BeginsWell ==
  ASSUME LifecycleInv, NEW a \in Slots, NEW first \in BOOLEAN, Begin(a, first),
         mounted, current = NoRuntime, "mounted" \notin starting', ~timer',
         mounted' = mounted, mounts' = mounts, starting' \subseteq starting,
         claim' \in {"free", "ours", "other"}, serving' \in BOOLEAN,
         claim' = "ours" => serving',
         published' \in Statuses, index' = index, failed' = failed, timer' \in BOOLEAN
  PROVE  LifecycleInv'
<1> DEFINE r == [NoAttempt EXCEPT !.stage = "url", !.first = first,
                                  !.transport = Started(Unused)]
<1>1. attempt \in [Slots -> Attempts]
  BY DEF LifecycleInv, TypeOK
<1>2. attempt' = [attempt EXCEPT ![a] = r] /\ current' = a
  BY DEF Begin
<1>3. AttemptWell(r) /\ r.stage = "url" /\ ~r.torn
  BY TransportTyped, NoAttemptTyped
  DEF AttemptWell, NoAttempt, Attempts, Stages, Awaiting, Started, Unused, Detached
<1> HIDE DEF r
<1>4. TypeOK'
  BY <1>1, <1>2, <1>3 DEF LifecycleInv, TypeOK, AttemptWell
<1>5. \A b \in Slots : AttemptWell(attempt'[b])
  BY <1>1, <1>2, <1>3 DEF LifecycleInv
<1>6. \A b \in Slots : attempt[b].stage # "none" => attempt[b].torn
  BY DEF LifecycleInv, CurrentWell, NoRuntime, Slots
<1>7. CurrentWell'
  BY <1>1, <1>2, <1>3, <1>6 DEF CurrentWell
<1>8. EffectWell'
  BY DEF EffectWell
<1> QED
  BY <1>4, <1>5, <1>7, <1>8 DEF LifecycleInv

(* Before anything was mounted. *)
LEMMA LifecycleInit == Init => LifecycleInv
<1> SUFFICES ASSUME Init PROVE LifecycleInv
  OBVIOUS
<1>1. NoAttempt \in Attempts
  BY NoAttemptTyped DEF AttemptWell
<1>2. TypeOK
  <2>1. 0 \in 0..MaxMounts /\ 0 \in 0..LastInterval
    BY LifecycleAssumption
  <2> QED
    BY <1>1, <2>1 DEF Init, TypeOK, Statuses
<1>3. \A a \in Slots : AttemptWell(attempt[a])
  BY NoAttemptTyped DEF Init
<1>4. CurrentWell
  BY NoAttemptTyped DEF Init, CurrentWell
<1>5. EffectWell
  BY DEF Init, EffectWell
<1> QED
  BY <1>2, <1>3, <1>4, <1>5 DEF LifecycleInv

(* The effect and start(), but for the cleanup. *)
LEMMA EffectKeeps ==
  ASSUME LifecycleInv,
         Mount \/ RegistryRefused \/ ClaimRefused \/ TornStartReturns \/ OtherProvider
           \/ \E a \in Slots : Serve(a)
  PROVE  LifecycleInv'
<1> USE DEF LifecycleInv
<1>1. CASE Mount
  <2>1. ~timer /\ ~serving /\ current = NoRuntime
    BY <1>1 DEF Mount, EffectWell, CurrentWell
  <2>2. TypeOK'
    <3>1. mounts' \in 0..MaxMounts /\ index' \in 0..LastInterval
      BY <1>1, LifecycleAssumption DEF Mount, TypeOK
    <3>2. starting' \subseteq {"mounted", "torn"}
      BY <1>1 DEF Mount, TypeOK
    <3> QED
      BY <1>1, <3>1, <3>2 DEF Mount, TypeOK
  <2>3. CurrentWell' /\ EffectWell'
    BY <1>1, <2>1 DEF Mount, CurrentWell, EffectWell
  <2>4. \A a \in Slots : AttemptWell(attempt'[a])
    BY <1>1 DEF Mount
  <2> QED
    BY <2>2, <2>3, <2>4
<1>2. CASE RegistryRefused \/ ClaimRefused \/ TornStartReturns \/ OtherProvider
  <2>1. TypeOK'
    BY <1>2 DEF RegistryRefused, ClaimRefused, TornStartReturns, OtherProvider, TypeOK
  <2>2. CurrentWell' /\ \A a \in Slots : AttemptWell(attempt'[a])
    BY <1>2 DEF RegistryRefused, ClaimRefused, TornStartReturns, OtherProvider, CurrentWell
  <2>3. EffectWell'
    <3>1. UNCHANGED <<mounted, serving, timer, current>>
      BY <1>2 DEF RegistryRefused, ClaimRefused, TornStartReturns, OtherProvider
    <3>2. failed' = failed \/ failed' = TRUE
      BY <1>2 DEF RegistryRefused, ClaimRefused, TornStartReturns, OtherProvider
    <3>3. (claim' = "ours" => claim = "ours") /\ starting' \subseteq starting
      BY <1>2 DEF RegistryRefused, ClaimRefused, TornStartReturns, OtherProvider
    <3> QED
      BY <3>1, <3>2, <3>3 DEF EffectWell
  <2> QED
    BY <2>1, <2>2, <2>3
<1>3. ASSUME NEW a \in Slots, Serve(a) PROVE LifecycleInv'
  <2>1. mounted /\ current = NoRuntime /\ ~timer /\ ~serving
    BY <1>3 DEF Serve, EffectWell
  <2>2. PICK throws \in Throws(published, "connecting") :
          IF throws THEN failed' = TRUE /\ UNCHANGED <<current, attempt>>
          ELSE Begin(a, TRUE) /\ UNCHANGED failed
    BY <1>3 DEF Serve
  <2>3. throws \in BOOLEAN /\ published' \in Statuses
    BY <1>3, <2>2, ReportTyped DEF Serve, TypeOK, Statuses
  <2>4. CASE throws
    <3>1. TypeOK'
      BY <1>3, <2>2, <2>3, <2>4 DEF Serve, TypeOK
    <3>2. CurrentWell' /\ \A b \in Slots : AttemptWell(attempt'[b])
      BY <1>3, <2>2, <2>4 DEF Serve, CurrentWell
    <3>3. EffectWell'
      BY <1>3, <2>1, <2>2, <2>4 DEF Serve, EffectWell
    <3> QED
      BY <3>1, <3>2, <3>3
  <2>5. CASE ~throws
    <3>1. Begin(a, TRUE) /\ failed' = failed
      BY <2>2, <2>5
    <3>2. /\ "mounted" \notin starting' /\ starting' \subseteq starting
          /\ mounted' = mounted /\ mounts' = mounts /\ claim' = "ours" /\ serving' = TRUE
          /\ index' = index /\ timer' = timer
      BY <1>3 DEF Serve
    <3> QED
      BY <2>1, <2>3, <3>1, <3>2, BeginsWell DEF TypeOK
  <2> QED
    BY <2>3, <2>4, <2>5
<1> QED
  BY <1>1, <1>2, <1>3

(* The cleanup tears every attempt down, and shuts the one it can reach.    *)
LEMMA TeardownKeeps ==
  ASSUME LifecycleInv, Teardown
  PROVE  LifecycleInv'
<1> DEFINE torn(a) == [attempt[a] EXCEPT !.torn = attempt[a].stage # "none"]
           left(a) == IF a = current THEN Shut(torn(a)) ELSE torn(a)
<1>1. attempt \in [Slots -> Attempts] /\ \A a \in Slots : AttemptWell(attempt[a])
  BY DEF LifecycleInv, TypeOK
<1>2. attempt' = [a \in Slots |-> IF InFlight(a) THEN left(a) ELSE Over(left(a))]
  BY DEF Teardown
<1>3. ASSUME NEW a \in Slots
      PROVE  AttemptWell(attempt'[a]) /\ (attempt'[a].stage # "none" => attempt'[a].torn)
  <2>1. torn(a) \in Attempts /\ torn(a).stage = attempt[a].stage
        /\ torn(a).transport = attempt[a].transport
        /\ torn(a).window = attempt[a].window /\ torn(a).subscribed = attempt[a].subscribed
        /\ torn(a).torn = (attempt[a].stage # "none")
    BY <1>1 DEF Attempts
  <2>2. CASE attempt[a].stage = "none"
    <3>1. a # current
      BY <2>2 DEF LifecycleInv, CurrentWell, NoRuntime, Slots
    <3>2. torn(a) = NoAttempt
      <4>1. attempt[a] = NoAttempt /\ ~attempt[a].torn
        BY <1>1, <2>2, NoAttemptTyped DEF AttemptWell
      <4>2. torn(a) = attempt[a]
        BY <1>1, <2>2, <4>1 DEF Attempts
      <4> QED
        BY <4>1, <4>2
    <3>3. Over(NoAttempt) = NoAttempt
      BY DEF Over, NoAttempt, Held, Unused
    <3> QED
      BY <1>2, <2>2, <3>1, <3>2, <3>3, NoAttemptTyped DEF InFlight, Awaiting
  <2>3. CASE attempt[a].stage # "none" /\ a = current
    <3>1. ~attempt[a].torn
      BY <2>3 DEF LifecycleInv, CurrentWell, NoRuntime, Slots
    <3>2. left(a) \in Attempts /\ left(a).torn /\ left(a).stage = attempt[a].stage
          /\ ~left(a).window /\ ~left(a).subscribed /\ Detached(left(a).transport)
      BY <2>1, <2>3, ShutWell
    <3>3. CASE InFlight(a)
      <4>1. attempt[a].stage = "url" => left(a).transport.socket = "none"
        BY <1>1, <2>1, <2>3 DEF AttemptWell, Shut, GivenUp, Ended, Attempts, Transports, Detached
      <4>2. attempt[a].stage = "dialing" => left(a).transport.socket # "open"
        BY <1>1, <2>1, <2>3, <3>1
        DEF AttemptWell, Shut, GivenUp, Ended, Attempts, Transports, Detached
      <4> HIDE DEF left
      <4> QED
        BY <1>2, <3>2, <3>3, <4>1, <4>2 DEF AttemptWell, InFlight, Awaiting
    <3>4. CASE ~InFlight(a)
      <4>1. attempt'[a] = Over(Shut(torn(a)))
        BY <1>2, <2>3, <3>4
      <4> HIDE DEF torn
      <4> QED
        BY <2>1, <2>3, <4>1, OverWell
    <3> QED
      BY <3>3, <3>4
  <2>4. CASE attempt[a].stage # "none" /\ a # current
    <3>1. attempt[a].torn /\ torn(a) = attempt[a] /\ left(a) = attempt[a]
      <4>1. attempt[a].torn
        BY <2>4 DEF LifecycleInv, CurrentWell
      <4> QED
        BY <1>1, <2>4, <4>1 DEF Attempts
    <3>2. CASE InFlight(a)
      BY <1>1, <1>2, <3>1, <3>2
    <3>3. CASE ~InFlight(a)
      <4>1. attempt[a].stage = "over" /\ ~attempt[a].window /\ ~attempt[a].subscribed
        BY <1>1, <2>4, <3>1, <3>3 DEF AttemptWell, InFlight, Attempts, Stages
      <4>2. Over(attempt[a]) \in {attempt[a], NoAttempt}
        BY <1>1, <4>1 DEF Over, Attempts
      <4>3. attempt'[a] = Over(attempt[a])
        BY <1>2, <3>1, <3>3
      <4> QED
        BY <1>1, <3>1, <4>2, <4>3, NoAttemptTyped
    <3> QED
      BY <3>2, <3>3
  <2> QED
    BY <2>2, <2>3, <2>4
<1>4. attempt' \in [Slots -> Attempts]
  BY <1>2, <1>3 DEF AttemptWell
<1>5. TypeOK'
  <2>1. published' \in Statuses
    BY ReportTyped DEF Teardown, LifecycleInv, TypeOK, Statuses
  <2> HIDE DEF left
  <2> QED
    BY <1>4, <2>1 DEF Teardown, LifecycleInv, TypeOK
<1>6. CurrentWell'
  BY <1>3 DEF Teardown, CurrentWell
<1>7. EffectWell'
  BY DEF Teardown, EffectWell, LifecycleInv
<1> QED
  BY <1>3, <1>5, <1>6, <1>7 DEF LifecycleInv

(* What an event leaves of a transport the attempt still has.               *)
LEMMA EventsWell ==
  ASSUME NEW t \in Transports
  PROVE  /\ Detached(t) <=> t.position = "ended"
         /\ Dialed(t).position = t.position /\ Dialed(t).socket = "dialing"
         /\ Opened(t).socket = "open"
         /\ t.position = "starting" => Sendable(Opened(t))
         /\ Detached(t) => Detached(Opened(t))
         /\ Dropped(t).position = "ended" /\ Dropped(t).socket = "closed"
         /\ Sendable(t) => ~Detached(t) /\ t.socket = "open"
BY DEF Transports, Dialed, Opened, Dropped, Ended, Detached, Sendable

(* Every way connect() can reject.                                          *)
LEMMA RejectionKeeps ==
  ASSUME LifecycleInv, NEW a \in Slots,
         UrlRefused(a) \/ UrlUnusable(a) \/ UrlAnsweredLate(a) \/ DialFails(a)
           \/ SubscriptionFails(a)
           \/ (attempt[a].stage = "dialing"
                 /\ Rejected(a, GivenUp(attempt[a].transport), FALSE))
  PROVE  LifecycleInv'
<1> DEFINE t == attempt[a].transport
<1>1. AttemptWell(attempt[a]) /\ t \in Transports
  BY DEF LifecycleInv, TypeOK, Attempts
<1>2. CASE UrlRefused(a) \/ UrlUnusable(a)
  <2>1. attempt[a].stage = "url" /\ Rejected(a, Ended(t), FALSE)
    BY <1>2 DEF UrlRefused, UrlUnusable
  <2>2. ~Held(Ended(t))
    BY <1>1, <2>1 DEF AttemptWell, Held, Ended, Transports
  <2>3. Ended(t) \in Transports
    BY <1>1, TransportTyped
  <2> HIDE DEF t
  <2> QED
    BY <2>1, <2>2, <2>3, RejectedWell
<1>3. CASE UrlAnsweredLate(a)
  <2>1. attempt[a].stage = "url" /\ Rejected(a, GivenUp(Dialed(t)), FALSE)
    BY <1>3 DEF UrlAnsweredLate
  <2>2. GivenUp(Dialed(t)) \in Transports /\ ~Held(GivenUp(Dialed(t)))
    BY <1>1, TransportTyped
  <2> HIDE DEF t
  <2> QED
    BY <2>1, <2>2, RejectedWell
<1>4. CASE DialFails(a) \/ (attempt[a].stage = "dialing" /\ Rejected(a, GivenUp(t), FALSE))
  <2>1. attempt[a].stage = "dialing" /\ Rejected(a, GivenUp(t), FALSE)
    BY <1>4 DEF DialFails
  <2>2. GivenUp(t) \in Transports /\ ~Held(GivenUp(t))
    BY <1>1, TransportTyped
  <2> HIDE DEF t
  <2> QED
    BY <2>1, <2>2, RejectedWell
<1>5. CASE SubscriptionFails(a)
  <2>1. attempt[a].stage = "subscribing" /\ Rejected(a, t, TRUE)
    BY <1>5 DEF SubscriptionFails
  <2>2. ~attempt[a].torn /\ Detached(t) => ~Held(t)
    BY <1>1, <2>1, EventsWell DEF AttemptWell
  <2> HIDE DEF t
  <2> QED
    BY <1>1, <2>1, <2>2, RejectedWell
<1> QED
  BY <1>2, <1>3, <1>4, <1>5

(* Every event of an attempt that goes on. *)
LEMMA ProgressKeeps ==
  ASSUME LifecycleInv, NEW a \in Slots,
         UrlAnswered(a) \/ DeadlineFires(a) \/ Handshake(a) \/ Subscribed(a)
  PROVE  LifecycleInv'
<1> DEFINE t == attempt[a].transport
<1>1. AttemptWell(attempt[a]) /\ attempt[a] \in Attempts /\ t \in Transports
  BY DEF LifecycleInv, TypeOK, Attempts
<1>2. CASE UrlAnswered(a)
  <2> DEFINE r == [attempt[a] EXCEPT !.stage = "dialing", !.transport = Dialed(@)]
  <2>1. Becomes(a, r) /\ attempt[a].stage = "url"
    BY <1>2 DEF UrlAnswered
  <2>2. Dialed(t) \in Transports
    BY <1>1, TransportTyped
  <2>3. AttemptWell(r) /\ r.stage # "none" /\ r.torn = attempt[a].torn
    BY <1>1, <2>1, <2>2, EventsWell
    DEF AttemptWell, Attempts, Stages, Awaiting, Detached
  <2> HIDE DEF r
  <2> QED
    BY <2>1, <2>3, BecomesWell
<1>3. CASE attempt[a].stage = "url" /\ Becomes(a, [attempt[a] EXCEPT !.transport.expired = TRUE])
  <2> DEFINE r == [attempt[a] EXCEPT !.transport.expired = TRUE]
  <2>1. /\ r \in Attempts /\ r.stage = "url" /\ r.torn = attempt[a].torn
        /\ r.transport.socket = t.socket /\ r.transport.position = t.position
    BY <1>1, <1>3 DEF Attempts, Transports
  <2>2. AttemptWell(r)
    <3> HIDE DEF r
    <3> QED
      BY <1>1, <1>3, <2>1 DEF AttemptWell, Detached
  <2> HIDE DEF r
  <2> QED
    BY <1>3, <2>1, <2>2, BecomesWell DEF r
<1>4. CASE Handshake(a)
  <2> DEFINE r == [attempt[a] EXCEPT !.stage = "subscribing", !.transport = Opened(@)]
  <2>1. Becomes(a, r) /\ attempt[a].stage = "dialing"
    BY <1>4 DEF Handshake
  <2>2. Opened(t) \in Transports
    BY <1>1, TransportTyped
  <2>3. AttemptWell(r) /\ r.stage # "none" /\ r.torn = attempt[a].torn
    BY <1>1, <2>1, <2>2, EventsWell DEF AttemptWell, Attempts, Stages, Awaiting
  <2> HIDE DEF r
  <2> QED
    BY <2>1, <2>3, BecomesWell
<1>5. CASE Subscribed(a)
  <2> DEFINE r == [attempt[a] EXCEPT !.stage = "baselining", !.subscribed = TRUE,
                                     !.window = TRUE]
  <2>1. Becomes(a, r) /\ attempt[a].stage = "subscribing"
    BY <1>5 DEF Subscribed
  <2>2. AttemptWell(r) /\ r.stage # "none" /\ r.torn = attempt[a].torn
    BY <1>1, <2>1 DEF AttemptWell, Attempts, Stages, Awaiting
  <2> HIDE DEF r
  <2> QED
    BY <2>1, <2>2, BecomesWell
<1>6. CASE attempt[a].stage = "dialing" /\ Rejected(a, GivenUp(t), FALSE)
  BY <1>6, RejectionKeeps
<1> QED
  BY <1>2, <1>3, <1>4, <1>5, <1>6 DEF DeadlineFires

(* connect() resolves, for an effect that is gone, on a channel that is gone*)
(* or established.                                                          *)
LEMMA ResolvesKeeps ==
  ASSUME LifecycleInv, NEW a \in Slots, Resolves(a)
  PROVE  LifecycleInv'
<1>1. AttemptWell(attempt[a]) /\ attempt[a] \in Attempts /\ attempt[a].transport \in Transports
      /\ attempt \in [Slots -> Attempts] /\ timer \in BOOLEAN /\ failed \in BOOLEAN
      /\ published \in Statuses /\ index \in 0..LastInterval /\ current \in Slots \cup {NoRuntime}
  BY DEF LifecycleInv, TypeOK, Attempts
<1>2. CASE ConnectedTorn(a)
  <2> DEFINE r == Over(Shut(attempt[a]))
  <2>1. Becomes(a, r) /\ attempt[a].stage = "baselining" /\ attempt[a].torn
    BY <1>2 DEF ConnectedTorn
  <2>2. AttemptWell(r) /\ (r.stage # "none" => r.torn)
    BY <1>1, <2>1, OverWell
  <2> HIDE DEF r
  <2> QED
    BY <2>1, <2>2, BecomesWell
<1>3. CASE ConnectedDead(a)
  <2>1. /\ attempt[a].stage = "baselining" /\ ~attempt[a].torn
        /\ attempt' = [attempt EXCEPT ![a] = Over(Shut(attempt[a]))]
        /\ current' = LetGo(a) /\ UNCHANGED <<mounted, mounts, starting, claim, serving>>
    BY <1>1, <1>3 DEF ConnectedDead
  <2>2. Detached(attempt[a].transport) => ~Held(attempt[a].transport)
    BY <1>1, <2>1, EventsWell DEF AttemptWell
  <2>3. /\ published' \in Statuses /\ index' \in 0..LastInterval
        /\ timer' \in BOOLEAN /\ failed' \in BOOLEAN
    <3>1. CASE ScheduleRecovery(published) /\ UNCHANGED failed
      BY <1>1, <3>1, ScheduleTyped
    <3>2. CASE RecoverLoudly("reconnecting", Advanced(index))
      <4>1. "reconnecting" \in Statuses
        BY DEF Statuses
      <4>2. failed'
        BY <3>2 DEF RecoverLoudly
      <4>3. failed' = TRUE
        BY <3>2 DEF RecoverLoudly
      <4> QED
        BY <1>1, <3>2, <4>1, <4>3, AdvancedTyped, LoudTyped
    <3> QED
      BY <1>3, <3>1, <3>2 DEF ConnectedDead
  <2> QED
    BY <1>1, <2>1, <2>2, <2>3, EndsWell
<1>4. CASE Established(a)
  <2> DEFINE r == [attempt[a] EXCEPT !.stage = "connected"]
  <2>1. /\ attempt[a].stage = "baselining" /\ ~attempt[a].torn
        /\ ~Detached(attempt[a].transport) /\ attempt' = [attempt EXCEPT ![a] = r]
        /\ UNCHANGED <<mounted, mounts, starting, claim, serving, current>>
    BY <1>1, <1>4 DEF Established
  <2>2. AttemptWell(r) /\ r.stage = "connected" /\ ~r.torn
    BY <1>1, <2>1 DEF AttemptWell, Attempts, Stages, Awaiting
  <2> HIDE DEF r
  <2>3. current = a /\ mounted /\ a # NoRuntime
    BY <2>1 DEF LifecycleInv, CurrentWell, NoRuntime, Slots
  <2>4. "mounted" \notin starting /\ (claim = "ours" => serving)
    BY <2>3 DEF LifecycleInv, EffectWell
  <2>5. /\ published' \in Statuses /\ index' \in 0..LastInterval
        /\ timer' \in BOOLEAN /\ failed' \in BOOLEAN
        /\ (timer' => failed' /\ ObserverMayThrow)
    <3>1. PICK throws \in Throws(published, "connected") :
            IF throws /\ ~attempt[a].first THEN RecoverLoudly("connected", 0)
            ELSE /\ published' = Reported(published, "connected")
                 /\ index' = 0
                 /\ failed' = (failed \/ throws)
                 /\ UNCHANGED timer
      BY <1>4 DEF Established
    <3>2. /\ throws \in BOOLEAN /\ (throws => ObserverMayThrow) /\ "connected" \in Statuses
          /\ 0 \in 0..LastInterval
      <4>1. "connected" \in Statuses
        BY DEF Statuses
      <4>2. throws \in BOOLEAN /\ (~ObserverMayThrow => throws \in {FALSE})
        BY <1>1, <4>1, ReportTyped
      <4>3. 0 \in 0..LastInterval
        BY LifecycleAssumption
      <4> QED
        BY <4>1, <4>2, <4>3, LifecycleAssumption
    <3>3. CASE throws /\ ~attempt[a].first
      <4>1. RecoverLoudly("connected", 0)
        BY <3>1, <3>3
      <4>2. failed' = TRUE
        BY <4>1 DEF RecoverLoudly
      <4> QED
        BY <3>2, <3>3, <4>1, <4>2, LoudTyped
    <3>4. CASE ~(throws /\ ~attempt[a].first)
      <4>1. /\ published' = Reported(published, "connected") /\ index' = 0
            /\ failed' = (failed \/ throws) /\ timer' = timer
        BY <3>1, <3>4
      <4>2. published' \in Statuses
        BY <1>1, <3>2, <4>1, ReportTyped
      <4>3. timer => failed /\ ObserverMayThrow
        BY <2>3 DEF LifecycleInv, EffectWell
      <4>4. failed' \in BOOLEAN /\ (failed => failed')
        BY <1>1, <3>2, <4>1
      <4>5. timer' \in BOOLEAN /\ (timer' => failed' /\ ObserverMayThrow)
        BY <1>1, <4>1, <4>3, <4>4
      <4> QED
        BY <3>2, <4>1, <4>2, <4>4, <4>5
    <3> QED
      BY <3>3, <3>4
  <2>6. TypeOK'
    BY <1>1, <2>1, <2>2, <2>5 DEF LifecycleInv, TypeOK, AttemptWell
  <2>7. \A b \in Slots : AttemptWell(attempt'[b])
    BY <1>1, <2>1, <2>2 DEF LifecycleInv
  <2>8. CurrentWell'
    BY <1>1, <2>1, <2>2, <2>3 DEF LifecycleInv, CurrentWell
  <2>9. EffectWell'
    BY <2>1, <2>3, <2>4, <2>5 DEF EffectWell
  <2> QED
    BY <2>6, <2>7, <2>8, <2>9 DEF LifecycleInv
<1> QED
  BY <1>2, <1>3, <1>4 DEF Resolves

(* The end of a channel, told to whoever still listens. *)
LEMMA ChannelEndsKeeps ==
  ASSUME LifecycleInv, NEW a \in Slots, ChannelEnds(a)
  PROVE  LifecycleInv'
<1> DEFINE r    == attempt[a]
           t    == r.transport
           left == [r EXCEPT !.transport = Dropped(@), !.window = @ /\ Detached(t)]
<1>1. AttemptWell(r) /\ r \in Attempts /\ t \in Transports
      /\ attempt \in [Slots -> Attempts] /\ timer \in BOOLEAN /\ failed \in BOOLEAN
      /\ published \in Statuses /\ index \in 0..LastInterval
  BY DEF LifecycleInv, TypeOK, Attempts
<1>2. t.socket = "open"
  BY DEF ChannelEnds
<1>3. /\ left \in Attempts /\ left.stage = r.stage /\ left.torn = r.torn
      /\ Detached(left.transport) /\ ~Held(left.transport)
      /\ (~r.window => ~left.window) /\ left.subscribed = r.subscribed
  BY <1>1, TransportTyped DEF Attempts, Detached
<1>4. r.stage # "none" /\ r.stage # "url" /\ r.stage # "dialing"
  BY <1>1, <1>2, NoAttemptTyped DEF AttemptWell, NoAttempt, Unused
<1>5. CASE r.stage = "connected"
  <2>1. /\ attempt' = [attempt EXCEPT ![a] = Over(Shut(left))] /\ current' = LetGo(a)
        /\ ScheduleRecovery(published)
        /\ UNCHANGED <<mounted, mounts, starting, claim, serving, failed>>
    BY <1>5 DEF ChannelEnds
  <2>2. ~r.torn
    BY <1>1, <1>5 DEF AttemptWell
  <2> HIDE DEF left
  <2> QED
    BY <1>1, <1>3, <1>5, <2>1, <2>2, ScheduleTyped, EndsWell
<1>6. CASE InFlight(a)
  <2>1. Becomes(a, left)
    BY <1>6 DEF ChannelEnds, InFlight, Awaiting
  <2>2. AttemptWell(left)
    <3> HIDE DEF left
    <3> QED
      BY <1>1, <1>3, <1>4, <1>6 DEF AttemptWell, InFlight, Awaiting
  <2> HIDE DEF left
  <2> QED
    BY <1>3, <1>4, <2>1, <2>2, BecomesWell
<1>7. CASE r.stage = "over"
  <2>1. Becomes(a, Over(left))
    BY <1>7 DEF ChannelEnds, InFlight, Awaiting
  <2>2. r.torn /\ ~left.window /\ ~left.subscribed
    BY <1>1, <1>3, <1>7 DEF AttemptWell
  <2> HIDE DEF left
  <2>3. Over(left) = NoAttempt
    BY <1>3, <2>2 DEF Over
  <2> QED
    BY <2>1, <2>2, <2>3, NoAttemptTyped, BecomesWell
<1> QED
  BY <1>1, <1>4, <1>5, <1>6, <1>7 DEF InFlight, Attempts, Stages

(* The recovery's timer finds no attempt under way. *)
LEMMA TimerKeeps ==
  ASSUME LifecycleInv, NEW a \in Slots, TimerFires(a)
  PROVE  LifecycleInv'
<1>1. mounted /\ current = NoRuntime /\ "mounted" \notin starting
  BY DEF TimerFires, LifecycleInv, EffectWell
<1>2. /\ Begin(a, FALSE) /\ timer' = FALSE
      /\ UNCHANGED <<mounted, mounts, starting, claim, serving, published, index, failed>>
  BY DEF TimerFires
<1> QED
  BY <1>1, <1>2, BeginsWell DEF LifecycleInv, TypeOK, EffectWell

(* The invariant holds in every state, whatever the observers do. *)
THEOREM Lifecycle == Spec => []LifecycleInv
<1>1. ASSUME LifecycleInv, [Next]_vars PROVE LifecycleInv'
  <2>1. CASE Next
    <3>1. CASE Teardown
      BY <1>1, <3>1, TeardownKeeps
    <3>2. CASE Mount \/ RegistryRefused \/ ClaimRefused \/ TornStartReturns \/ OtherProvider
                 \/ \E a \in Slots : Serve(a)
      BY <1>1, <3>2, EffectKeeps
    <3>3. ASSUME NEW a \in Slots, Platform(a) PROVE LifecycleInv'
      BY <1>1, <3>3, RejectionKeeps, ProgressKeeps, ChannelEndsKeeps DEF Platform
    <3>4. ASSUME NEW a \in Slots, Resolves(a) PROVE LifecycleInv'
      BY <1>1, <3>4, ResolvesKeeps
    <3>5. ASSUME NEW a \in Slots, TimerFires(a) PROVE LifecycleInv'
      BY <1>1, <3>5, TimerKeeps
    <3> QED
      BY <2>1, <3>1, <3>2, <3>3, <3>4, <3>5 DEF Next
  <2>2. CASE UNCHANGED vars
    BY <1>1, <2>2 DEF vars, LifecycleInv, TypeOK, CurrentWell, EffectWell
  <2> QED
    BY <1>1, <2>1, <2>2
<1> QED
  BY <1>1, LifecycleInit, PTL DEF Spec

-----------------------------------------------------------------------------
(***************************************************************************)
(* StatusInv is inductive over it, and what is published moves the way the  *)
(* link moves, if observers do not throw.                                  *)
(***************************************************************************)
Moves ==
  \/ published' \in {published, "disconnected"}
  \/ published = "disconnected" /\ published' = "connecting"
  \/ published \in {"connecting", "reconnecting"} /\ published' = "connected"
  \/ published = "connected" /\ published' = "reconnecting"
  \/ published = "connecting" /\ published' = "error"

(* The reports the provider's own code makes. *)
LEMMA ReportCases ==
  /\ Reported("disconnected", "connecting") = "connecting"
  /\ Reported("connecting", "error") = "error"
  /\ Reported("connecting", "reconnecting") = "connecting"
  /\ Reported("reconnecting", "reconnecting") = "reconnecting"
  /\ Reported("connected", "reconnecting") = "reconnecting"
  /\ Reported("connecting", "connected") = "connected"
  /\ Reported("reconnecting", "connected") = "connected"
  /\ \A from \in Statuses : Reported(from, "disconnected") = "disconnected"
BY DEF Reported, Permits, Transitions, Statuses

(* A recovery asked for is shown, and has its timer if no observer throws. *)
LEMMA QuietSchedule ==
  ASSUME NEW from \in Statuses, ScheduleRecovery(from)
  PROVE  /\ published' = Reported(from, "reconnecting")
         /\ timer' \/ ObserverMayThrow
BY DEF ScheduleRecovery, Throws

(* A loud one, out of a report that was permitted, too. *)
LEMMA LoudSchedule ==
  ASSUME NEW from \in {"connected", "reconnecting"}, NEW at, RecoverLoudly(from, at)
  PROVE  published' = "reconnecting" /\ failed'
BY ReportCases DEF RecoverLoudly

(* An attempt under way is the current one, of an effect that started.      *)
LEMMA UnderWay ==
  ASSUME LifecycleInv, NEW a \in Slots, attempt[a].stage # "none", ~attempt[a].torn
  PROVE  current = a /\ current # NoRuntime /\ mounted /\ "mounted" \notin starting
BY DEF LifecycleInv, CurrentWell, EffectWell, NoRuntime, Slots

(* What a page cannot reach is not the current attempt. *)
LEMMA TornIsNotCurrent ==
  ASSUME LifecycleInv, NEW a \in Slots, attempt[a].torn
  PROVE  current # a
BY DEF LifecycleInv, CurrentWell, NoRuntime, Slots

(* A step between two awaits, or of an attempt no page reaches, shows       *)
(* nothing.                                                                 *)
LEMMA BecomesStatus ==
  ASSUME LifecycleInv, StatusInv, NEW a \in Slots, NEW r, Becomes(a, r),
         \/ InFlight(a) /\ r.stage \in Awaiting /\ r.first = attempt[a].first
         \/ attempt[a].torn
  PROVE  StatusInv' /\ published' = published
<1>1. attempt \in [Slots -> Attempts] /\ current \in Slots \cup {NoRuntime}
  BY DEF LifecycleInv, TypeOK
<1>2. /\ attempt' = [attempt EXCEPT ![a] = r]
      /\ UNCHANGED <<mounted, starting, published, timer, current, failed>>
  BY DEF Becomes
<1>3. ASSUME current # NoRuntime
      PROVE  /\ (attempt'[current].stage = "connected") = (attempt[current].stage = "connected")
             /\ (attempt'[current].stage \in Awaiting) = (attempt[current].stage \in Awaiting)
             /\ attempt[current].stage \in Awaiting =>
                  attempt'[current].first = attempt[current].first
  <2>1. CASE current = a
    <3>1. attempt'[a] = r /\ ~attempt[a].torn
      BY <1>1, <1>2, <2>1, TornIsNotCurrent
    <3>2. "connected" \notin Awaiting
      BY DEF Awaiting
    <3> QED
      BY <2>1, <3>1, <3>2 DEF InFlight
  <2>2. CASE current # a
    BY <1>1, <1>2, <1>3, <2>2
  <2> QED
    BY <2>1, <2>2
<1> QED
  BY <1>2, <1>3 DEF StatusInv, RecoveryNeverGivesUp, InFlight, Failing

(* The current attempt ends: in a recovery, whose timer an observer may have *)
(* stopped, or in an error.                                                 *)
LEMMA EndsStatus ==
  ASSUME LifecycleInv, StatusInv, NEW a \in Slots,
         attempt[a].stage # "none", ~attempt[a].torn, current' = LetGo(a),
         UNCHANGED <<mounted, starting>>,
         \/ published' \in {"connecting", "reconnecting"} /\ (timer' \/ ObserverMayThrow)
         \/ ~timer' /\ published' \in {"connecting", "error"}
  PROVE  StatusInv'
<1>1. current = a /\ current' = NoRuntime /\ mounted' /\ "mounted" \notin starting'
  BY UnderWay DEF LetGo
<1> QED
  BY <1>1 DEF StatusInv, RecoveryNeverGivesUp

(* A rejection is shown as an error of the first attempt, and recovered of  *)
(* a later one.                                                             *)
LEMMA RejectedStatus ==
  ASSUME LifecycleInv, StatusInv, NEW a \in Slots, InFlight(a),
         NEW t, NEW loud \in BOOLEAN, Rejected(a, t, loud)
  PROVE  StatusInv' /\ Moves
<1>1. attempt[a].stage # "none" /\ published \in Statuses /\ attempt \in [Slots -> Attempts]
      /\ current \in Slots \cup {NoRuntime}
  BY DEF InFlight, Awaiting, LifecycleInv, TypeOK
<1>2. /\ \A b \in Slots : b # a => attempt'[b] = attempt[b]
      /\ current' = LetGo(a) /\ UNCHANGED <<mounted, starting>>
  BY <1>1 DEF Rejected
<1>3. CASE attempt[a].torn
  <2>1. UNCHANGED <<published, timer, failed>> /\ current' = current /\ current # a
    BY <1>2, <1>3, TornIsNotCurrent DEF Rejected, LetGo
  <2>2. current # NoRuntime => attempt'[current] = attempt[current]
    BY <1>1, <1>2, <2>1
  <2> QED
    BY <1>2, <2>1, <2>2 DEF StatusInv, RecoveryNeverGivesUp, InFlight, Moves, Failing
<1>4. CASE ~attempt[a].torn
  <2>1. current = a /\ current # NoRuntime
    BY <1>1, <1>4, UnderWay
  <2>2. CASE attempt[a].first
    <3>1. published = "connecting" /\ ~timer /\ timer' = timer
          /\ published' = IF loud THEN published ELSE Reported(published, "error")
      BY <1>4, <2>1, <2>2 DEF Rejected, StatusInv
    <3>2. published' \in {"connecting", "error"} /\ ~timer'
      BY <3>1, ReportCases
    <3> QED
      BY <1>1, <1>2, <1>4, <3>1, <3>2, EndsStatus DEF Moves
  <2>3. CASE ~attempt[a].first
    <3>1. published \in {"connecting", "reconnecting"} /\ ScheduleRecovery(published)
      BY <1>4, <2>1, <2>3 DEF Rejected, StatusInv
    <3>2. published' = published /\ (timer' \/ ObserverMayThrow)
      BY <1>1, <3>1, QuietSchedule, ReportCases
    <3> QED
      BY <1>1, <1>2, <1>4, <3>1, <3>2, EndsStatus DEF Moves
  <2> QED
    BY <2>2, <2>3
<1> QED
  BY <1>3, <1>4

(* What an attempt begins under is what a page shows then. *)
LEMMA BeginsStatus ==
  ASSUME LifecycleInv, NEW a \in Slots, NEW first \in BOOLEAN, Begin(a, first),
         mounted', "mounted" \notin starting', ~timer',
         published' \in {"connecting", "reconnecting"},
         first => published' = "connecting"
  PROVE  StatusInv'
<1>1. current' = a /\ attempt'[a].stage = "url" /\ attempt'[a].first = first
  BY DEF Begin, NoAttempt, LifecycleInv, TypeOK
<1>2. a # NoRuntime /\ "url" \in Awaiting
  BY DEF Slots, NoRuntime, Awaiting
<1> QED
  BY <1>1, <1>2 DEF StatusInv, RecoveryNeverGivesUp, InFlight

(* The effect, start() and the recovery's timer. *)
LEMMA EffectStatus ==
  ASSUME LifecycleInv, StatusInv,
         Mount \/ RegistryRefused \/ ClaimRefused \/ TornStartReturns \/ OtherProvider
           \/ Teardown \/ \E a \in Slots : Serve(a) \/ TimerFires(a)
  PROVE  StatusInv' /\ Moves
<1>0. published \in Statuses /\ attempt \in [Slots -> Attempts]
  BY DEF LifecycleInv, TypeOK
<1>1. CASE Mount
  <2>1. current = NoRuntime /\ ~timer /\ published = "disconnected"
    BY <1>1 DEF Mount, LifecycleInv, CurrentWell, EffectWell, StatusInv
  <2> QED
    BY <1>1, <2>1 DEF Mount, StatusInv, RecoveryNeverGivesUp, Moves
<1>2. CASE RegistryRefused \/ ClaimRefused \/ TornStartReturns \/ OtherProvider
  <2>1. /\ UNCHANGED <<mounted, published, timer, current, attempt>>
        /\ starting' \subseteq starting
        /\ failed' = failed \/ failed' = TRUE
    BY <1>2 DEF RegistryRefused, ClaimRefused, TornStartReturns, OtherProvider
  <2> QED
    BY <2>1 DEF StatusInv, RecoveryNeverGivesUp, InFlight, Moves, Failing
<1>3. CASE Teardown
  <2>1. published' = "disconnected" /\ ~mounted' /\ ~timer' /\ current' = NoRuntime
    BY <1>0, <1>3, ReportCases DEF Teardown
  <2> QED
    BY <2>1 DEF StatusInv, RecoveryNeverGivesUp, Moves
<1>4. ASSUME NEW a \in Slots, Serve(a) PROVE StatusInv' /\ Moves
  <2>1. /\ published = "disconnected" /\ mounted /\ ~timer /\ current = NoRuntime
        /\ UNCHANGED <<mounted, timer>> /\ "mounted" \notin starting'
    BY <1>4 DEF Serve, StatusInv, LifecycleInv, EffectWell
  <2>2. published' = "connecting"
    BY <1>4, <2>1, ReportCases DEF Serve
  <2>3. Begin(a, TRUE) \/ UNCHANGED current
    BY <1>4 DEF Serve
  <2>4. CASE Begin(a, TRUE)
    BY <2>1, <2>2, <2>4, BeginsStatus DEF Moves
  <2>5. CASE UNCHANGED current
    BY <2>1, <2>2, <2>5 DEF StatusInv, RecoveryNeverGivesUp, Moves
  <2> QED
    BY <2>3, <2>4, <2>5
<1>5. ASSUME NEW a \in Slots, TimerFires(a) PROVE StatusInv' /\ Moves
  <2>1. Begin(a, FALSE) /\ timer /\ ~timer' /\ UNCHANGED <<mounted, starting, published>>
    BY <1>5 DEF TimerFires
  <2>2. mounted /\ "mounted" \notin starting /\ published \in {"connecting", "reconnecting"}
    BY <2>1 DEF StatusInv, LifecycleInv, EffectWell
  <2> QED
    BY <2>1, <2>2, BeginsStatus DEF Moves
<1> QED
  BY <1>1, <1>2, <1>3, <1>4, <1>5

(* connect() resolves on a channel that ended meanwhile. *)
LEMMA DeadStatus ==
  ASSUME LifecycleInv, StatusInv, NEW a \in Slots, ConnectedDead(a)
  PROVE  StatusInv' /\ (~ObserverMayThrow => Moves)
<1>1. /\ attempt[a].stage = "baselining" /\ ~attempt[a].torn /\ current' = LetGo(a)
      /\ UNCHANGED <<mounted, starting>> /\ published \in Statuses
  BY DEF ConnectedDead, LifecycleInv, TypeOK
<1>2. published \in {"connecting", "reconnecting"}
  BY <1>1, UnderWay DEF StatusInv, InFlight, Awaiting
<1>3. CASE ScheduleRecovery(published)
  <2>1. published' = published /\ (timer' \/ ObserverMayThrow)
    BY <1>1, <1>2, <1>3, QuietSchedule, ReportCases
  <2> QED
    BY <1>1, <1>2, <2>1, EndsStatus DEF Moves
<1>4. CASE ObserverMayThrow /\ RecoverLoudly("reconnecting", Advanced(index))
  <2>1. published' = "reconnecting"
    BY <1>4, LoudSchedule
  <2> QED
    BY <1>1, <1>4, <2>1, EndsStatus
<1> QED
  BY <1>3, <1>4 DEF ConnectedDead, Throws

(* connect() resolves on a channel that is there. *)
LEMMA EstablishedStatus ==
  ASSUME LifecycleInv, StatusInv, NEW a \in Slots, Established(a)
  PROVE  /\ StatusInv' /\ (~ObserverMayThrow => Moves)
         /\ attempt[a].stage # "connected" /\ attempt'[a].stage = "connected"
<1>0. attempt \in [Slots -> Attempts] /\ published \in Statuses
  BY DEF LifecycleInv, TypeOK
<1>1. /\ attempt[a].stage = "baselining" /\ ~attempt[a].torn
      /\ attempt'[a].stage = "connected"
      /\ UNCHANGED <<mounted, starting, current>>
  BY <1>0 DEF Established, Attempts
<1>2. current = a /\ current # NoRuntime /\ mounted /\ "mounted" \notin starting
  BY <1>1, UnderWay
<1>3. published \in {"connecting", "reconnecting"} /\ ~timer
  BY <1>1, <1>2 DEF StatusInv, InFlight, Awaiting
<1>4. "connected" \notin Awaiting
  BY DEF Awaiting
<1>5. CASE published' = Reported(published, "connected") /\ timer' = timer
  <2>1. published' = "connected"
    BY <1>3, <1>5, ReportCases
  <2> QED
    BY <1>1, <1>2, <1>3, <1>4, <1>5, <2>1 DEF StatusInv, RecoveryNeverGivesUp, InFlight, Moves
<1>6. CASE ObserverMayThrow /\ RecoverLoudly("connected", 0)
  <2>1. published' = "reconnecting" /\ Failing'
    BY <1>6, LoudSchedule DEF Failing
  <2> QED
    BY <1>1, <1>2, <1>4, <1>6, <2>1 DEF StatusInv, InFlight
<1> QED
  BY <1>5, <1>6 DEF Established, Throws

(* The channel of an attempt ends. *)
LEMMA ChannelEndsStatus ==
  ASSUME LifecycleInv, StatusInv, NEW a \in Slots, ChannelEnds(a)
  PROVE  StatusInv' /\ (~ObserverMayThrow => Moves)
<1>0. /\ attempt \in [Slots -> Attempts] /\ published \in Statuses /\ AttemptWell(attempt[a])
  BY DEF LifecycleInv, TypeOK
<1>1. attempt[a].stage # "none"
  BY <1>0 DEF ChannelEnds, AttemptWell, NoAttempt, Unused
<1>2. CASE attempt[a].stage = "connected"
  <2>1. ~attempt[a].torn
    BY <1>0, <1>2 DEF AttemptWell
  <2>2. current = a /\ current # NoRuntime
    BY <1>1, <2>1, UnderWay
  <2>3. published \in {"connected", "reconnecting"}
        /\ (~ObserverMayThrow => published = "connected")
    BY <1>2, <2>2 DEF StatusInv, Failing
  <2>4. ScheduleRecovery(published) /\ current' = LetGo(a) /\ UNCHANGED <<mounted, starting>>
    BY <1>2 DEF ChannelEnds
  <2>5. published' = "reconnecting" /\ (timer' \/ ObserverMayThrow)
    BY <1>0, <2>3, <2>4, QuietSchedule, ReportCases
  <2> QED
    BY <1>1, <2>1, <2>3, <2>4, <2>5, EndsStatus DEF Moves
<1>3. CASE attempt[a].stage # "connected"
  <2> DEFINE left == [attempt[a] EXCEPT !.transport = Dropped(@),
                                        !.window = @ /\ Detached(attempt[a].transport)]
  <2>1. \/ InFlight(a) /\ Becomes(a, left)
        \/ ~InFlight(a) /\ Becomes(a, Over(left))
    BY <1>3 DEF ChannelEnds
  <2>2. left.stage = attempt[a].stage /\ left.first = attempt[a].first
    BY <1>0 DEF Attempts
  <2>3. ~InFlight(a) => attempt[a].torn
    BY <1>0, <1>1, <1>3 DEF InFlight, AttemptWell, Attempts, Stages
  <2> HIDE DEF left
  <2> QED
    BY <2>1, <2>2, <2>3, BecomesStatus DEF InFlight, Moves
<1> QED
  BY <1>2, <1>3

(* The events of an attempt and the resolution of connect().               *)
LEMMA AttemptStatus ==
  ASSUME LifecycleInv, StatusInv, NEW a \in Slots, Platform(a) \/ Resolves(a)
  PROVE  StatusInv' /\ (~ObserverMayThrow => Moves)
<1>0. /\ attempt \in [Slots -> Attempts]
      /\ {"url", "dialing", "subscribing", "baselining"} = Awaiting
  BY DEF LifecycleInv, TypeOK, Awaiting
<1>1. CASE UrlRefused(a) \/ UrlUnusable(a) \/ UrlAnsweredLate(a) \/ DialFails(a)
             \/ SubscriptionFails(a)
             \/ (attempt[a].stage = "dialing"
                   /\ Rejected(a, GivenUp(attempt[a].transport), FALSE))
  <2> DEFINE t == attempt[a].transport
  <2>1. \/ InFlight(a) /\ Rejected(a, Ended(t), FALSE)
        \/ InFlight(a) /\ Rejected(a, GivenUp(Dialed(t)), FALSE)
        \/ InFlight(a) /\ Rejected(a, GivenUp(t), FALSE)
        \/ InFlight(a) /\ Rejected(a, t, TRUE)
    BY <1>0, <1>1
    DEF UrlRefused, UrlUnusable, UrlAnsweredLate, DialFails, SubscriptionFails, InFlight
  <2> HIDE DEF t
  <2> QED
    BY <2>1, RejectedStatus
<1>2. CASE UrlAnswered(a) \/ Handshake(a) \/ Subscribed(a)
             \/ (attempt[a].stage = "url"
                   /\ Becomes(a, [attempt[a] EXCEPT !.transport.expired = TRUE]))
  <2> DEFINE Goes(r) == /\ Becomes(a, r) /\ InFlight(a) /\ r.stage \in Awaiting
                        /\ r.first = attempt[a].first
  <2>1. Goes([attempt[a] EXCEPT !.stage = "dialing", !.transport = Dialed(@)])
        \/ Goes([attempt[a] EXCEPT !.stage = "subscribing", !.transport = Opened(@)])
        \/ Goes([attempt[a] EXCEPT !.stage = "baselining", !.subscribed = TRUE,
                                   !.window = TRUE])
        \/ Goes([attempt[a] EXCEPT !.transport.expired = TRUE])
    <3>1. attempt[a] \in Attempts
      BY <1>0
    <3> QED
      BY <1>0, <1>2, <3>1 DEF UrlAnswered, Handshake, Subscribed, InFlight, Attempts
  <2> QED
    BY <2>1, BecomesStatus DEF Moves
<1>3. CASE ConnectedTorn(a)
  BY <1>3, BecomesStatus DEF ConnectedTorn, Moves
<1>4. CASE ConnectedDead(a) \/ Established(a) \/ ChannelEnds(a)
  BY <1>4, DeadStatus, EstablishedStatus, ChannelEndsStatus
<1> QED
  BY <1>1, <1>2, <1>3, <1>4 DEF Platform, Resolves, DeadlineFires

(* One step of the provider, of the published state. *)
LEMMA StatusStep ==
  ASSUME LifecycleInv, StatusInv, [Next]_vars
  PROVE  StatusInv' /\ (~ObserverMayThrow => Moves)
<1>1. CASE Next
  BY <1>1, EffectStatus, AttemptStatus DEF Next
<1>2. CASE UNCHANGED vars
  BY <1>2 DEF vars, StatusInv, RecoveryNeverGivesUp, InFlight, Moves, Failing
<1> QED
  BY <1>1, <1>2

(* What is published agrees with what is going on, in every state.          *)
THEOREM Status == Spec => []StatusInv
<1>1. Init => StatusInv
  BY DEF Init, StatusInv, RecoveryNeverGivesUp
<1>2. LifecycleInv /\ StatusInv /\ [Next]_vars => StatusInv'
  BY StatusStep
<1> QED
  BY <1>1, <1>2, Lifecycle, PTL DEF Spec

-----------------------------------------------------------------------------
(***************************************************************************)
(* The theorems.                                                           *)
(***************************************************************************)

(* Every state of the lifecycle is well typed. *)
THEOREM TypeCorrect == Spec => []TypeOK
<1>1. LifecycleInv => TypeOK
  BY DEF LifecycleInv
<1> QED
  BY <1>1, Lifecycle, PTL

(* The cleanup of the effect leaves no timer, no runtime, no claim and no   *)
(* usable channel, in whichever await it overtook an attempt, and whatever  *)
(* the application's observer throws.                                       *)
THEOREM TeardownIsFinal == Spec => []NothingOutlivesTeardown
<1>1. LifecycleInv => NothingOutlivesTeardown
  <2> SUFFICES ASSUME LifecycleInv PROVE NothingOutlivesTeardown
    OBVIOUS
  <2>1. ~mounted => ~timer /\ current = NoRuntime /\ ~serving /\ claim # "ours"
    BY DEF LifecycleInv, EffectWell, CurrentWell
  <2>2. ASSUME NEW a \in Slots, attempt[a].torn
        PROVE  /\ ~Sendable(attempt[a].transport)
               /\ attempt[a].stage = "over" => ~attempt[a].window /\ ~attempt[a].subscribed
    BY <2>2 DEF LifecycleInv, AttemptWell, Detached, Sendable
  <2> QED
    BY <2>1, <2>2 DEF NothingOutlivesTeardown
<1> QED
  BY <1>1, Lifecycle, PTL

(* A mounted provider has one recovery, attempt or channel at a time, and   *)
(* the page one usable channel, however the effect is set up and cleaned up *)
(* and whatever the application's observer throws.                          *)
THEOREM AtMostOneChannel == Spec => []OneChannel
<1>1. LifecycleInv => OneChannel
  <2> SUFFICES ASSUME LifecycleInv PROVE OneChannel
    OBVIOUS
  <2> DEFINE live == {a \in Slots : attempt[a].stage # "none" /\ ~attempt[a].torn}
             usable == {a \in Slots : Sendable(attempt[a].transport)}
  <2>1. live \subseteq {current}
    BY DEF LifecycleInv, CurrentWell
  <2>2. timer /\ ~Failing => live = {}
    BY <2>1 DEF LifecycleInv, EffectWell, NoRuntime, Slots, Failing
  <2>3. usable \subseteq {current}
    <3>1. ASSUME NEW a \in usable PROVE a \in live
      BY <3>1 DEF LifecycleInv, AttemptWell, NoAttempt, Unused, Sendable, Detached
    <3> QED
      BY <2>1, <3>1
  <2>4. Cardinality(usable) <= 1
    <3>1. Cardinality({current}) = 1 /\ IsFiniteSet({current})
      BY FS_Singleton
    <3> HIDE DEF usable
    <3> QED
      BY <2>3, <3>1, FS_Subset, FS_CardinalityType
  <2> QED
    BY <2>1, <2>2, <2>4 DEF OneChannel
<1> QED
  BY <1>1, Lifecycle, PTL

(* What is shown as connected is connected, and the other way round but for *)
(* a provider that fails loudly, whatever the observer throws.              *)
THEOREM StatusTold == Spec => []StatusTellsTheChannel
<1>1. LifecycleInv /\ StatusInv => StatusTellsTheChannel
  BY DEF LifecycleInv, StatusInv, AttemptWell, TypeOK, Channel, StatusTellsTheChannel
<1> QED
  BY <1>1, Lifecycle, Status, PTL

(* What is shown as being recovered has its timer or its attempt. *)
THEOREM NeverGivesUp ==
  ASSUME ~ObserverMayThrow
  PROVE  Spec => []RecoveryNeverGivesUp
<1>1. StatusInv => RecoveryNeverGivesUp
  BY DEF StatusInv
<1> QED
  BY <1>1, Status, PTL

(* The published state is that of the abstract link: connected exactly while*)
(* there is a usable channel, and moving only as it does.                   *)
THEOREM LinkImplemented ==
  ASSUME ~ObserverMayThrow
  PROVE  Spec => ImplementsLink
<1>1. /\ Channel \in BOOLEAN /\ Channel' \in BOOLEAN
      /\ LifecycleInv /\ StatusInv => (Channel <=> published = "connected")
      /\ LifecycleInv' /\ StatusInv' => (Channel' <=> published' = "connected")
  BY DEF Channel, LifecycleInv, StatusInv, AttemptWell, TypeOK, Failing
<1>2. Init => Link!Init
  BY DEF Init, Link!Init, Channel
<1>3. ASSUME LifecycleInv, StatusInv, LifecycleInv', StatusInv', Moves
      PROVE  [Link!Next]_(Link!vars)
  <2>1. \/ UNCHANGED <<published, Channel>>
        \/ published' = "disconnected" /\ Channel' = FALSE
        \/ published = "disconnected" /\ published' = "connecting" /\ UNCHANGED Channel
        \/ /\ published \in {"connecting", "reconnecting"}
           /\ published' = "connected" /\ Channel' = TRUE
        \/ published = "connected" /\ published' = "reconnecting" /\ Channel' = FALSE
        \/ published = "connecting" /\ published' = "error" /\ UNCHANGED Channel
    BY <1>1, <1>3 DEF Moves
  <2> QED
    BY <2>1 DEF Link!Next, Link!vars, Link!Connect, Link!Establish, Link!Lose, Link!Refuse,
                Link!Leave
<1>4. LifecycleInv /\ StatusInv /\ [Next]_vars => Moves
  BY StatusStep
<1> QED
  BY <1>2, <1>3, <1>4, Lifecycle, Status, PTL DEF Spec, ImplementsLink, Link!Spec

(* Only an attempt that is established, or another effect, puts the backoff *)
(* schedule back, whatever the observer throws.                             *)
THEOREM BackoffHolds == Spec => BackoffNeverRestarts
<1> DEFINE Step ==
      index' < index =>
        \/ mounts' > mounts
        \/ \E a \in Slots : attempt[a].stage # "connected" /\ attempt'[a].stage = "connected"
<1>1. ASSUME LifecycleInv, StatusInv, [Next]_vars PROVE Step
  <2>0. index \in 0..LastInterval /\ mounts \in Nat
    BY <1>1, LifecycleAssumption DEF LifecycleInv, TypeOK
  <2>1. CASE index' = index \/ index' = Advanced(index) \/ index' = Advanced(Advanced(index))
    <3>1. \A i \in 0..LastInterval : Advanced(i) \in 0..LastInterval /\ Advanced(i) >= i
      BY LifecycleAssumption DEF Advanced
    <3>2. Advanced(Advanced(index)) >= index /\ Advanced(index) >= index
      BY <2>0, <3>1, LifecycleAssumption
    <3>3. Advanced(Advanced(index)) \in Int /\ Advanced(index) \in Int
      BY <2>0, <3>1, LifecycleAssumption
    <3> QED
      BY <2>0, <2>1, <3>2, <3>3, LifecycleAssumption
  <2>2. CASE Mount
    BY <2>0, <2>2 DEF Mount
  <2>3. CASE RegistryRefused \/ ClaimRefused \/ TornStartReturns \/ OtherProvider \/ Teardown
               \/ UNCHANGED vars \/ \E a \in Slots : Serve(a) \/ TimerFires(a)
    BY <2>1, <2>3
    DEF RegistryRefused, ClaimRefused, TornStartReturns, OtherProvider, Teardown, vars, Serve,
        TimerFires
  <2>4. ASSUME NEW a \in Slots, Platform(a) PROVE Step
    <3>1. ASSUME NEW t, NEW loud, Rejected(a, t, loud) PROVE Step
      BY <2>1, <3>1 DEF Rejected, ScheduleRecovery
    <3>2. ASSUME NEW r, Becomes(a, r) PROVE Step
      BY <2>1, <3>2 DEF Becomes
    <3>3. CASE ChannelEnds(a)
      BY <2>1, <3>2, <3>3 DEF ChannelEnds, ScheduleRecovery
    <3> QED
      BY <2>4, <3>1, <3>2, <3>3
      DEF Platform, UrlRefused, UrlUnusable, UrlAnswered, UrlAnsweredLate, DeadlineFires,
          DialFails, Handshake, SubscriptionFails, Subscribed
  <2>5. ASSUME NEW a \in Slots, ConnectedTorn(a) \/ ConnectedDead(a) PROVE Step
    <3>1. index' = index \/ index' = Advanced(index) \/ index' = Advanced(Advanced(index))
      BY <2>5 DEF ConnectedTorn, ConnectedDead, Becomes, ScheduleRecovery, RecoverLoudly
    <3> QED
      BY <2>1, <3>1
  <2>6. ASSUME NEW a \in Slots, Established(a) PROVE Step
    BY <1>1, <2>6, EstablishedStatus
  <2> HIDE DEF Step
  <2> QED
    BY <1>1, <2>2, <2>3, <2>4, <2>5, <2>6 DEF Next, Resolves
<1> QED
  BY <1>1, Lifecycle, Status, PTL DEF Spec, BackoffNeverRestarts

=============================================================================
