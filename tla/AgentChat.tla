------------------------------ MODULE AgentChat ------------------------------
(***************************************************************************)
(* A conversation with the agent: the chat page (examples/agent-chat,       *)
(* App.tsx, agent.ts and transcript.ts) posts a message and folds the       *)
(* stream of events it gets back into a transcript; the agent               *)
(* (tools/mock-agent/src/chat.ts and the routes of runtime.ts) lists the    *)
(* tools of the one page connected to it, asks the model, calls what the    *)
(* model names and keeps the conversation of the session.                   *)
(*                                                                         *)
(* All chat pages speak in the one session App.tsx names. Prose is left out *)
(* but for the reply that ends a turn; a call is known by the turn, the     *)
(* round and the place it was made in, which stands for the model's id.     *)
(***************************************************************************)
EXTENDS Naturals, FiniteSets, SequencesExt

CONSTANTS
  Pages,      \* the chat pages
  MaxTurns,   \* bound on the messages posted
  MaxBroken,  \* bound on the messages whose response may break off: the first so many
  ResetsAgain, \* whether a page resets more than once: a bound when it is FALSE
  MaxRounds,  \* MAX_TURNS of chat.ts
  CallsPerReply, \* bound on the calls in one reply
  Names,      \* the names of the instrumented page's tools
  Serves,     \* the tool sets the instrumented page comes to have, one after the other
  ApiName     \* toApiName, as a function on Names

ASSUME ChatAssumption ==
  /\ MaxTurns \in Nat /\ MaxBroken \in Nat /\ MaxRounds \in Nat /\ CallsPerReply \in Nat
  /\ ResetsAgain \in BOOLEAN
  /\ Serves \in Seq(SUBSET Names) /\ Serves # <<>> /\ DOMAIN ApiName = Names

VARIABLES
  at,         \* how far in Serves the instrumented page has come
  advertised, \* the tool set its notifications and first listing have told of
  wire,       \* the frames it has sent, not yet received: <<"changed">> or <<"tools", turn, set>>
  linked,     \* its connection is open
  held,       \* tab.tools, <<>> while undefined
  stale,      \* tab.toolsStale
  conversation, \* the session's messages
  turn,       \* per message posted: the request that serves it
  events,     \* per message posted: emitted, and not yet read
  transcript, \* per chat page: its entries, and whether a status is among them
  busy,       \* per chat page: the message being sent, 0 when none
  clearing,   \* per chat page: its reset: not asked for, sent, carried out at the agent, settled
  wiped       \* history: chat pages that emptied a transcript while a turn was in flight

link == <<at, advertised, wire, linked>>
agent == <<held, stale, conversation>>
chatSide == <<transcript, busy, clearing, wiped>>
chatVars == <<link, agent, turn, events, chatSide>>

Turns == 1..MaxTurns

(* What the instrumented page serves now. *)
tools == Serves[at]

(* A turn that has nothing in hand but what was said and the tools shown.     *)
TurnAt(phase, round, messages, set) ==
  [phase |-> phase, round |-> round, got |-> {}, shown |-> set,
   messages |-> messages, calls |-> <<>>, results |-> <<>>]

(* No turn is under way. *)
NoTurn(phase) == TurnAt(phase, 0, <<>>, {})

NothingSaid == [entries |-> <<>>, status |-> FALSE]

ChatInit ==
  /\ at = 1
  /\ advertised = Serves[1]
  /\ wire = <<>>
  /\ linked = TRUE
  /\ held = <<>>
  /\ stale = TRUE
  /\ conversation = <<>>
  /\ turn = [s \in Turns |-> NoTurn("free")]
  /\ events = [s \in Turns |-> <<>>]
  /\ transcript = [p \in Pages |-> NothingSaid]
  /\ busy = [p \in Pages |-> 0]
  /\ clearing = [p \in Pages |-> "idle"]
  /\ wiped = {}

-----------------------------------------------------------------------------
(***************************************************************************)
(* The instrumented page: its tools change, and it says so once what it      *)
(* serves differs from what it has told.                                    *)
(***************************************************************************)
ToolsChange ==
  /\ linked /\ at < Len(Serves)
  /\ at' = at + 1
  /\ UNCHANGED <<advertised, wire, linked, agent, turn, events, chatSide>>

Notify ==
  /\ linked /\ advertised # tools
  /\ advertised' = tools
  /\ wire' = Append(wire, <<"changed">>)
  /\ UNCHANGED <<at, linked, agent, turn, events, chatSide>>

(* A tools/list request of turn s is answered. *)
PageLists(s) ==
  /\ linked /\ turn[s].phase = "listing"
  /\ turn' = [turn EXCEPT ![s].phase = "answering"]
  /\ wire' = Append(wire, <<"tools", s, tools>>)
  /\ UNCHANGED <<at, advertised, linked, agent, events, chatSide>>

-----------------------------------------------------------------------------
(***************************************************************************)
(* The agent's turn. Emitted(s, es): events go down turn s's response, to    *)
(* the page that still reads it if there is one.                           *)
(***************************************************************************)
HasReader(s) == \E p \in Pages : busy[p] = s

Emitted(s, es) == [events EXCEPT ![s] = IF HasReader(s) THEN @ \o es ELSE <<>>]

Message(role, of) == [role |-> role, of |-> of]

(* Faulty Results: a call the page does not have goes unanswered.           *)
ResultsOfKnown(t) == SelectSeq(t.results, LAMBDA r : r.known)

(* What goes back to the model after a round: one result for every call.    *)
Results(t) == t.results

(* The turn is over: its messages are the session's, whatever happened, and  *)
(* the response ends.                                                       *)
Finished(s, messages, es) ==
  /\ conversation' = messages
  /\ turn' = [turn EXCEPT ![s] = NoTurn("over")]
  /\ events' = Emitted(s, Append(es, [event |-> "done"]))

(* Two tools whose names the model cannot tell apart. *)
Clashes(set) == \E m, n \in set : m # n /\ ApiName[m] = ApiName[n]

(* The tools are translated for the model, which is then asked; two names    *)
(* that translate to one end the turn instead.                              *)
Translated(s, set, messages, round) ==
  IF Clashes(set)
  THEN Finished(s, messages, <<[event |-> "error"]>>)
  ELSE /\ turn' = [turn EXCEPT ![s] = TurnAt("asking", round, messages, set)]
       /\ events' = Emitted(s, <<[event |-> "status"]>>)
       /\ UNCHANGED conversation

(* Faulty TooMany: one round more. *)
TooManyLate(round) == round > MaxRounds + 1

TooMany(round) == round > MaxRounds

(* The top of the loop: one round too many ends the turn with an error; a     *)
(* listing that is still good is used as it is.                             *)
Round(s, messages, round) ==
  IF TooMany(round) THEN Finished(s, messages, <<[event |-> "error"]>>)
  ELSE IF held = <<>> \/ stale
  THEN /\ turn' = [turn EXCEPT ![s] = TurnAt("listing", round, messages, {})]
       /\ events' = Emitted(s, <<[event |-> "status"]>>)
       /\ UNCHANGED conversation
  ELSE Translated(s, held[1], messages, round)

(* POST /chat: its body is read, its tab looked for; then send() takes the    *)
(* conversation as it is now.                                               *)
Receive(s) ==
  /\ turn[s].phase = "posted" /\ linked
  /\ Round(s, Append(conversation, Message("user", s)), 1)
  /\ UNCHANGED <<link, held, stale, chatSide>>

(* A message that starts no turn. *)
Unserved(s) ==
  /\ turn[s].phase = "posted"
  /\ turn' = [turn EXCEPT ![s].phase = "refused"]
  /\ UNCHANGED <<link, agent, events, chatSide>>

(* No page is connected to act on. *)
Refuse(s) == ~linked /\ Unserved(s)

(* A frame is received. A notification marks what is held as no longer good; *)
(* a listing settles the request, whose continuation runs some turns of the *)
(* microtask queue later, other frames of the same chunk before it. The      *)
(* answer to a request already rejected finds no handler, and is dropped.    *)
FrameArrives ==
  /\ wire # <<>>
  /\ wire' = Tail(wire)
  /\ LET frame == Head(wire) IN
     \/ /\ frame = <<"changed">>
        /\ stale' = TRUE
        /\ UNCHANGED turn
     \/ /\ frame # <<"changed">> /\ turn[frame[2]].phase = "answering"
        /\ turn' = [turn EXCEPT ![frame[2]].phase = "listed", ![frame[2]].got = frame[3]]
        /\ UNCHANGED stale
     \/ /\ frame # <<"changed">> /\ turn[frame[2]].phase # "answering"
        /\ UNCHANGED <<turn, stale>>
  /\ UNCHANGED <<at, advertised, linked, held, conversation, events, chatSide>>

(* The continuation of listTools(). *)
Listed(s) ==
  /\ turn[s].phase = "listed"
  /\ held' = <<turn[s].got>>
  /\ stale' = FALSE
  /\ Translated(s, turn[s].got, turn[s].messages, turn[s].round)
  /\ UNCHANGED <<link, chatSide>>

(* Faulty ListingFails: nothing rejects it. *)
ListingNeverFails(s) == FALSE /\ UNCHANGED chatVars

(* The request is rejected: its deadline passes, or the connection is gone.  *)
ListingFails(s) ==
  /\ turn[s].phase \in {"listing", "answering"}
  /\ Finished(s, turn[s].messages, <<[event |-> "error"]>>)
  /\ UNCHANGED <<link, held, stale, chatSide>>

(* The model replies: with calls, or with an answer that ends the turn.      *)
ModelReplies(s) ==
  /\ turn[s].phase = "asking"
  /\ \E calls \in UNION {[1..n -> {ApiName[m] : m \in Names}] : n \in 1..CallsPerReply} :
       /\ turn' = [turn EXCEPT ![s].phase = "calling", ![s].calls = calls, ![s].results = <<>>,
                               ![s].messages = Append(@, Message("assistant", calls))]
       /\ UNCHANGED <<conversation, events>>
  /\ UNCHANGED <<link, held, stale, chatSide>>

ModelAnswers(s) ==
  /\ turn[s].phase = "asking"
  /\ Finished(s, Append(turn[s].messages, Message("assistant", <<>>)), <<[event |-> "message"]>>)
  /\ UNCHANGED <<link, held, stale, chatSide>>

ModelFails(s) ==
  /\ turn[s].phase = "asking"
  /\ Finished(s, turn[s].messages, <<[event |-> "error"]>>)
  /\ UNCHANGED <<link, held, stale, chatSide>>

(* The call in hand, and the tool it names among those shown this round.     *)
InHand(s) == Len(turn[s].results) + 1
Meant(s) == {m \in turn[s].shown : ApiName[m] = turn[s].calls[InHand(s)]}
CallId(s) == <<s, turn[s].round, InHand(s)>>

Answered(s, known) ==
  turn' = [turn EXCEPT ![s].results = Append(@, [call |-> InHand(s), known |-> known]),
                       ![s].phase = "calling"]

(* A name that was not on the list is answered without the page.            *)
CallUnknown(s) ==
  /\ turn[s].phase = "calling" /\ InHand(s) <= Len(turn[s].calls) /\ Meant(s) = {}
  /\ Answered(s, FALSE)
  /\ UNCHANGED <<link, agent, events, chatSide>>

CallTool(s) ==
  /\ turn[s].phase = "calling" /\ InHand(s) <= Len(turn[s].calls) /\ Meant(s) # {}
  /\ turn' = [turn EXCEPT ![s].phase = "waiting"]
  /\ events' = Emitted(s, <<[event |-> "tool_call", id |-> CallId(s)]>>)
  /\ UNCHANGED <<link, agent, chatSide>>

(* The page answers, or the call is rejected, by its deadline or with the     *)
(* connection: a result either way, whose text the transcript leaves alone.  *)
CallSettles(s) ==
  /\ turn[s].phase = "waiting"
  /\ Answered(s, TRUE)
  /\ events' = Emitted(s, <<[event |-> "tool_result", id |-> CallId(s)]>>)
  /\ UNCHANGED <<link, agent, chatSide>>

(* Every call has its result: they go back to the model, and a round begins. *)
NextRound(s) ==
  /\ turn[s].phase = "calling" /\ InHand(s) > Len(turn[s].calls)
  /\ Round(s, Append(turn[s].messages, Message("results", Results(turn[s]))), turn[s].round + 1)
  /\ UNCHANGED <<link, held, stale, chatSide>>

(* The page's socket closes, and the tab with it. *)
Unlink ==
  /\ linked
  /\ linked' = FALSE
  /\ wire' = <<>>
  /\ turn' = [s \in Turns |-> IF turn[s].phase = "answering"
                              THEN [turn[s] EXCEPT !.phase = "listing"] ELSE turn[s]]
  /\ UNCHANGED <<at, advertised, agent, events, chatSide>>

-----------------------------------------------------------------------------
(***************************************************************************)
(* The chat page.                                                          *)
(***************************************************************************)
Entry(kind) == [kind |-> kind]
WithEntry(said, entry) == [said EXCEPT !.entries = Append(@, entry)]

(* Only the newest status is kept, and whatever follows it in the turn but a   *)
(* message or a result takes it away: one at most, wherever it stands.       *)
WithoutStatus(said) == [said EXCEPT !.status = FALSE]

(* The entry of the call a result belongs to, 0 when there is none.          *)
EntryOf(entries, id) ==
  SelectInSeq(entries, LAMBDA e : e.kind = "call" /\ e.id = id)

(* The end of a turn leaves no progress to show. *)
AtDone(said) == WithoutStatus(said)

(* fold(): one event into the transcript.                                   *)
Fold(said, e) ==
  CASE e.event = "message"   -> WithEntry(said, Entry("agent"))
    [] e.event = "status"    -> [said EXCEPT !.status = TRUE]
    [] e.event = "tool_call" ->
         WithEntry(WithoutStatus(said), [kind |-> "call", id |-> e.id, result |-> "pending"])
    [] e.event = "tool_result" ->
         IF EntryOf(said.entries, e.id) = 0 THEN WithEntry(said, Entry("anomaly"))
         ELSE [said EXCEPT !.entries[EntryOf(said.entries, e.id)].result = "arrived"]
    [] e.event = "error"     -> WithEntry(WithoutStatus(said), Entry("failure"))
    [] e.event = "done"      -> AtDone(said)

(* The request never reaches the agent: fetch() rejects. *)
Unsent(s) == Unserved(s)

(* send(): not while a turn runs. *)
Post(p, s) ==
  /\ busy[p] = 0 /\ turn[s].phase = "free" /\ \A r \in 1..(s - 1) : turn[r].phase # "free"
  /\ turn' = [turn EXCEPT ![s].phase = "posted"]
  /\ transcript' = [transcript EXCEPT ![p] = WithEntry(@, Entry("person"))]
  /\ busy' = [busy EXCEPT ![p] = s]
  /\ UNCHANGED <<link, agent, events, clearing, wiped>>

ReadEvent(p) ==
  /\ busy[p] # 0 /\ events[busy[p]] # <<>>
  /\ transcript' = [transcript EXCEPT ![p] = Fold(@, Head(events[busy[p]]))]
  /\ events' = [events EXCEPT ![busy[p]] = Tail(@)]
  /\ UNCHANGED <<link, agent, turn, busy, clearing, wiped>>

(* The stream has been read to its end. *)
StreamEnds(p) ==
  /\ busy[p] # 0 /\ turn[busy[p]].phase = "over" /\ events[busy[p]] = <<>>
  /\ busy' = [busy EXCEPT ![p] = 0]
  /\ UNCHANGED <<link, agent, turn, events, transcript, clearing, wiped>>

(* Faulty Caught: the page gives the composer back and says nothing.         *)
CaughtQuietly(p) ==
  /\ busy' = [busy EXCEPT ![p] = 0]
  /\ events' = [events EXCEPT ![busy[p]] = <<>>]
  /\ UNCHANGED <<link, agent, turn, transcript, clearing, wiped>>

(* The catch of send(): the failure is told after whatever is already there,  *)
(* a status and a call still running with it, and the composer given back.   *)
Caught(p) ==
  /\ transcript' = [transcript EXCEPT ![p] = WithEntry(@, Entry("failure"))]
  /\ busy' = [busy EXCEPT ![p] = 0]
  /\ events' = [events EXCEPT ![busy[p]] = <<>>]
  /\ UNCHANGED <<link, agent, turn, clearing, wiped>>

(* The agent refused the message, or never had it. *)
ReadRefusal(p) ==
  /\ busy[p] # 0 /\ turn[busy[p]].phase = "refused"
  /\ Caught(p)

(* The response breaks off, before its first event or after any: the agent    *)
(* does not notice, and goes on with the turn for nobody.                    *)
StreamBreaks(p) ==
  /\ busy[p] \in 1..MaxBroken /\ turn[busy[p]].phase # "refused"
  /\ Caught(p)

(* Of a page, one reset is under way at a time, which is a bound: a second    *)
(* only empties what the first does.                                        *)
Settled == IF ResetsAgain THEN "idle" ELSE "settled"

(* clear(): the button is disabled while a turn runs, and nothing disables   *)
(* the composer while the reset is under way.                               *)
Clear(p) ==
  /\ busy[p] = 0 /\ clearing[p] = "idle"
  /\ clearing' = [clearing EXCEPT ![p] = "sent"]
  /\ UNCHANGED <<link, agent, turn, events, transcript, busy, wiped>>

(* POST /chat/reset at the agent. *)
Reset(p) ==
  /\ clearing[p] = "sent"
  /\ conversation' = <<>>
  /\ clearing' = [clearing EXCEPT ![p] = "forgotten"]
  /\ UNCHANGED <<link, held, stale, turn, events, transcript, busy, wiped>>

(* resetChat() rejects, its request lost or its answer: nothing is emptied.   *)
ResetFails(p) ==
  /\ clearing[p] \in {"sent", "forgotten"}
  /\ clearing' = [clearing EXCEPT ![p] = Settled]
  /\ UNCHANGED <<link, agent, turn, events, transcript, busy, wiped>>

Cleared(p) ==
  /\ clearing[p] = "forgotten"
  /\ transcript' = [transcript EXCEPT ![p] = NothingSaid]
  /\ wiped' = IF busy[p] = 0 THEN wiped \ {p} ELSE wiped \cup {p}
  /\ clearing' = [clearing EXCEPT ![p] = Settled]
  /\ UNCHANGED <<link, agent, turn, events, busy>>

-----------------------------------------------------------------------------
Agent(s) ==
  \/ Receive(s) \/ Refuse(s) \/ Listed(s) \/ ListingFails(s)
  \/ ModelReplies(s) \/ ModelAnswers(s) \/ ModelFails(s)
  \/ CallUnknown(s) \/ CallTool(s) \/ CallSettles(s) \/ NextRound(s)

ChatNext ==
  \/ ToolsChange \/ Notify \/ FrameArrives \/ Unlink
  \/ \E s \in Turns : PageLists(s) \/ Agent(s)
  \/ \E s \in Turns : Unsent(s)
  \/ \E p \in Pages, s \in Turns : Post(p, s)
  \/ \E p \in Pages : ReadEvent(p) \/ StreamEnds(p) \/ ReadRefusal(p) \/ StreamBreaks(p)
  \/ \E p \in Pages : Clear(p) \/ Reset(p) \/ ResetFails(p) \/ Cleared(p)

ChatSpec == ChatInit /\ [][ChatNext]_chatVars

(* Every await of a turn settles: a request to the page by the client's       *)
(* deadline, one to the model by its reply or its failure, and what has been *)
(* emitted is read. The page owes no answer and the person no click.        *)
ChatFairness ==
  /\ WF_chatVars(FrameArrives)
  /\ \A s \in Turns : WF_chatVars(Agent(s))
  /\ \A p \in Pages : WF_chatVars(ReadEvent(p) \/ StreamEnds(p) \/ ReadRefusal(p))

ChatFairSpec == ChatSpec /\ ChatFairness

-----------------------------------------------------------------------------
ChatTypeOK ==
  /\ at \in DOMAIN Serves /\ advertised \in Range(Serves)
  /\ linked \in BOOLEAN /\ stale \in BOOLEAN
  /\ Len(held) <= 1 /\ \A i \in DOMAIN held : held[i] \in Range(Serves)
  /\ \A s \in Turns :
       /\ turn[s].phase \in {"free", "posted", "refused", "listing", "answering", "listed",
                             "asking", "calling", "waiting", "over"}
       /\ turn[s].round \in 0..MaxRounds /\ Len(turn[s].calls) <= CallsPerReply
  /\ busy \in [Pages -> 0..MaxTurns]
  /\ clearing \in [Pages -> {"idle", "sent", "forgotten", "settled"}]
  /\ wiped \subseteq Pages

(* What the model is sent, and what the session keeps, answers every call by  *)
(* a result of its own in the next message: whatever the page refused, lost  *)
(* or never had, and however the turn before it ended (chat.ts, send).       *)
ResultsFollow(messages) ==
  \A i \in DOMAIN messages :
    messages[i].role = "assistant" /\ messages[i].of # <<>> =>
      /\ i < Len(messages) /\ messages[i + 1].role = "results"
      /\ [k \in DOMAIN messages[i + 1].of |-> messages[i + 1].of[k].call]
           = [k \in DOMAIN messages[i].of |-> k]

EveryCallAnswered ==
  /\ ResultsFollow(conversation)
  /\ \A s \in Turns : turn[s].phase = "asking" => ResultsFollow(turn[s].messages)

(* A call that shows no result is the one being waited for, or the page was    *)
(* told of the failure that cut its turn short right after it.              *)
AccountedFor(said, i, sending) ==
  \/ sending /\ i = Len(said.entries)
  \/ i < Len(said.entries) /\ said.entries[i + 1].kind = "failure"

(* Between turns nothing is shown as in progress, and no call without its      *)
(* result, unless the failure that cut the turn short stands right below it;  *)
(* and no result is shown whose call the page never saw, unless it emptied    *)
(* the transcript under a turn in flight (transcript.ts, fold; App.tsx, send   *)
(* and clear).                                                              *)
TranscriptTellsTheTurn ==
  \A p \in Pages :
    LET said == transcript[p] IN
    /\ busy[p] = 0 /\ said.status =>
         said.entries # <<>> /\ Last(said.entries).kind = "failure"
    /\ \A i \in DOMAIN said.entries :
         LET e == said.entries[i] IN
         /\ e.kind = "call" /\ e.result = "pending" => AccountedFor(said, i, busy[p] # 0)
         /\ p \notin wiped => e.kind # "anomaly"

(* A message posted is a turn that ends, in an answer or in an error, and     *)
(* gives the composer back (chat.ts, send; App.tsx, send).                   *)
EveryTurnEnds == \A p \in Pages : busy[p] # 0 ~> busy[p] = 0

=============================================================================
