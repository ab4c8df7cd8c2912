------------------------- MODULE ConfirmationSurface -------------------------
(***************************************************************************)
(* The dialog behind `confirmation: 'required'` that the examples give an    *)
(* embedder to copy (useConfirmationSurface in customer-dashboard and         *)
(* composable-board): one prompt on screen, the others held, and a call that *)
(* ends while it waits taken back.                                          *)
(*                                                                         *)
(* All of it happens in updaters given to setPending, which React evaluates  *)
(* in order: at once if none waits and it pleases, else in the next render.   *)
(* An event of the person's is rendered before another task runs.            *)
(***************************************************************************)
EXTENDS SequencesExt

CONSTANTS
  Prompts, \* the calls that ask
  Nobody   \* no prompt

ASSUME NobodyAssumption == Nobody \notin Prompts

VARIABLES
  shownPrompt, \* the one on screen
  surface,     \* the state the updaters evaluated so far have left: top, and the ref's queue
  updates,     \* the updaters given and not evaluated
  answer,      \* per call: unasked, open, approved or refused
  over         \* the calls whose signal has aborted

promptVars == <<shownPrompt, surface, updates, answer, over>>

PromptInit ==
  /\ shownPrompt = Nobody
  /\ surface = [top |-> Nobody, held |-> <<>>]
  /\ updates = <<>>
  /\ answer = [c \in Prompts |-> "unasked"]
  /\ over = {}

-----------------------------------------------------------------------------
Update(kind, c, decision) == [kind |-> kind, call |-> c, decision |-> decision]

(* queue.current.shift() *)
Shifted(s) ==
  IF s.held = <<>> THEN [s EXCEPT !.top = Nobody] ELSE [top |-> Head(s.held), held |-> Tail(s.held)]

(* Faulty Asked: a second prompt takes the place of the first.               *)
AskedOver(s, c) == [top |-> c, held |-> IF s.top = Nobody THEN s.held ELSE Append(s.held, s.top)]

Asked(s, c) ==
  IF s.top = Nobody THEN [s EXCEPT !.top = c] ELSE [s EXCEPT !.held = Append(@, c)]

TakenBack(s, c) == IF s.top = c THEN Shifted(s) ELSE s

Applied(s, u) ==
  CASE u.kind = "ask" -> Asked(s, u.call)
    [] u.kind = "abort" -> TakenBack(s, u.call)
    [] OTHER -> Shifted(s)

(* Only the first answer to a call counts. *)
Decided(c, decision) ==
  IF c # Nobody /\ answer[c] = "open" THEN [answer EXCEPT ![c] = decision] ELSE answer

(* queue.current.filter() *)
Filtered(queue, dropped) ==
  LET kept[n \in 0..Len(queue)] ==
        IF n = 0 THEN <<>>
        ELSE IF queue[n] \in dropped THEN kept[n - 1] ELSE Append(kept[n - 1], queue[n])
  IN  kept[Len(queue)]

(* What is left when the ref's queue has been filtered. *)
QueueWithout(s, dropped) == [s EXCEPT !.held = Filtered(@, dropped)]

(* setPending(u), and then the ref's queue without the calls dropped.        *)
Give(u, dropped) ==
  \/ /\ updates = <<>>
     /\ surface' = QueueWithout(Applied(surface, u), dropped)
     /\ UNCHANGED updates
  \/ /\ updates' = Append(updates, u)
     /\ surface' = QueueWithout(surface, dropped)

-----------------------------------------------------------------------------
(* The resolver is asked. *)
Ask(c) ==
  /\ answer[c] = "unasked"
  /\ answer' = [answer EXCEPT ![c] = "open"]
  /\ Give(Update("ask", c, "none"), {})
  /\ UNCHANGED <<shownPrompt, over>>

(* The call's signal aborts: refused, taken off the screen, and only then out *)
(* of the queue.                                                           *)
Abort(c) ==
  /\ answer[c] # "unasked" /\ c \notin over
  /\ over' = over \cup {c}
  /\ answer' = Decided(c, "refused")
  /\ Give(Update("abort", c, "none"), {c})
  /\ UNCHANGED shownPrompt

(* What the updaters that wait leave behind, evaluated in order. *)
After[n \in 0..Len(updates)] ==
  IF n = 0 THEN surface ELSE Applied(After[n - 1], updates[n])

Evaluated == After[Len(updates)]

RenderPrompt ==
  /\ updates # <<>> \/ surface.top # shownPrompt
  /\ surface' = Evaluated
  /\ updates' = <<>>
  /\ shownPrompt' = Evaluated.top
  /\ UNCHANGED <<answer, over>>

(* The person answers: yes, no, Escape or the backdrop. The updater settles   *)
(* whatever prompt it finds.                                                *)
Decide(decision) ==
  /\ shownPrompt # Nobody
  /\ answer' = Decided(Evaluated.top, decision)
  /\ surface' = Shifted(Evaluated)
  /\ updates' = <<>>
  /\ shownPrompt' = Shifted(Evaluated).top
  /\ UNCHANGED over

PromptNext ==
  \/ \E c \in Prompts : Ask(c) \/ Abort(c)
  \/ RenderPrompt
  \/ \E decision \in {"approved", "refused"} : Decide(decision)

PromptSpec == PromptInit /\ [][PromptNext]_promptVars

-----------------------------------------------------------------------------
(* A call is approved only by a person looking at it, unless the call they    *)
(* looked at had ended and its prompt was not yet off the screen: the answer  *)
(* then goes to the next in line (ConfirmationDialog.tsx, "worse than an       *)
(* agent waiting").                                                          *)
ApprovedAsShown ==
  [][\A c \in Prompts :
       answer[c] = "open" /\ answer'[c] = "approved" => shownPrompt = c \/ shownPrompt \in over
    ]_promptVars

(* A call that waits for a person is on the screen or in line, in what the    *)
(* updaters given so far leave, and the screen is empty only when the line    *)
(* is: nobody waits for a prompt that will not come (ConfirmationDialog.tsx,  *)
(* "rather than leave the promise open").                                    *)
EveryOpenCallIsInLine ==
  /\ \A c \in Prompts :
       answer[c] = "open" => c \in {Evaluated.top} \cup ToSet(Evaluated.held)
  /\ Evaluated.top = Nobody => Evaluated.held = <<>>

=============================================================================
