---------------------------- MODULE TurnManager ----------------------------
(***************************************************************************)
(* createTaskManager (win/src/agent/taskManager.ts): which chat's turn     *)
(* runs, what waits behind it, and what becomes of every message and of    *)
(* every report of a background task.                                      *)
(*                                                                         *)
(* The handlers call one another without an await in between (a turn that  *)
(* ends sends the next message, which starts a turn), so each of them is   *)
(* an operator from manager state to manager state, and an action is one   *)
(* call from outside or what a turn does between two awaits.  The state is *)
(* one record, `m'.  A model is always chosen and the host has             *)
(* oneTurnAtATime, as useAgentRuns sets it.                                *)
(***************************************************************************)
EXTENDS Integers, FiniteSets, SequencesExt

CONSTANTS
  Chat,       \* conversations
  MaxTurns,   \* turns that may exist at once, the unwinding ones included (a bound)
  MaxMsgs,    \* messages the user writes in a behaviour (a bound)
  MaxReports, \* background tasks that end in a behaviour (a bound)
  MaxOps,     \* reports and other things the user does, together (a bound)
  MaxWakes,   \* MAX_CONSECUTIVE_WAKES
  Retries,    \* QUIET_RETRIES
  Windows,    \* sizes the model's context window can still grow to
  EditWaits   \* whether the user may edit a chat whose message waits for its turn

ASSUME ConstantsAssumption ==
  /\ {MaxTurns, MaxMsgs, MaxReports, MaxOps, MaxWakes, Retries, Windows} \subseteq Nat
  /\ EditWaits \in BOOLEAN /\ 0 \notin Chat

Turn == 1..MaxTurns
Message == 1..MaxMsgs
Report == (MaxMsgs + 1)..(MaxMsgs + MaxReports)

VARIABLES
  m,     \* the manager
  given, \* messages written so far
  ended, \* background tasks ended so far
  left   \* of MaxOps

vars == <<m, given, ended, left>>

FreeTurn == [chat |-> 0, step |-> "free", image |-> FALSE, aborted |-> FALSE, after |-> 0,
             late |-> FALSE, waits |-> FALSE, tries |-> 0, barged |-> FALSE]

\* `after' is the turn whose `settling' promise this one waits for, `late' that
\* a turn after it waited three seconds in vain, `waits' that it waits for the
\* fold, `barged' that it started without asking whether another chat's turn runs.
TypeOK ==
  /\ m.turn \in [Turn -> [chat : Chat \cup {0}, image : BOOLEAN, aborted : BOOLEAN,
       step : {"free", "unwind", "fold", "engine", "ask", "backoff", "draw"},
       after : Turn \cup {0}, late : BOOLEAN, waits : BOOLEAN, tries : 0..Retries, barged : BOOLEAN]]
  /\ m.runs \in [Chat -> Turn \cup {0}] /\ m.settling \in [Chat -> Turn \cup {0}]
  /\ \A c \in Chat, t \in Turn : t \in {m.runs[c], m.settling[c]} => m.turn[t].chat = c
  /\ m.queue \in [Chat -> Seq(Message \cup Report)] /\ m.steers \in [Chat -> Seq(Message \cup Report)]
  /\ m.parked \in [Chat -> Message \cup Report \cup {0}]
  /\ m.line \in Seq(Chat) /\ IsInjective(m.line)
  /\ m.window \in 0..Windows
  /\ m.folds \in SUBSET Chat /\ m.stopped \in SUBSET Chat
  /\ m.wakes \in [Chat -> 0..MaxWakes + MaxReports]
  /\ m.inbox \in [Chat -> SUBSET Report] /\ m.replies \in [Chat -> SUBSET SUBSET Report]
  /\ m.told \in [Chat -> SUBSET (Message \cup Report)] /\ m.dropped \in SUBSET (Message \cup Report)

\* queueMap, steers, parked, waitingTurn, folds, stoppedByUser, wakes; `inbox' is
\* the main process's and `replies' what it has handed out and not delivered;
\* `told' is what a chat's transcript holds, `dropped' what is nowhere else, and
\* `window' what growContext has left.
Init ==
  /\ m = [turn |-> [t \in Turn |-> FreeTurn],
          runs |-> [c \in Chat |-> 0], settling |-> [c \in Chat |-> 0],
          queue |-> [c \in Chat |-> <<>>], steers |-> [c \in Chat |-> <<>>],
          parked |-> [c \in Chat |-> 0], line |-> <<>>, folds |-> {}, stopped |-> {},
          wakes |-> [c \in Chat |-> 0], inbox |-> [c \in Chat |-> {}],
          replies |-> [c \in Chat |-> {}], told |-> [c \in Chat |-> {}], dropped |-> {},
          window |-> Windows]
  /\ given = 0 /\ ended = 0 /\ left = MaxOps

Running(s) == {c \in Chat : s.runs[c] # 0}
Free(s) == {t \in Turn : s.turn[t].step = "free"}
\* one call starts one turn, or replaces it at once: sendNow in a chat that runs
\* and is in the line, behind a stop that serves the line
Room == Cardinality(Free(m)) > IF \E c \in Running(m) : Contains(m.line, c) THEN 1 ELSE 0
Held(s, c) == s.parked[c] # 0 \/ s.queue[c] # <<>>
\* session.isGenerating, which the user interface goes by
Generating(s, c) == s.runs[c] # 0 \/ s.parked[c] # 0

-----------------------------------------------------------------------------
(* Turns.                                                                  *)

Abort(s, c) ==
  [s EXCEPT !.turn = [t \in Turn |-> [@[t] EXCEPT !.aborted = s.turn[t].aborted \/ t = s.runs[c]]]]

AfterUnwinding(turn) == IF turn.waits THEN "fold" ELSE "engine"

\* `run' to its first await: the chat's turn is replaced, and this one waits
\* for the one that set `settling' last
Run(s, c, waitForFold) ==
  LET t == CHOOSE t \in Free(s) : TRUE
      turn == [FreeTurn EXCEPT !.chat = c, !.after = s.settling[c], !.tries = Retries,
                               !.waits = waitForFold /\ c \in s.folds,
                               !.barged = ~waitForFold]
  IN [Abort(s, c) EXCEPT !.runs[c] = t, !.settling[c] = t,
        !.turn[t] = [turn EXCEPT !.step = IF turn.after # 0 THEN "unwind" ELSE AfterUnwinding(turn)]]

Deliver(s, c, msgs) == Run([s EXCEPT !.told[c] = @ \cup msgs], c, TRUE)

WaitForTurn(s, c) == IF Contains(s.line, c) THEN s ELSE [s EXCEPT !.line = Append(@, c)]

Send(s, c, x) ==
  LET r == [s EXCEPT !.wakes[c] = 0, !.stopped = @ \ {c}]
  IN IF Running(s) = {} \/ s.runs[c] # 0 THEN Deliver(r, c, {x})
     ELSE WaitForTurn(IF Held(s, c) THEN [r EXCEPT !.queue[c] = Append(@, x)]
                                    ELSE [r EXCEPT !.parked[c] = x], c)

Enqueue(s, c, x) ==
  IF s.runs[c] = 0 THEN Send(s, c, x) ELSE [s EXCEPT !.queue[c] = Append(@, x)]

DispatchNextKeepsHead(s, c) ==
  IF s.parked[c] # 0 THEN Deliver([s EXCEPT !.parked[c] = 0], c, {s.parked[c]})
  ELSE Send(s, c, Head(s.queue[c]))

\* dispatchNext of a chat that has something; releaseParked included
DispatchNext(s, c) ==
  IF s.parked[c] # 0 THEN Deliver([s EXCEPT !.parked[c] = 0], c, {s.parked[c]})
  ELSE Send([s EXCEPT !.queue[c] = Tail(@)], c, Head(s.queue[c]))

\* nothing runs: the first of the line that still has something
DispatchWaiting(s) ==
  LET ready == {i \in DOMAIN s.line : Held(s, s.line[i])}
      first == CHOOSE i \in ready : \A j \in ready : i <= j
  IN IF ready = {} THEN [s EXCEPT !.line = <<>>]
     ELSE DispatchNext([s EXCEPT !.line = SubSeq(@, first + 1, Len(@))], s.line[first])

\* wakeForEnded up to its await: the main process hands the reports out
WakeForEnded(s, c) ==
  IF \/ s.runs[c] # 0 \/ Held(s, c) \/ c \in s.folds
     \/ c \in s.stopped \/ s.wakes[c] >= MaxWakes \/ s.inbox[c] = {}
  THEN s ELSE [s EXCEPT !.inbox[c] = {}, !.replies[c] = @ \cup {s.inbox[c]}]

\* compactChat finds the chat still marked as generating, or begins a fold,
\* which keeps a report waiting
Rest(s, c, failed) ==
  {[s EXCEPT !.folds = @ \cup {c}], IF failed THEN s ELSE WakeForEnded(s, c)}

\* what the end of c's own turn does with what c and the other chats have waiting
Onward(s, c, failed, cut) ==
  IF ~failed /\ cut /\ s.window > 0 THEN {Run([s EXCEPT !.window = @ - 1], c, FALSE)}
  ELSE IF s.line # <<>> THEN {IF ~failed /\ s.queue[c] # <<>> THEN WaitForTurn(s, c) ELSE s}
  ELSE IF ~failed /\ Held(s, c) THEN {DispatchNext(s, c)}
  ELSE Rest(s, c, failed)

ServeNobody(s, othersWaiting) == s
Serve(s, othersWaiting) ==
  IF Running(s) = {} /\ othersWaiting THEN DispatchWaiting(s) ELSE s

\* finishSettling, which lets go whoever waits for this turn
LetGo(turn, t) == IF turn.after = t THEN [turn EXCEPT !.after = 0] ELSE turn
Settle(s, t) ==
  [s EXCEPT !.turn = [u \in Turn |-> IF u = t THEN FreeTurn ELSE LetGo(@[u], t)],
            !.settling = [c \in Chat |-> IF @[c] = t THEN 0 ELSE @[c]]]

UnreadKeepsRun(s, c) == [s EXCEPT !.queue[c] = s.steers[c] \o @, !.steers[c] = <<>>]
Unread(s, c) == [s EXCEPT !.runs[c] = 0, !.queue[c] = s.steers[c] \o @, !.steers[c] = <<>>]

\* the finally of `run' and that of `image', which only serves the line
Finally(s, t, failed, cut) ==
  LET c == s.turn[t].chat
      r == Settle(s, t)
  IN IF s.runs[c] # t THEN {r}
     ELSE IF s.turn[t].image THEN {Serve([r EXCEPT !.runs[c] = 0], TRUE)}
     ELSE {Serve(o, s.line # <<>>) : o \in Onward(Unread(r, c), c, failed, cut)}

-----------------------------------------------------------------------------
(* A turn, from one await to the next.                                     *)

Becomes(t, step) == m' = [m EXCEPT !.turn[t].step = step] /\ UNCHANGED <<given, ended, left>>
Ends(t, failed, cut) == m' \in Finally(m, t, failed, cut) /\ UNCHANGED <<given, ended, left>>
At(t, step) == m.turn[t].step = step
Aborted(t) == m.turn[t].aborted

\* the race of `unwinding' with three seconds, which its own abort also ends
Unwound(t) ==
  /\ At(t, "unwind") /\ m.turn[t].after = 0 /\ ~Aborted(t)
  /\ Becomes(t, AfterUnwinding(m.turn[t]))

GivesUp(t) ==
  /\ At(t, "unwind") /\ m.turn[t].after # 0 /\ ~Aborted(t)
  /\ m' = [m EXCEPT !.turn = [u \in Turn |->
             IF u = t THEN [@[t] EXCEPT !.step = AfterUnwinding(m.turn[t])]
             ELSE [@[u] EXCEPT !.late = m.turn[u].late \/ m.turn[u].chat = m.turn[t].chat]]]
  /\ UNCHANGED <<given, ended, left>>

\* every await but the one for an answer ends with an abort, or is looked at after it
NoticesAbort(t) ==
  /\ m.turn[t].step \notin {"free", "ask"}
  /\ Aborted(t) /\ Ends(t, FALSE, FALSE)

Folded(t) ==
  /\ At(t, "fold") /\ m.turn[t].chat \notin m.folds /\ ~Aborted(t)
  /\ Becomes(t, "engine")

\* takeSteering, and the inbox the agent loop empties beside it
ReadsNotes(t) ==
  LET c == m.turn[t].chat
  IN /\ At(t, "engine") /\ ~Aborted(t) /\ Len(m.steers[c]) + Cardinality(m.inbox[c]) > 0
     /\ m' = [m EXCEPT !.told[c] = @ \cup ToSet(m.steers[c]) \cup m.inbox[c],
                       !.steers[c] = <<>>, !.inbox[c] = {}]
     /\ UNCHANGED <<given, ended, left>>

\* requestApproval, requestAnswer
Asks(t) == At(t, "engine") /\ ~Aborted(t) /\ Becomes(t, "ask")
UserAnswers(t) == At(t, "ask") /\ Becomes(t, "engine")

\* checkBudget refuses, runAgentTurn throws, throws something worth another try,
\* or comes back and is priced; a reply the context cut goes on in a new turn
EngineReturns(t) ==
  /\ At(t, "engine") /\ ~Aborted(t)
  /\ \/ Ends(t, TRUE, FALSE)
     \/ \E cut \in BOOLEAN : Ends(t, FALSE, cut)
     \/ /\ m.turn[t].tries > 0
        /\ m' = [m EXCEPT !.turn[t].step = "backoff", !.turn[t].tries = @ - 1]
        /\ UNCHANGED <<given, ended, left>>

TriesAgain(t) == At(t, "backoff") /\ ~Aborted(t) /\ Becomes(t, "engine")

Drawn(t) == At(t, "draw") /\ ~Aborted(t) /\ Ends(t, FALSE, FALSE)

TurnStep(t) ==
  \/ Unwound(t) \/ GivesUp(t) \/ NoticesAbort(t) \/ Folded(t) \/ ReadsNotes(t)
  \/ EngineReturns(t) \/ TriesAgain(t) \/ Drawn(t)

FoldEnds(c) ==
  /\ c \in m.folds
  /\ m' = [m EXCEPT !.folds = @ \ {c}] /\ UNCHANGED <<given, ended, left>>

-----------------------------------------------------------------------------
(* Background tasks.                                                       *)

TaskEnds(c) ==
  /\ ended < MaxReports /\ left > 0
  /\ ended' = ended + 1 /\ left' = left - 1
  /\ m' = WakeForEnded([m EXCEPT !.inbox[c] = @ \cup {MaxMsgs + ended'}], c)
  /\ UNCHANGED given

ArrivesAnyway(s, c, items) ==
  IF s.runs[c] # 0 THEN [s EXCEPT !.steers[c] = @ \o SetToSeq(items)]
  ELSE Deliver([s EXCEPT !.wakes[c] = @ + 1], c, items)

\* wakeForEnded after its await: a turn of its own, or a note where one runs
Arrives(s, c, items) ==
  IF Running(s) # {} THEN [s EXCEPT !.steers[c] = @ \o SetToSeq(items)]
  ELSE Deliver([s EXCEPT !.wakes[c] = @ + 1], c, items)

ReportsArrive(c) ==
  /\ Room
  /\ \E items \in m.replies[c] : m' = Arrives([m EXCEPT !.replies[c] = @ \ {items}], c, items)
  /\ UNCHANGED <<given, ended, left>>

-----------------------------------------------------------------------------
(* The user.  The interface offers a new message, a retry and the like only *)
(* in a chat that is not generating, and the queue and Stop only in one     *)
(* that is; an earlier message can always be edited.                        *)

CancelParked(s, c) ==
  IF s.parked[c] = 0 THEN s
  ELSE [s EXCEPT !.parked[c] = 0, !.told[c] = @ \cup {s.parked[c]}, !.line = RemoveFirst(@, c)]

StopTurnOnly(s, c) == IF s.runs[c] = 0 THEN s ELSE [Abort(s, c) EXCEPT !.runs[c] = 0]
StopTurn(s, c) ==
  IF s.runs[c] = 0 THEN s ELSE Serve([Abort(s, c) EXCEPT !.runs[c] = 0], TRUE)

\* refuseWaiting answers the questions of all turns of the chat
RefuseWaiting(s, c) ==
  [s EXCEPT !.turn = [t \in Turn |-> IF s.turn[t].chat = c /\ s.turn[t].step = "ask"
                                     THEN [@[t] EXCEPT !.step = "engine"] ELSE @[t]]]

StopChat(s, c) ==
  LET quiet == [RefuseWaiting(s, c) EXCEPT !.stopped = @ \cup {c}, !.steers[c] = <<>>,
                                           !.dropped = @ \cup ToSet(s.steers[c])]
  IN [StopTurn(CancelParked(quiet, c), c) EXCEPT !.folds = @ \ {c}]

SendNow(s, c, x) == Send(IF s.runs[c] # 0 THEN StopChat(s, c) ELSE s, c, x)

Steer(s, c, x) ==
  IF s.runs[c] = 0 \/ s.turn[s.runs[c]].image THEN Enqueue(s, c, x)
  ELSE [s EXCEPT !.steers[c] = Append(@, x)]

Writes(c) ==
  LET x == given + 1
  IN /\ given < MaxMsgs /\ Room
     /\ given' = x
     /\ m' \in IF Generating(m, c) THEN {Enqueue(m, c, x), Steer(m, c, x), SendNow(m, c, x)}
                                   ELSE {Send(m, c, x)}
     /\ UNCHANGED <<ended, left>>

Spend == Room /\ left > 0 /\ left' = left - 1 /\ UNCHANGED <<given, ended>>

\* regenerate, continueGeneration: a turn at once, whatever other chats do
Again(c) == Spend /\ ~Generating(m, c) /\ m.told[c] # {} /\ m' = Run(m, c, FALSE)

\* editMessage; a message that waits in the transcript goes into this turn or into
\* the version it replaces, and waits on
Edit(c) ==
  /\ Spend /\ m.told[c] # {} /\ (m.parked[c] # 0 => EditWaits)
  /\ m' = Run([m EXCEPT !.told[c] = @ \cup ({m.parked[c]} \ {0})], c, FALSE)

\* image, from a typed /image or from Retry on one
Image(c) ==
  /\ Spend /\ ~Generating(m, c)
  /\ LET t == CHOOSE t \in Free(m) : TRUE
     IN m' = [m EXCEPT !.runs[c] = t,
                       !.turn[t] = [FreeTurn EXCEPT !.chat = c, !.step = "draw", !.image = TRUE,
                                                    !.barged = TRUE]]

\* compact
Compact(c) == Spend /\ ~Generating(m, c) /\ c \notin m.folds /\ m' = [m EXCEPT !.folds = @ \cup {c}]

Stop(c) == Spend /\ Generating(m, c) /\ m' = StopChat(m, c)

\* removeQueued, moveQueued, sendQueuedNow
EditQueue(c) ==
  /\ Spend
  /\ \E i \in DOMAIN m.queue[c] :
       LET x == m.queue[c][i]
           r == [m EXCEPT !.queue[c] = RemoveAt(@, i)]
       IN \/ m' = [r EXCEPT !.dropped = @ \cup {x}]
          \/ m' = SendNow(r, c, x)
          \/ \E j \in DOMAIN m.queue[c] \ {i} : m' = [r EXCEPT !.queue[c] = InsertAt(@, j, x)]

ChatStep(c) ==
  \/ FoldEnds(c) \/ TaskEnds(c) \/ ReportsArrive(c) \/ Writes(c) \/ Again(c) \/ Edit(c)
  \/ Image(c) \/ Compact(c) \/ Stop(c) \/ EditQueue(c)

Next ==
  \/ \E t \in Turn : TurnStep(t) \/ Asks(t) \/ UserAnswers(t)
  \/ \E c \in Chat : ChatStep(c)

\* A turn goes on by itself and an IPC reply arrives; nobody has to answer a question.
Fairness ==
  /\ \A t \in Turn : WF_vars(TurnStep(t))
  /\ \A c \in Chat : WF_vars(FoldEnds(c)) /\ WF_vars(ReportsArrive(c))

Spec == Init /\ [][Next]_vars
FairSpec == Spec /\ Fairness

-----------------------------------------------------------------------------
(* Properties.                                                             *)

Places(x) ==
  Cardinality({c \in Chat : Contains(m.queue[c], x)}) + Cardinality({c \in Chat : Contains(m.steers[c], x)})
  + Cardinality({c \in Chat : m.parked[c] = x}) + Cardinality({c \in Chat : x \in m.inbox[c]})
  + Cardinality({c \in Chat : \E items \in m.replies[c] : x \in items})
  + Cardinality({c \in Chat : x \in m.told[c]}) + Cardinality(m.dropped \cap {x})

\* Whatever is written, and every report of a background task, is in exactly one
\* place through stops, replacements, retries and hand-overs: in a queue, in the
\* notes of a turn, waiting in line, on its way from the main process, or in a
\* transcript; only the user's own Stop or Remove takes one away.
OnePlace ==
  /\ \A x \in 1..given : Places(x) = 1
  /\ \A x \in (MaxMsgs + 1)..(MaxMsgs + ended) : Places(x) = 1
  /\ \A c \in Chat : IsInjective(m.queue[c] \o m.steers[c])

\* Nobody waits for a turn that is over.  The line is served by the last turn to end,
\* by Stop and by an image that ends; a chat whose message is parked has its place in
\* it; and what the user typed for a running turn waits nowhere but beside one, as a
\* turn that ends unread puts it at the front of the queue.
NothingStranded ==
  /\ Running(m) = {} => m.line = <<>>
  /\ \A c \in Chat : m.parked[c] # 0 => Contains(m.line, c)
  /\ \A c \in Chat : ToSet(m.steers[c]) \cap Message # {} => m.runs[c] # 0

\* Turns that came through `send', the line, a queue or a report never overlap; the
\* ones that barge in (Retry, Continue, an edit, an image, a reply that goes on in a
\* larger window) do not make a second one start.
OneAtATime == Cardinality({c \in Running(m) : ~m.turn[m.runs[c]].barged}) <= 1

\* Some turn is waiting for the user's answer
Asking == \E t \in Turn : At(t, "ask")

\* The line is served to its end, turn after turn, unless a turn waits for the user: a
\* behaviour has finitely many messages, so every chat in it has had its turn then.
LineMoves == m.line # <<>> ~> (m.line = <<>> \/ Asking)

OnEngine(t) == m.turn[t].step \in {"engine", "ask"}

\* "The turn this one replaced lets go of the engine first, or both talk to it at
\* once": two turns of a chat are on the engine only when the one that was replaced
\* was waited for until the time was out.
OneTurnOnEngine ==
  \A t, u \in Turn : t # u /\ OnEngine(t) /\ OnEngine(u) /\ m.turn[t].chat = m.turn[u].chat
                       => m.turn[t].late \/ m.turn[u].late
=============================================================================
