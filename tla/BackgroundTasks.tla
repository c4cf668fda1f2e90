-------------------------- MODULE BackgroundTasks --------------------------
(***************************************************************************)
(* Shell commands: win/electron/commands.cjs, which runs one for a tool    *)
(* call and can be told to stop it or to hand it over, and                 *)
(* win/electron/tasks.cjs, which keeps the commands that run in the        *)
(* background, reports their ends to the model and lets it wait for them.  *)
(* Both are single-threaded: an action is one call, timer or event.        *)
(***************************************************************************)
EXTENDS Integers, Sequences, FiniteSets, SequencesExt

CONSTANTS
  Chat,       \* conversations
  RunId,      \* the ids the renderer gives foreground commands
  Run,        \* the commands of a behaviour, numbered (a bound)
  Waiter,     \* the waits of a behaviour (a bound)
  MaxRunning  \* MAX_RUNNING_PER_CHAT

NoRun == 0

VARIABLES
  runs,    \* runs[r]: the command, where its `run' is and what became of its process
  live,    \* live[id]: the foreground command that answers to the id
  tasks,   \* tasks[r]: the command as a background task
  inboxes, \* inboxes[c]: ends of tasks that the model has not been told of
  read,    \* read[r]: how often the model was told of the end of r (an observer)
  waiters, \* waiters[w]: a task_wait and the task it is for
  down     \* shutdown() has run

vars == <<runs, live, tasks, inboxes, read, waiters, down>>

NotRun == [id |-> "none", chat |-> "none", at |-> "idle", limit |-> "set", child |-> "none"]
NoTask == [status |-> "none", mode |-> "none", stopRequested |-> FALSE]
Unused == [at |-> "idle", for |-> NoRun]

\* "told" is a process that a kill in the background was sent after, "killed" one
\* that Draggy saw killed, "gone" one whose end node has not reported yet
TypeOK ==
  /\ runs \in [Run -> [id : RunId \cup {"none"}, chat : Chat \cup {"none"},
                       at : {"idle", "running", "done", "detached", "background"},
                       limit : {"set", "over"},
                       child : {"none", "alive", "told", "killed", "gone", "closed"}]]
  /\ live \in [RunId -> Run \cup {NoRun}]
  /\ \A id \in RunId : live[id] # NoRun => runs[live[id]].id = id /\ runs[live[id]].at = "running"
  /\ tasks \in [Run -> [status : {"none", "running", "stopped", "ended", "forgotten"},
                        mode : {"none", "pty", "pipe", "adopted"}, stopRequested : BOOLEAN]]
  /\ inboxes \in [Chat -> Seq(Run)]
  /\ read \in [Run -> Nat]
  /\ waiters \in [Waiter -> [at : {"idle", "waiting", "back"}, for : Run \cup {NoRun}]]
  /\ down \in BOOLEAN

Init ==
  /\ runs = [r \in Run |-> NotRun] /\ live = [id \in RunId |-> NoRun]
  /\ tasks = [r \in Run |-> NoTask] /\ inboxes = [c \in Chat |-> <<>>]
  /\ read = [r \in Run |-> 0] /\ waiters = [w \in Waiter |-> Unused] /\ down = FALSE

running(c) == {r \in Run : tasks[r].status = "running" /\ runs[r].chat = c}
HasRoom(c) == Cardinality(running(c)) < MaxRunning
Fresh(r) == ~down /\ runs[r].at = "idle" /\ \A q \in Run : q < r => runs[q].at # "idle"

\* killTree, which looks whether the process has ended
Killed(child, how) == IF child \in {"alive", "told"} THEN how ELSE child
Kill(r) == runs' = [runs EXCEPT ![r].child = Killed(@, "told")]

-----------------------------------------------------------------------------
(* Foreground commands.                                                    *)

\* an id is given back by the command that holds it
Release(r) == [id \in RunId |-> IF live[id] = r THEN NoRun ELSE live[id]]

\* run: the process is spawned, or the sandbox refuses; a program that cannot be
\* started is reported like one that has ended
RunForeground(r, id, c) ==
  /\ Fresh(r) /\ live[id] = NoRun
  /\ \/ \E child \in {"alive", "gone"} :
          /\ runs' = [runs EXCEPT ![r] = [NotRun EXCEPT !.id = id, !.chat = c, !.at = "running",
                                                        !.child = child]]
          /\ live' = [live EXCEPT ![id] = r]
     \/ runs' = [runs EXCEPT ![r] = [NotRun EXCEPT !.id = id, !.chat = c, !.at = "done"]] /\ UNCHANGED live
  /\ UNCHANGED <<tasks, inboxes, read, waiters, down>>

CanDetach(r) == runs[r].at = "running" /\ HasRoom(runs[r].chat)

\* entry.detach: the running process becomes a task, and the tool call is answered
HandOver(r) ==
  /\ tasks' = [tasks EXCEPT ![r] = [NoTask EXCEPT !.status = "running", !.mode = "adopted"]]
  /\ runs' = [runs EXCEPT ![r].at = "detached"]
  /\ live' = Release(r)

\* the user sends it away
Detach(id) ==
  /\ live[id] # NoRun /\ CanDetach(live[id]) /\ HandOver(live[id])
  /\ UNCHANGED <<inboxes, read, waiters, down>>

\* its time is over: it goes on in the background, or is killed when the chat has
\* as many tasks as it may have
TimeLimit(r) ==
  /\ runs[r].at = "running" /\ runs[r].limit = "set"
  /\ IF CanDetach(r) THEN HandOver(r)
     ELSE /\ runs' = [runs EXCEPT ![r].limit = "over", ![r].child = Killed(@, "told")]
          /\ UNCHANGED <<live, tasks>>
  /\ UNCHANGED <<inboxes, read, waiters, down>>

\* the turn was stopped: the id is free at once, the tool call waits for the end
Cancel(id) ==
  /\ ~down /\ live[id] # NoRun
  /\ Kill(live[id]) /\ live' = [live EXCEPT ![id] = NoRun]
  /\ UNCHANGED <<tasks, inboxes, read, waiters, down>>

-----------------------------------------------------------------------------
(* Background tasks.                                                       *)

\* start, on a pseudo-terminal, or on pipes for a sandboxed one; one that does not
\* come up has ended, and is reported too
StartBackground(r, c) ==
  /\ Fresh(r) /\ HasRoom(c)
  /\ \E mode \in {"pty", "pipe"}, child \in {"alive", "gone", "none"} :
       /\ runs' = [runs EXCEPT ![r] = [NotRun EXCEPT !.chat = c, !.at = "background", !.child = child]]
       /\ tasks' = [tasks EXCEPT ![r] = [NoTask EXCEPT !.status = IF child = "none" THEN "ended" ELSE "running",
                                                       !.mode = mode]]
       /\ inboxes' = IF child = "none" THEN [inboxes EXCEPT ![c] = Append(@, r)] ELSE inboxes
  /\ UNCHANGED <<live, read, waiters, down>>

\* finish: an end that was asked for is not reported, and whoever waits is told
EndsTask(r) ==
  /\ tasks' = [tasks EXCEPT ![r].status = IF tasks[r].stopRequested THEN "stopped" ELSE "ended"]
  /\ inboxes' = IF tasks[r].stopRequested THEN inboxes ELSE [inboxes EXCEPT ![runs[r].chat] = Append(@, r)]
SettleWaiters(r) ==
  waiters' = [w \in Waiter |-> IF waiters[w].for = r THEN [waiters[w] EXCEPT !.at = "back"] ELSE waiters[w]]

Finish(r) == EndsTask(r) /\ SettleWaiters(r)

stop(r) ==
  /\ ~down /\ tasks[r].status = "running"
  /\ tasks' = [tasks EXCEPT ![r].stopRequested = TRUE] /\ Kill(r)
  /\ UNCHANGED <<live, inboxes, read, waiters, down>>

wait(w, r) ==
  /\ ~down /\ waiters[w].at = "idle" /\ tasks[r].status = "running"
  /\ waiters' = [waiters EXCEPT ![w] = [at |-> "waiting", for |-> r]]
  /\ UNCHANGED <<runs, live, tasks, inboxes, read, down>>

\* the seconds are over, the pattern is there, or the turn was stopped
WaitOver(w) ==
  /\ waiters[w].at = "waiting" /\ waiters' = [waiters EXCEPT ![w].at = "back"]
  /\ UNCHANGED <<runs, live, tasks, inboxes, read, down>>

takeInbox(c) ==
  /\ ~down /\ inboxes[c] # <<>>
  /\ read' = [r \in Run |-> IF r \in ToSet(inboxes[c]) THEN read[r] + 1 ELSE read[r]]
  /\ inboxes' = [inboxes EXCEPT ![c] = <<>>]
  /\ UNCHANGED <<runs, live, tasks, waiters, down>>

\* the chat was deleted: what has ended is forgotten, what runs goes on
forget(c) ==
  /\ ~down /\ \E r \in Run : runs[r].chat = c /\ tasks[r].status \in {"stopped", "ended"}
  /\ tasks' = [r \in Run |-> IF runs[r].chat = c /\ tasks[r].status \in {"stopped", "ended"}
                             THEN [tasks[r] EXCEPT !.status = "forgotten"] ELSE tasks[r]]
  /\ inboxes' = [inboxes EXCEPT ![c] = <<>>]
  /\ UNCHANGED <<runs, live, read, waiters, down>>

-----------------------------------------------------------------------------
(* Processes, and the end of Draggy.                                       *)

\* a process ends by itself, or of being killed
Ends(r) ==
  /\ runs[r].child \in {"alive", "told", "killed"}
  /\ runs' = [runs EXCEPT ![r].child = "gone"]
  /\ UNCHANGED <<live, tasks, inboxes, read, waiters, down>>

\* onExit: the end of a task, or the answer to the tool call
Closes(r) ==
  /\ runs[r].child = "gone"
  /\ runs' = [runs EXCEPT ![r].child = "closed", ![r].at = IF @ = "running" THEN "done" ELSE @]
  /\ IF tasks[r].status = "running" THEN Finish(r) ELSE UNCHANGED <<tasks, inboxes, waiters>>
  /\ live' = IF runs[r].at = "running" THEN Release(r) ELSE live
  /\ UNCHANGED <<read, down>>

\* shutdown: commands.stopAll and tasks.stopAll.  A foreground command's tree is
\* killed before the call returns, and so is a pseudo-terminal; any other task has
\* the kill of every day, in the background
Shutdown ==
  /\ ~down /\ down' = TRUE
  /\ live' = [id \in RunId |-> NoRun]
  /\ tasks' = [r \in Run |-> [tasks[r] EXCEPT !.stopRequested = @ \/ tasks[r].status = "running"]]
  /\ runs' = [r \in Run |-> [runs[r] EXCEPT !.child =
       IF (\E id \in RunId : live[id] = r) \/ (tasks[r].status = "running" /\ tasks[r].mode = "pty")
       THEN Killed(@, "killed")
       ELSE IF tasks[r].status = "running" THEN Killed(@, "told") ELSE @]]
  /\ UNCHANGED <<inboxes, read, waiters>>

-----------------------------------------------------------------------------
Works ==
  \/ \E r \in Run, c \in Chat : StartBackground(r, c) \/ \E id \in RunId : RunForeground(r, id, c)
  \/ \E id \in RunId : Detach(id) \/ Cancel(id)
  \/ \E r \in Run : TimeLimit(r) \/ stop(r) \/ Ends(r) \/ Closes(r) \/ \E w \in Waiter : wait(w, r)
  \/ \E w \in Waiter : WaitOver(w)
  \/ \E c \in Chat : takeInbox(c) \/ forget(c)

Next == Works \/ Shutdown

\* The timers fire, a process that is killed ends, and node reports the end of one.
Dies(r) == Closes(r) \/ (runs[r].child \in {"told", "killed"} /\ Ends(r))
Fairness == \A r \in Run : WF_vars(TimeLimit(r)) /\ WF_vars(Dies(r))

Spec == Init /\ [][Next]_vars
FairSpec == Spec /\ Fairness

-----------------------------------------------------------------------------
(* Properties.                                                             *)

\* A process nobody has told to end can be reached: by its id, for the tool call
\* that waits for it, or as a running task.  Stopping a turn, a late end and an id
\* given again never lose one.
Reachable ==
  \A r \in Run : runs[r].child = "alive" /\ ~down =>
    (\E id \in RunId : live[id] = r) \/ tasks[r].status = "running"

\* What a tool call or a task is told has ended, has: no process goes on behind it.
EndedIsClosed ==
  \A r \in Run : runs[r].at = "done" \/ tasks[r].status \in {"stopped", "ended"} =>
    runs[r].child \in {"none", "closed"}

\* The end of a task reaches the model once, unless it was asked for or the chat deleted.
InInbox(r) == Cardinality({i \in DOMAIN inboxes[runs[r].chat] : inboxes[runs[r].chat][i] = r})
Reports(r) == IF runs[r].chat \in Chat THEN InInbox(r) + read[r] ELSE read[r]
ReportedOnce ==
  \A r \in Run : /\ Reports(r) <= 1
                 /\ tasks[r].status = "ended" => Reports(r) = 1
                 /\ tasks[r].status = "stopped" => Reports(r) = 0

\* However commands get there, a chat never has more tasks than it may have.
TasksBounded == \A c \in Chat : Cardinality(running(c)) <= MaxRunning

\* Nobody waits for a task that has ended.
WaitsForRunning == \A w \in Waiter : waiters[w].at = "waiting" => tasks[waiters[w].for].status = "running"

\* "Ends every task and removes their logs, synchronously, for a quit": no task runs
\* on when stopAll returns.
TasksEndedByQuit ==
  [][down' /\ ~down => \A r \in Run : tasks[r].status = "running" => runs'[r].child \notin {"alive", "told"}]_vars
=============================================================================
