--------------------------- MODULE ChildProcesses ---------------------------
(***************************************************************************)
(* The processes the main process runs: extensions, commands and tasks,    *)
(* terminals, the embedding engine, and the three model engines.  The quit *)
(* stops them all, `shutdown' of win/electron/main.cjs; nothing else ties  *)
(* these components together here (LocalEngines and SdServer have what the *)
(* model engines ask of each other), so a behaviour keeps one of them      *)
(* busy, `subject', and the others have nothing to stop.                   *)
(***************************************************************************)
EXTENDS Integers, FiniteSets, Sequences

CONSTANTS
  Server, Remote, ServerStart, Call,      \* of McpServers
  File, Request,                          \* of EmbedServer
  Chat, RunId, Run, Waiter, MaxRunning,   \* of BackgroundTasks
  AppWindow, Terminal, MaxSessions,       \* of ShellHost
  ChatModel, ChatStart, ChatFits, ChatRoomy, ChatIncomplete, ChatExtras, ChatForeign, \* of LlamaProcess
  Attempt,                                \* of ColibriProcess
  Job, ImageModel,                        \* of SdServer
  MaxProc

\* The bounds number what happens, and 0 is none of it (NoStart, Nobody, NoRun, None).
ASSUME BoundsAssumption ==
  /\ ServerStart \subseteq Nat \ {0} /\ Request \subseteq Nat \ {0} /\ Run \subseteq Nat \ {0}
  /\ Attempt \subseteq Nat \ {0} /\ Terminal \subseteq Nat \ {0} /\ ChatStart \subseteq Nat \ {0}
  /\ MaxRunning \in Nat
ASSUME ServersAssumption == Remote \subseteq Server
ASSUME ChatAssumption ==
  /\ "none" \notin ChatModel /\ ChatFits \in [ChatModel -> Nat] /\ ChatRoomy \in [ChatModel -> Nat]
  /\ ChatExtras \in [ChatModel -> SUBSET {"projector", "draft"}]

VARIABLES
  subject,
  down,
  running, starts, calls, careful,
  requests, servers, child, starting, timer, alike,
  runs, live, tasks, inboxes, read, waiters,
  sessions, windows, told,
  chatStarts, chatProcs, active, activeModel, activeContext, chatStarting, last, refused, foreign,
  largeStarts, gateway, largeChild,
  jobs, imageProcs, imageChild, loaded, tookChatMemory, crashedDuringJob, cancels,
  chat, chatStart

mcp == INSTANCE McpServers WITH Start <- ServerStart
embedServer == INSTANCE EmbedServer
commands == INSTANCE BackgroundTasks
shellHost == INSTANCE ShellHost WITH Window <- AppWindow

\* starts that overlap, on one window
llamaProcess == INSTANCE LlamaProcess WITH
  calls <- chatStarts, procs <- chatProcs, starting <- chatStarting,
  Model <- ChatModel, Call <- ChatStart, Fits <- ChatFits, Roomy <- ChatRoomy,
  Incomplete <- ChatIncomplete, Extras <- ChatExtras, Foreign <- ChatForeign,
  MaxWindow <- 1, DefaultWindow <- 1, Overlap <- TRUE

\* one start at a time
colibri == INSTANCE ColibriProcess WITH
  starts <- largeStarts, child <- largeChild, Overlap <- FALSE

\* no chat start that wants its memory
sdServer == INSTANCE SdServer WITH
  procs <- imageProcs, child <- imageChild,
  Model <- ImageModel, MaxChats <- 0, StopMay <- TRUE

Subject == {"mcp", "embeddings", "commands", "terminals", "llama", "colibri", "images"}

TypeOK ==
  /\ subject \in Subject
  /\ mcp!TypeOK /\ embedServer!TypeOK /\ commands!TypeOK /\ shellHost!TypeOK
  /\ llamaProcess!TypeOK /\ colibri!CTypeOK /\ sdServer!TypeOK

Init ==
  /\ subject \in Subject
  /\ mcp!Init /\ embedServer!Init /\ commands!Init /\ shellHost!Init
  /\ llamaProcess!Init /\ colibri!CInit /\ sdServer!Init
  /\ subject # "mcp" => careful
  /\ subject # "embeddings" => alike
  /\ subject # "llama" => foreign = "none"
  /\ subject # "images" => chat = "out"

mcpVars == <<running, starts, calls, careful>>
embedVars == <<requests, servers, child, starting, timer, alike>>
commandVars == <<runs, live, tasks, inboxes, read, waiters>>
shellVars == <<sessions, windows, told>>
llamaVars == <<chatStarts, chatProcs, active, activeModel, activeContext, chatStarting, last,
               refused, foreign>>
colibriVars == <<largeStarts, gateway, largeChild>>
imageVars == <<jobs, imageProcs, imageChild, loaded, tookChatMemory, crashedDuringJob,
               cancels, chat, chatStart>>
engineVars == <<llamaVars, colibriVars, imageVars>>
vars == <<subject, down, mcpVars, embedVars, commandVars, shellVars, engineVars>>

\* The steps of shutdown, in their order.  A model engine may be stopped at any
\* time (Stop of its module), which is its step.
Shutdown ==
  /\ subject \in {"mcp", "embeddings", "commands", "terminals"}
  /\ mcp!Shutdown /\ commands!Shutdown /\ shellHost!Shutdown /\ embedServer!Shutdown
  /\ UNCHANGED <<subject, engineVars>>

Works ==
  \/ /\ subject = "mcp" /\ mcp!Works
     /\ UNCHANGED <<embedVars, commandVars, shellVars, engineVars>>
  \/ /\ subject = "embeddings" /\ embedServer!Works
     /\ UNCHANGED <<mcpVars, commandVars, shellVars, engineVars>>
  \/ /\ subject = "commands" /\ commands!Works
     /\ UNCHANGED <<mcpVars, embedVars, shellVars, engineVars>>
  \/ /\ subject = "terminals" /\ shellHost!Works
     /\ UNCHANGED <<mcpVars, embedVars, commandVars, engineVars>>
  \/ /\ UNCHANGED <<mcpVars, embedVars, commandVars, shellVars>>
     /\ \/ subject = "llama" /\ llamaProcess!Next /\ UNCHANGED <<colibriVars, imageVars>>
        \/ subject = "colibri" /\ colibri!CNext /\ UNCHANGED <<llamaVars, imageVars>>
        \/ subject = "images" /\ sdServer!Next /\ UNCHANGED <<llamaVars, colibriVars>>

Next == Shutdown \/ (Works /\ UNCHANGED <<subject, down>>)

\* The fairness of the components (see there), of the one at work.
Fairness ==
  /\ \A s \in ServerStart : /\ WF_mcpVars(subject = "mcp" /\ mcp!Handshakes(s))
                            /\ WF_mcpVars(subject = "mcp" /\ mcp!ExitEvent(s))
  /\ \A r \in Request : WF_embedVars(subject = "embeddings" /\ embedServer!Requested(r))
  /\ \A r \in Run : /\ WF_commandVars(subject = "commands" /\ commands!TimeLimit(r))
                    /\ WF_commandVars(subject = "commands" /\ commands!Dies(r))
  /\ \A c \in ChatStart : WF_llamaVars(subject = "llama" /\ llamaProcess!Step(c))
  /\ \A j \in Job : WF_imageVars(subject = "images" /\ sdServer!Work(j))
  /\ \A p \in sdServer!Proc : WF_imageVars(subject = "images" /\ sdServer!JobStep(p))

Spec == Init /\ [][Next]_vars /\ Fairness

-----------------------------------------------------------------------------
(* Properties.                                                             *)

\* A process that nobody has told to end can still be reached by what would stop it:
\* no start, stop, late exit event, id given again or window destroyed loses one.
ChildrenReachable ==
  /\ mcp!RunsKnown /\ embedServer!KnownServer /\ commands!Reachable
  /\ shellHost!TerminalsOwned /\ colibri!OneGateway

\* What counts as running has not been seen to end, what was reported as ended has
\* ended, and the end of a task is reported once.
EndsAreTrue ==
  /\ mcp!RegisteredRuns /\ colibri!ChildKnown /\ llamaProcess!ActiveKnown
  /\ commands!EndedIsClosed /\ commands!ReportedOnce /\ commands!TasksBounded

\* Whoever waits for a start, a task or an answer waits for one that will settle, and
\* is answered by the right model.
WaitsAreAlive ==
  /\ mcp!ExitSettles /\ embedServer!JoinsLive /\ embedServer!OwnFile
  /\ commands!WaitsForRunning /\ llamaProcess!JoinedInFlight

LoadedIsOwned == colibri!LoadedIsOwned
ToldOfOwnEnds == shellHost!ToldOfOwnEnds

\* Every start of an extension and of a model engine, every request for the embedding
\* engine and for a picture and every command comes back: a behaviour has finitely
\* many, so that is, in the end none is under way.
EverythingComesBack ==
  <>[](/\ \A s \in ServerStart : ~mcp!Starting(s)
       /\ \A r \in Request : ~embedServer!UnderWay(r)
       /\ \A r \in Run : runs[r].at # "running"
       /\ \A c \in ChatStart : ~llamaProcess!InFlight(c) /\ chatStarts[c].at # "joined"
       /\ \A j \in Job : jobs[j].at \in {"new", "over"})
=============================================================================
