------------------------------ MODULE SdServer ------------------------------
(***************************************************************************)
(* The image engine: win/electron/sdServer.cjs, a queue of requests in     *)
(* front of one sd-server child process, which may push the chat model out *)
(* of memory and is stopped when the chat wants that memory back.          *)
(* An action is what the code does between two awaits, cancel and          *)
(* yieldToChat included, which interleave with the request being worked.   *)
(* The idle timeout is 0, as win/electron/imageIpc.cjs sets it.            *)
(***************************************************************************)
EXTENDS Integers, FiniteSets

CONSTANTS
  Job,      \* the requests of a behaviour, numbered in the order of their calls (a bound)
  Model,    \* image models
  MaxProc,  \* sd-server processes of a behaviour (a bound)
  MaxChats, \* starts of the chat model in a behaviour (a bound)
  StopMay   \* whether something outside stops the engine (sd:stop, removing a model)

ASSUME ConstantsAssumption ==
  /\ Job \subseteq Nat \ {0} /\ MaxProc \in Nat /\ MaxChats \in Nat
  /\ StopMay \in BOOLEAN
  /\ "none" \notin Model

Proc == 1..MaxProc
NoProc == 0

VARIABLES
  jobs,             \* jobs[j]: where the request j is
  procs,            \* procs[p]: an sd-server process and the job it was given
  child,            \* `child'
  loaded,           \* loadedKey, taken apart: the model and the plan
  tookChatMemory,
  crashedDuringJob,
  cancels,          \* cancels[j]: how far cancel(j) is
  chat,             \* the chat model: "out" or "loaded"
  chatStart         \* the gguf:start handler: where it is and which requests it waits for

vars == <<jobs, procs, child, loaded, tookChatMemory, crashedDuringJob, cancels,
          chat, chatStart>>

Plan == {"gpu", "offload", "safe"}
Results == {"image", "cancelled", "failed", "crash", "no-start", "no-memory", "missing"}
Launching == {"port", "loading", "answered"}
Drawing == {"submit", "asked", "poll", "gone"}
AtWork == {"info", "memory"} \cup Launching \cup Drawing

NewJob == [at |-> "new", model |-> "none", stopChat |-> FALSE, plan |-> "none",
           evicted |-> FALSE, cancelled |-> FALSE, id |-> FALSE, attempt |-> 0,
           proc |-> NoProc, result |-> "none"]
NotSpawned == [at |-> "unused", of |-> 0, job |-> "none"]
NoKey == [model |-> "none", plan |-> "none"]
KeyOf(job) == [model |-> job.model, plan |-> job.plan]

\* `pending'
Pending == {j \in Job : jobs[j].at \notin {"new", "over"}}
Alive(p) == procs[p].at \in {"starting", "up"}

TypeOK ==
  /\ jobs \in [Job ->
       [at : {"new", "queued", "over"} \cup AtWork, model : Model \cup {"none"},
        stopChat : BOOLEAN, plan : Plan \cup {"none"}, evicted : BOOLEAN,
        cancelled : BOOLEAN, id : BOOLEAN, attempt : 0..1, proc : Proc \cup {NoProc},
        result : Results \cup {"none"}]]
  /\ procs \in [Proc ->
       [at : {"unused", "starting", "up", "dead", "killed", "gone"}, of : Job \cup {0},
        job : {"none", "waiting", "drawing", "drawn", "failed", "cancelled"}]]
  /\ child \in Proc \cup {NoProc}
  /\ loaded \in [model : Model, plan : Plan] \cup {NoKey}
  /\ tookChatMemory \in BOOLEAN /\ crashedDuringJob \in BOOLEAN
  /\ cancels \in [Job -> {"no", "asking", "told"}]
  /\ chat \in {"out", "loaded"}
  /\ chatStart \in [at : {"idle", "waiting", "starting"}, ahead : SUBSET Job, left : 0..MaxChats]

Init ==
  /\ jobs = [j \in Job |-> NewJob]
  /\ procs = [p \in Proc |-> NotSpawned]
  /\ child = NoProc /\ loaded = NoKey
  /\ tookChatMemory = FALSE /\ crashedDuringJob = FALSE
  /\ cancels = [j \in Job |-> "no"]
  /\ chat \in {"out", "loaded"}
  /\ chatStart = [at |-> "idle", ahead |-> {}, left |-> MaxChats]

-----------------------------------------------------------------------------
(* stopSync kills `child', if there is one, and forgets what it held.      *)
Kill(ps, c) == [p \in Proc |-> IF p = c THEN [NotSpawned EXCEPT !.at = "killed"] ELSE ps[p]]

stopSync ==
  /\ procs' = Kill(procs, child)
  /\ child' = NoProc
  /\ loaded' = NoKey
  /\ tookChatMemory' = (tookChatMemory /\ child = NoProc)

KeepEngine == UNCHANGED <<procs, child, loaded, tookChatMemory>>

(* A request is over; the engine holds `key' and `took' is what            *)
(* tookChatMemory says by now.  The request's `finally' (when it got as    *)
(* far as the engine) gives the chat model's memory back, and the queue's  *)
(* own stops an engine nobody waits for.                                   *)
End(j, res, gotToEngine, key, took) ==
  LET stops == Pending = {j}
  IN  /\ jobs' = [jobs EXCEPT ![j] = [NewJob EXCEPT !.at = "over", !.result = res]]
      /\ \/ /\ stops
            /\ procs' = Kill(procs, child) /\ child' = NoProc
            /\ loaded' = NoKey
            /\ tookChatMemory' = (took /\ child = NoProc)
         \/ /\ ~stops
            /\ loaded' = key /\ tookChatMemory' = took
            /\ UNCHANGED <<procs, child>>

Fails(j, res) == End(j, res, TRUE, loaded, tookChatMemory)
Refused(j, res) == End(j, res, FALSE, loaded, tookChatMemory)

(* Faulty Launches: the old engine is left running; what it held of the    *)
(* chat model's memory is forgotten with it.                               *)
LaunchBeside(j, job, took) ==
  /\ child' = NoProc /\ loaded' = NoKey
  /\ tookChatMemory' = took
  /\ jobs' = [jobs EXCEPT ![j] = [job EXCEPT !.at = "port", !.proc = NoProc]]
  /\ UNCHANGED procs

LaunchForgets(j, job, took) ==
  /\ jobs' = [jobs EXCEPT ![j] = [job EXCEPT !.at = "port", !.proc = NoProc]]
  /\ stopSync

(* The head of launch: the old engine goes, and what it held of the chat   *)
(* model's memory goes to the new one.                                     *)
Launch(j, job, took) ==
  /\ procs' = Kill(procs, child) /\ child' = NoProc
  /\ loaded' = NoKey
  /\ tookChatMemory' = took
  /\ jobs' = [jobs EXCEPT ![j] = [job EXCEPT !.at = "port", !.proc = NoProc]]

(* ensure: the running engine if it fits, and a launch otherwise.          *)
Fitting(job) == child # NoProc /\ loaded = KeyOf(job)

ensure(j, job, took) ==
  \/ /\ Fitting(job) /\ ~job.cancelled
     /\ jobs' = [jobs EXCEPT ![j] = [job EXCEPT !.at = "submit", !.proc = child]]
     /\ tookChatMemory' = (took \/ job.evicted)
     /\ crashedDuringJob' = FALSE
     /\ UNCHANGED <<procs, child, loaded>>
  \/ /\ Fitting(job) /\ job.cancelled
     /\ End(j, "cancelled", TRUE, loaded, took \/ job.evicted)
     /\ UNCHANGED crashedDuringJob
  \/ /\ ~Fitting(job)
     /\ Launch(j, job, took)
     /\ UNCHANGED crashedDuringJob

Elsewhere == UNCHANGED <<cancels, chat, chatStart>>

-----------------------------------------------------------------------------
(* generate: the request joins the queue. *)
Generate(j) ==
  /\ jobs[j].at = "new"
  /\ \A i \in Job : i < j => jobs[i].at # "new"
  /\ \E m \in Model, stop \in BOOLEAN :
       jobs' = [jobs EXCEPT ![j].at = "queued", ![j].model = m, ![j].stopChat = stop]
  /\ UNCHANGED <<procs, child, loaded, tookChatMemory, crashedDuringJob>>
  /\ Elsewhere

(* A faulty Turn: a request does not wait for those before it. *)
TurnOutOfOrder(j) ==
  /\ jobs[j].at = "queued" /\ ~jobs[j].cancelled
  /\ jobs' = [jobs EXCEPT ![j].at = "info"]
  /\ KeepEngine /\ UNCHANGED crashedDuringJob /\ Elsewhere

(* Its turn has come. *)
Turn(j) ==
  /\ jobs[j].at = "queued"
  /\ \A i \in Job : i < j => jobs[i].at = "over"
  /\ \/ jobs[j].cancelled /\ Refused(j, "cancelled")
     \/ ~jobs[j].cancelled /\ jobs' = [jobs EXCEPT ![j].at = "info"] /\ KeepEngine
  /\ UNCHANGED crashedDuringJob /\ Elsewhere

(* The binary and the model were looked up.  An engine that runs this      *)
(* model keeps its plan; otherwise the memory is measured, after the chat  *)
(* model was stopped if the user asked for that.                           *)
Info(j) ==
  LET running == child # NoProc /\ loaded.model = jobs[j].model
  IN  /\ jobs[j].at = "info"
      /\ \/ /\ Refused(j, "missing")
            /\ UNCHANGED <<crashedDuringJob, chat>>
         \/ /\ running
            /\ ensure(j, [jobs[j] EXCEPT !.plan = loaded.plan], tookChatMemory)
            /\ UNCHANGED chat
         \/ /\ ~running
            /\ jobs' = [jobs EXCEPT ![j].at = "memory", ![j].evicted = jobs[j].stopChat]
            /\ chat' = IF jobs[j].stopChat THEN "out" ELSE chat
            /\ tookChatMemory' = (tookChatMemory \/ jobs[j].stopChat)
            /\ UNCHANGED <<procs, child, loaded, crashedDuringJob>>
      /\ UNCHANGED <<cancels, chatStart>>

(* planMemory: beside a loaded chat model the weights fit, fit once it is  *)
(* stopped, or not at all; without one they fit, spill into RAM, or not.   *)
planMemory ==
  {"gpu", "fail"} \cup (IF chat = "loaded" THEN {"unload-chat"} ELSE {"offload"})

Memory(j) ==
  /\ jobs[j].at = "memory"
  /\ \/ /\ Refused(j, "no-memory")
        /\ UNCHANGED <<crashedDuringJob, chat>>
     \/ \E plan \in planMemory \ {"fail", "unload-chat"} :
          /\ ensure(j, [jobs[j] EXCEPT !.plan = plan], tookChatMemory)
          /\ UNCHANGED chat
     \/ /\ "unload-chat" \in planMemory
        /\ chat' = "out"
        /\ \E plan \in {"gpu", "offload"} :
             ensure(j, [jobs[j] EXCEPT !.plan = plan, !.evicted = TRUE], TRUE)
  /\ UNCHANGED <<cancels, chatStart>>

(* The port is known: spawn. *)
Spawn(j) ==
  /\ jobs[j].at = "port"
  /\ \E p \in Proc :
       /\ procs[p].at = "unused" /\ \A q \in Proc : q < p => procs[q].at # "unused"
       /\ procs' = [procs EXCEPT ![p].at = "starting"]
       /\ child' = p
       /\ jobs' = [jobs EXCEPT ![j].at = "loading", ![j].proc = p]
  /\ UNCHANGED <<loaded, tookChatMemory, crashedDuringJob>> /\ Elsewhere

(* waitForCapabilities: the engine answers; or it was stopped or exited;   *)
(* or it is silent up to the deadline and stopped for that.                *)
LoadAnswered(j) ==
  /\ child = jobs[j].proc /\ procs[child].at = "up"
  /\ jobs' = [jobs EXCEPT ![j].at = "answered"]
  /\ KeepEngine /\ UNCHANGED crashedDuringJob

NotLoaded(j) ==
  /\ UNCHANGED crashedDuringJob
  /\ \/ child # jobs[j].proc /\ Fails(j, "no-start")
     \/ /\ child = jobs[j].proc /\ procs[child].at # "up"
        /\ jobs' = [jobs EXCEPT ![j] = [NewJob EXCEPT !.at = "over", !.result = "no-start"]]
        /\ stopSync

Load(j) ==
  /\ jobs[j].at = "loading"
  /\ LoadAnswered(j) \/ NotLoaded(j)
  /\ Elsewhere

(* A faulty Loaded: a stop while the memory was measured took the flag     *)
(* with the old engine, and it is not set again.                           *)
LoadedForgets(j) ==
  /\ jobs[j].at = "answered" /\ ~jobs[j].cancelled
  /\ jobs' = [jobs EXCEPT ![j].at = "submit", ![j].proc = child]
  /\ loaded' = KeyOf(jobs[j]) /\ crashedDuringJob' = FALSE
  /\ UNCHANGED <<procs, child, tookChatMemory>> /\ Elsewhere

(* The answer has arrived and its body was read: the engine counts as      *)
(* loaded, which nobody checks against a stop in between.                  *)
Loaded(j) ==
  LET took == tookChatMemory \/ jobs[j].evicted
  IN  /\ jobs[j].at = "answered"
      /\ \/ /\ ~jobs[j].cancelled
            /\ jobs' = [jobs EXCEPT ![j].at = "submit", ![j].proc = child]
            /\ loaded' = KeyOf(jobs[j]) /\ tookChatMemory' = took
            /\ crashedDuringJob' = FALSE
            /\ UNCHANGED <<procs, child>>
         \/ /\ jobs[j].cancelled
            /\ End(j, "cancelled", TRUE, KeyOf(jobs[j]), took)
            /\ UNCHANGED crashedDuringJob
      /\ Elsewhere

-----------------------------------------------------------------------------
(* runJob failed.  A stop that had to end the engine is the stop; a crash  *)
(* is tried once more, in the safe plan.                                   *)
Caught(j, res) ==
  LET crashed == res = "crash" \/ crashedDuringJob
  IN  \/ /\ jobs[j].cancelled
         /\ Fails(j, "cancelled") /\ UNCHANGED crashedDuringJob
      \/ /\ ~jobs[j].cancelled /\ crashed /\ jobs[j].attempt = 0
         /\ ensure(j, [jobs[j] EXCEPT !.attempt = 1, !.plan = "safe"], tookChatMemory)
      \/ /\ ~jobs[j].cancelled /\ (crashed => jobs[j].attempt = 1)
         /\ Fails(j, IF crashed THEN "crash" ELSE res) /\ UNCHANGED crashedDuringJob

Becomes(j, at) ==
  /\ jobs' = [jobs EXCEPT ![j].at = at]
  /\ KeepEngine /\ UNCHANGED crashedDuringJob

(* The request is posted: taken, refused, or the engine is gone; without a *)
(* process to ask about (`proc' is null), the failure is that of the code. *)
Submit(j) ==
  LET p == jobs[j].proc
  IN  /\ jobs[j].at = "submit"
      /\ \/ p = NoProc /\ Caught(j, "failed")
         \/ /\ p # NoProc /\ procs[p].at = "up"
            /\ jobs' = [jobs EXCEPT ![j].id = TRUE,
                                    ![j].at = IF jobs[j].cancelled THEN "asked" ELSE "poll"]
            /\ procs' = [procs EXCEPT ![p].of = j, ![p].job = "waiting"]
            /\ UNCHANGED <<child, loaded, tookChatMemory, crashedDuringJob>>
         \/ p # NoProc /\ procs[p].at = "up" /\ Caught(j, "failed")
         \/ p # NoProc /\ procs[p].at # "up" /\ Becomes(j, "gone")
      /\ Elsewhere

(* What the engine makes of a cancel: only a job it has not begun is       *)
(* dropped.                                                                *)
Takes(j, p) == procs[p].at = "up" /\ procs[p].of = j /\ procs[p].job = "waiting"

(* It was cancelled while it was posted: the answer to that is not read.   *)
Asked(j) ==
  LET p == jobs[j].proc
  IN  /\ jobs[j].at = "asked"
      /\ procs' = IF Takes(j, p) THEN [procs EXCEPT ![p].job = "cancelled"] ELSE procs
      /\ jobs' = [jobs EXCEPT ![j].at = "poll"]
      /\ UNCHANGED <<child, loaded, tookChatMemory, crashedDuringJob>>
      /\ Elsewhere

(* A poll: the engine says how the job ended, or has been silent past the  *)
(* patience; or there is no engine any more.                               *)
Poll(j) ==
  LET p == jobs[j].proc
  IN  /\ jobs[j].at = "poll"
      /\ \/ child = NoProc /\ Caught(j, "crash")
         \/ child # NoProc /\ procs[p].at = "dead" /\ Becomes(j, "gone")
         \/ /\ procs[p].at = "up"
            /\ \/ procs[p].job = "drawn" /\ Fails(j, "image") /\ UNCHANGED crashedDuringJob
               \/ procs[p].job = "cancelled" /\ Caught(j, "cancelled")
               \/ procs[p].job \in {"failed", "drawing"} /\ Caught(j, "failed")
      /\ Elsewhere

(* engineGone: the exit event may land just after the broken connection.   *)
Gone(j) ==
  /\ jobs[j].at = "gone"
  /\ Caught(j, IF child # jobs[j].proc THEN "crash" ELSE "failed")
  /\ Elsewhere

-----------------------------------------------------------------------------
(* cancel: marked, and asked of the engine when the job is there already;  *)
(* an engine that does not take it is stopped.                             *)
Cancel(j) ==
  /\ jobs[j].at \notin {"new", "over"} /\ cancels[j] = "no"
  /\ jobs' = [jobs EXCEPT ![j].cancelled = TRUE]
  /\ cancels' = [cancels EXCEPT ![j] =
       IF jobs[j].id /\ child # NoProc THEN "asking" ELSE "told"]
  /\ KeepEngine /\ UNCHANGED <<crashedDuringJob, chat, chatStart>>

CancelAnswered(j) ==
  /\ cancels[j] = "asking"
  /\ cancels' = [cancels EXCEPT ![j] = "told"]
  /\ \/ /\ child # NoProc /\ Takes(j, child)
        /\ procs' = [procs EXCEPT ![child].job = "cancelled"]
        /\ UNCHANGED <<child, loaded, tookChatMemory>>
     \/ ~(child # NoProc /\ Takes(j, child)) /\ stopSync
  /\ UNCHANGED <<jobs, crashedDuringJob, chat, chatStart>>

(* sd:stop, an image model or the engine removed. *)
Stop ==
  /\ StopMay /\ child # NoProc
  /\ stopSync
  /\ UNCHANGED <<jobs, crashedDuringJob>> /\ Elsewhere

-----------------------------------------------------------------------------
(* gguf:start, up to the chat model's own start: yieldToChat waits for the *)
(* requests that are in the queue by now.                                  *)
ChatAsks ==
  /\ chatStart.at = "idle" /\ chatStart.left > 0 /\ chat = "out"
  /\ chatStart' = [at |-> IF tookChatMemory THEN "waiting" ELSE "starting",
                   ahead |-> IF tookChatMemory THEN Pending ELSE {},
                   left |-> chatStart.left - 1]
  /\ KeepEngine /\ UNCHANGED <<jobs, crashedDuringJob, cancels, chat>>

yieldToChat ==
  /\ chatStart.at = "waiting" /\ \A j \in chatStart.ahead : jobs[j].at = "over"
  /\ stopSync
  /\ chatStart' = [chatStart EXCEPT !.at = "starting", !.ahead = {}]
  /\ UNCHANGED <<jobs, crashedDuringJob, cancels, chat>>

(* The chat model is there (external, see LlamaProcess). *)
ChatLoads ==
  /\ chatStart.at = "starting"
  /\ chat' = "loaded"
  /\ chatStart' = [chatStart EXCEPT !.at = "idle"]
  /\ KeepEngine /\ UNCHANGED <<jobs, crashedDuringJob, cancels>>

-----------------------------------------------------------------------------
(* node reports that a process is gone. *)
ExitEvent(p) ==
  /\ procs[p].at \in {"dead", "killed"}
  /\ procs' = [procs EXCEPT ![p] = [NotSpawned EXCEPT !.at = "gone"]]
  /\ IF child = p
       THEN /\ child' = NoProc /\ loaded' = NoKey
            /\ crashedDuringJob' = (crashedDuringJob \/ Pending # {})
       ELSE UNCHANGED <<child, loaded, crashedDuringJob>>
  /\ UNCHANGED <<jobs, tookChatMemory>> /\ Elsewhere

(* sd-server itself (external): it takes a job up and ends it; it comes up *)
(* and may end at any moment.                                              *)
JobStep(p) ==
  /\ procs[p].at = "up"
  /\ \/ procs[p].job = "waiting" /\ procs' = [procs EXCEPT ![p].job = "drawing"]
     \/ /\ procs[p].job = "drawing"
        /\ \E end \in {"drawn", "failed"} : procs' = [procs EXCEPT ![p].job = end]
  /\ UNCHANGED <<jobs, child, loaded, tookChatMemory, crashedDuringJob>> /\ Elsewhere

ServerStep(p) ==
  /\ \/ procs[p].at = "starting" /\ procs' = [procs EXCEPT ![p].at = "up"]
     \/ Alive(p) /\ procs' = [procs EXCEPT ![p].at = "dead"]
  /\ UNCHANGED <<jobs, child, loaded, tookChatMemory, crashedDuringJob>> /\ Elsewhere

-----------------------------------------------------------------------------
Work(j) ==
  Turn(j) \/ Info(j) \/ Memory(j) \/ Spawn(j) \/ Load(j) \/ Loaded(j) \/ Submit(j)
  \/ Asked(j) \/ Poll(j) \/ Gone(j)

Next ==
  \/ \E j \in Job : Generate(j) \/ Work(j) \/ Cancel(j) \/ CancelAnswered(j)
  \/ \E p \in Proc : ExitEvent(p) \/ JobStep(p) \/ ServerStep(p)
  \/ Stop \/ ChatAsks \/ yieldToChat \/ ChatLoads

(* Every await of a request is answered or has a timeout; an engine that   *)
(* was given a job begins it and ends it one way or another.               *)
Fairness ==
  /\ \A j \in Job : WF_vars(Work(j))
  /\ \A p \in Proc : WF_vars(JobStep(p))

Spec == Init /\ [][Next]_vars /\ Fairness

-----------------------------------------------------------------------------
(* Of all sd-servers at most one is alive, and it is the one that stopSync *)
(* would kill: no stop, cancel, retry or crash at any await leaves one     *)
(* behind.  And "An idle timeout of 0 stops the engine as soon as its      *)
(* queue is empty" (setOptions): then none is left, nor about to be.       *)
NoOrphan ==
  /\ \A p \in Proc : Alive(p) => child = p
  /\ Pending = {} => child = NoProc

(* A picture only comes from a request that was its engine's last job, and *)
(* a request in the engine's hands is never worked on by two engines.      *)
OwnPicture ==
  \A j \in Job : jobs[j].at = "poll" /\ child # NoProc =>
     child = jobs[j].proc /\ (procs[child].at = "up" => procs[child].of = j)

(* "Replacing the engine does not give the chat model its memory back"     *)
(* (launch): tookChatMemory only falls when the engine really goes.        *)
HoldsUntilStopped ==
  [][tookChatMemory /\ ~tookChatMemory' =>
       /\ child # NoProc /\ child' = NoProc
       /\ \A j \in Job : jobs'[j].at # "port"]_vars

(* The chat model that a request pushed out gets to know: while the engine *)
(* of that request draws, a chat start waits instead of loading beside it. *)
EvictionRemembered ==
  \A j \in Job :
    jobs[j].at \in Drawing /\ jobs[j].evicted /\ child = jobs[j].proc => tookChatMemory

-----------------------------------------------------------------------------
(* "the next chat waits for the running job and then has the GPU back,     *)
(* rather than both crawling in memory that holds only one" (yieldToChat). *)
ChatHasItBack ==
  [][chatStart.at = "waiting" /\ chatStart'.at = "starting" =>
       \A j \in Job : jobs'[j].at \notin Launching \cup Drawing]_vars
=============================================================================
