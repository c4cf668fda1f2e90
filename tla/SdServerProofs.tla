--------------------------- MODULE SdServerProofs ---------------------------
(***************************************************************************)
(* The image engine, for any number of requests, models and processes: no  *)
(* process is out of reach, a picture is the request's own, and what was   *)
(* taken from the chat model is remembered until the engine goes.          *)
(*                                                                         *)
(* All of it rests on one fact that no lock in the code states: of the     *)
(* requests at most one is at work (OneWorker), because each waits for all *)
(* that came before it.  So nothing but that request spawns, and at its    *)
(* await for a port there is no engine (PortFree).                         *)
(***************************************************************************)
EXTENDS SdServer, TLAPS

Key == [model : Model, plan : Plan] \cup {NoKey}
JobRecord ==
  [at : {"new", "queued", "over"} \cup AtWork, model : Model \cup {"none"},
   stopChat : BOOLEAN, plan : Plan \cup {"none"}, evicted : BOOLEAN,
   cancelled : BOOLEAN, id : BOOLEAN, attempt : 0..1, proc : Proc \cup {NoProc},
   result : Results \cup {"none"}]
ProcRecord ==
  [at : {"unused", "starting", "up", "dead", "killed", "gone"}, of : Job \cup {0},
   job : {"none", "waiting", "drawing", "drawn", "failed", "cancelled"}]

\* A request has a model once it is asked for, and a plan once an engine is started for it
JobOK(r) ==
  /\ r \in JobRecord
  /\ r.at \notin {"new", "over"} => r.model \in Model
  /\ r.at \in Launching \cup Drawing => r.plan \in Plan

EngineTypes ==
  /\ jobs \in [Job -> JobRecord] /\ \A j \in Job : JobOK(jobs[j])
  /\ procs \in [Proc -> ProcRecord]
  /\ child \in Proc \cup {NoProc} /\ loaded \in Key /\ tookChatMemory \in BOOLEAN
RestTypes ==
  /\ crashedDuringJob \in BOOLEAN
  /\ cancels \in [Job -> {"no", "asking", "told"}] /\ chat \in {"out", "loaded"}
  /\ chatStart \in [at : {"idle", "waiting", "starting"}, ahead : SUBSET Job, left : 0..MaxChats]

\* It is j's turn: everything before it is over
AtTurn(j) ==
  /\ jobs[j].at \in AtWork \cup {"queued"}
  /\ \A i \in Job : i < j => jobs[i].at = "over"

OneWorker == \A j \in Job : jobs[j].at \in AtWork => AtTurn(j)
PortFree == \A j \in Job : jobs[j].at = "port" => child = NoProc
\* What the request that draws knows of the engine
Draws(r, j) ==
  r.at \in Drawing =>
    /\ child # NoProc => child = r.proc
    /\ r.at \in {"asked", "poll"} /\ child # NoProc => procs[child].of = j
    /\ r.evicted /\ child = r.proc => tookChatMemory
OwnEngine == \A j \in Job : Draws(jobs[j], j)

EngineInv == EngineTypes /\ NoOrphan /\ OneWorker /\ PortFree /\ OwnEngine
Inv == EngineInv /\ RestTypes

\* HoldsUntilStopped, of a step
Holds ==
  tookChatMemory /\ ~tookChatMemory' =>
    /\ child # NoProc /\ child' = NoProc
    /\ \A j \in Job : jobs'[j].at # "port"

-----------------------------------------------------------------------------
(* The queue.                                                              *)

\* While it is j's turn no other request is at work.
LEMMA OthersRest ==
  ASSUME OneWorker, NEW j \in Job, AtTurn(j), NEW i \in Job, i # j
  PROVE  jobs[i].at \notin AtWork
<1> SUFFICES ASSUME jobs[i].at \in AtWork PROVE FALSE
  OBVIOUS
<1>1. i \in Nat /\ j \in Nat
  BY ConstantsAssumption
<1>2. AtTurn(i)
  BY DEF OneWorker
<1>3. CASE i < j
  BY <1>3 DEF AtTurn, AtWork, Launching, Drawing
<1>4. CASE j < i
  BY <1>2, <1>4 DEF AtTurn, AtWork, Launching, Drawing
<1> QED
  BY <1>1, <1>3, <1>4

\* The request whose turn it is becomes r, and the engine what fits it.
LEMMA WorkerStep ==
  ASSUME EngineInv, NEW j \in Job, AtTurn(j), NEW r, JobOK(r), r.at \in AtWork \cup {"over"},
         jobs' = [jobs EXCEPT ![j] = r],
         r.at = "port" => child' = NoProc, Draws(r, j)'
  PROVE  /\ jobs' \in [Job -> JobRecord] /\ \A i \in Job : JobOK(jobs'[i])
         /\ OneWorker' /\ PortFree' /\ OwnEngine'
<1>1. jobs'[j] = r /\ \A i \in Job : i # j => jobs'[i] = jobs[i]
  BY DEF EngineInv, EngineTypes
<1>2. \A i \in Job : i # j => jobs'[i].at \notin AtWork
  BY <1>1, OthersRest DEF EngineInv
<1>3. jobs' \in [Job -> JobRecord] /\ \A i \in Job : JobOK(jobs'[i])
  BY <1>1 DEF EngineInv, EngineTypes, JobOK
<1>4. OneWorker'
  <2> SUFFICES ASSUME NEW i \in Job, jobs'[i].at \in AtWork PROVE AtTurn(i)'
    BY DEF OneWorker
  <2>1. i = j
    BY <1>2
  <2>2. \A k \in Job : k < j => jobs'[k].at = "over"
    BY <1>1, ConstantsAssumption DEF AtTurn
  <2> QED
    BY <2>1, <2>2 DEF AtTurn
<1>5. PortFree'
  BY <1>1, <1>2 DEF PortFree, AtWork, Launching
<1>6. OwnEngine'
  BY <1>1, <1>2 DEF OwnEngine, Draws, AtWork
<1> QED
  BY <1>3, <1>4, <1>5, <1>6

-----------------------------------------------------------------------------
(* The engine: what stopSync, launch and ensure do.                        *)

\* Once `child' is killed nothing is alive.
LEMMA KillEndsAll ==
  ASSUME EngineInv, procs' = Kill(procs, child), child' = NoProc
  PROVE  /\ procs' \in [Proc -> ProcRecord] /\ child' \in Proc \cup {NoProc}
         /\ NoOrphan'
BY DEF EngineInv, EngineTypes, NoOrphan, Kill, Alive, NotSpawned, ProcRecord

LEMMA StopStep ==
  ASSUME EngineInv, stopSync, jobs' = jobs
  PROVE  EngineInv' /\ Holds
<1>1. NoOrphan' /\ procs' \in [Proc -> ProcRecord]
  BY KillEndsAll DEF stopSync
<1>2. EngineTypes'
  BY <1>1 DEF stopSync, EngineInv, EngineTypes, Key
<1>3. OneWorker' /\ PortFree'
  BY DEF stopSync, EngineInv, OneWorker, AtTurn, PortFree
<1>4. OwnEngine'
  <2> SUFFICES ASSUME NEW j \in Job, jobs[j].at \in Drawing PROVE Draws(jobs[j], j)'
    BY DEF OwnEngine, Draws
  <2>1. Draws(jobs[j], j)
    BY DEF EngineInv, OwnEngine
  <2> QED
    BY <2>1 DEF Draws, stopSync
<1>5. Holds
  BY DEF Holds, stopSync, EngineInv, PortFree
<1> QED
  BY <1>1, <1>2, <1>3, <1>4, <1>5 DEF EngineInv

LEMMA EndStep ==
  ASSUME EngineInv, NEW j \in Job, AtTurn(j), NEW res \in Results, NEW got,
         NEW key \in Key, NEW took \in BOOLEAN, tookChatMemory => took,
         End(j, res, got, key, took)
  PROVE  EngineInv' /\ Holds
<1> DEFINE r == [NewJob EXCEPT !.at = "over", !.result = res]
<1>1. jobs' = [jobs EXCEPT ![j] = r] /\ r.at = "over" /\ JobOK(r) /\ Draws(r, j)'
  <2>1. jobs' = [jobs EXCEPT ![j] = r]
    BY DEF End
  <2>2. r.at = "over"
    BY DEF NewJob
  <2>3. r \in JobRecord
    <3>1. NewJob \in JobRecord
      BY DEF JobRecord, NewJob
    <3> QED
      BY <3>1 DEF JobRecord
  <2> QED
    BY <2>1, <2>2, <2>3 DEF JobOK, Draws, Drawing, Launching
<1>2. /\ jobs' \in [Job -> JobRecord] /\ \A i \in Job : JobOK(jobs'[i])
      /\ OneWorker' /\ PortFree' /\ OwnEngine'
  <2> HIDE DEF r
  <2> QED
    BY <1>1, WorkerStep
<1>3. CASE /\ procs' = Kill(procs, child) /\ child' = NoProc
           /\ loaded' = NoKey /\ tookChatMemory' = (took /\ child = NoProc)
  <2>1. EngineTypes' /\ NoOrphan'
    BY <1>2, <1>3, KillEndsAll DEF EngineTypes, Key
  <2>2. Holds
    BY <1>1, <1>3 DEF Holds, EngineInv, EngineTypes, PortFree, NewJob
  <2> QED
    BY <1>2, <2>1, <2>2 DEF EngineInv
<1>4. CASE /\ Pending # {j}
           /\ loaded' = key /\ tookChatMemory' = took /\ UNCHANGED <<procs, child>>
  <2>1. EngineTypes' /\ Holds
    BY <1>2, <1>4 DEF EngineInv, EngineTypes, Holds
  <2>2. j \in Pending
    BY DEF AtTurn, Pending, AtWork, Launching, Drawing
  <2>3. PICK i \in Pending : i # j
    BY <1>4, <2>2
  <2>4. i \in Pending'
    BY <1>1, <2>3 DEF Pending, EngineInv, EngineTypes
  <2>5. NoOrphan'
    BY <1>4, <2>4 DEF EngineInv, NoOrphan, Alive
  <2> QED
    BY <1>2, <2>1, <2>5 DEF EngineInv
<1> QED
  BY <1>3, <1>4 DEF End

LEMMA LaunchStep ==
  ASSUME EngineInv, NEW j \in Job, AtTurn(j), NEW job, JobOK(job), job.at # "over",
         job.model \in Model, job.plan \in Plan,
         NEW took \in BOOLEAN, tookChatMemory => took, Launch(j, job, took)
  PROVE  EngineInv' /\ Holds
<1> DEFINE r == [job EXCEPT !.at = "port", !.proc = NoProc]
<1>1. /\ jobs' = [jobs EXCEPT ![j] = r] /\ r.at = "port" /\ JobOK(r) /\ Draws(r, j)'
      /\ child' = NoProc
  BY DEF Launch, JobOK, JobRecord, Draws, Drawing, AtWork, Launching
<1>2. /\ jobs' \in [Job -> JobRecord] /\ \A i \in Job : JobOK(jobs'[i])
      /\ OneWorker' /\ PortFree' /\ OwnEngine'
  <2> HIDE DEF r
  <2> QED
    BY <1>1, WorkerStep DEF AtWork, Launching
<1>3. EngineTypes' /\ NoOrphan'
  BY <1>2, KillEndsAll DEF EngineTypes, Key, Launch
<1>4. Holds
  BY DEF Holds, Launch
<1> QED
  BY <1>2, <1>3, <1>4 DEF EngineInv

\* A request that goes on with the engine as it is.
LEMMA GoesOn ==
  ASSUME EngineInv, NEW j \in Job, AtTurn(j), NEW r, JobOK(r), r.at \in AtWork,
         jobs' = [jobs EXCEPT ![j] = r], procs' = procs, child' = child,
         loaded' \in Key, tookChatMemory' \in BOOLEAN, tookChatMemory => tookChatMemory',
         r.at # "port", Draws(r, j)'
  PROVE  EngineInv' /\ Holds
<1>1. /\ jobs' \in [Job -> JobRecord] /\ \A i \in Job : JobOK(jobs'[i])
      /\ OneWorker' /\ PortFree' /\ OwnEngine'
  BY WorkerStep
<1>2. j \in Pending'
  BY DEF Pending, AtWork, Launching, Drawing, EngineInv, EngineTypes
<1>3. NoOrphan'
  BY <1>2 DEF EngineInv, NoOrphan, Alive
<1>4. EngineTypes' /\ Holds
  BY <1>1 DEF EngineInv, EngineTypes, Holds
<1> QED
  BY <1>1, <1>3, <1>4 DEF EngineInv

LEMMA EnsureStep ==
  ASSUME EngineInv, RestTypes, NEW j \in Job, AtTurn(j), NEW job, JobOK(job), job.at # "over",
         job.model \in Model, job.plan \in Plan,
         NEW took \in BOOLEAN, tookChatMemory => took, ensure(j, job, took)
  PROVE  EngineInv' /\ Holds /\ crashedDuringJob' \in BOOLEAN
<1>1. CASE /\ Fitting(job) /\ ~job.cancelled
           /\ jobs' = [jobs EXCEPT ![j] = [job EXCEPT !.at = "submit", !.proc = child]]
           /\ tookChatMemory' = (took \/ job.evicted)
           /\ crashedDuringJob' = FALSE
           /\ UNCHANGED <<procs, child, loaded>>
  <2>0. PICK c : c = child
    OBVIOUS
  <2> DEFINE r == [job EXCEPT !.at = "submit", !.proc = c]
  <2>1. JobOK(r) /\ r.at = "submit" /\ r.proc = child /\ r.evicted = job.evicted
    BY <2>0 DEF JobOK, JobRecord, EngineInv, EngineTypes, AtWork, Drawing
  <2>2. job.evicted \in BOOLEAN
    BY DEF JobOK, JobRecord
  <2>3. Draws(r, j)'
    BY <1>1, <2>0, <2>1 DEF Draws
  <2>4. jobs' = [jobs EXCEPT ![j] = r]
    BY <1>1, <2>0
  <2>5. r.at \in AtWork
    BY <2>1 DEF AtWork, Drawing
  <2>6. loaded' \in Key /\ tookChatMemory' \in BOOLEAN /\ (tookChatMemory => tookChatMemory')
    BY <1>1, <2>2 DEF EngineInv, EngineTypes
  <2>7. procs' = procs /\ child' = child /\ crashedDuringJob' \in BOOLEAN /\ r.at # "port"
    BY <1>1, <2>1
  <2> HIDE DEF r
  <2> QED
    BY <2>1, <2>3, <2>4, <2>5, <2>6, <2>7, GoesOn
<1>2. CASE End(j, "cancelled", TRUE, loaded, took \/ job.evicted) /\ UNCHANGED crashedDuringJob
  <2>1. /\ job.evicted \in BOOLEAN /\ (took \/ job.evicted) \in BOOLEAN
        /\ loaded \in Key /\ "cancelled" \in Results
    BY DEF JobOK, JobRecord, EngineInv, EngineTypes, Results
  <2> DEFINE t == took \/ job.evicted
  <2>2. t \in BOOLEAN /\ (tookChatMemory => t) /\ End(j, "cancelled", TRUE, loaded, t)
    BY <1>2, <2>1
  <2> HIDE DEF t
  <2>3. EngineInv' /\ Holds
    BY <2>1, <2>2, EndStep
  <2> QED
    BY <1>2, <2>3 DEF RestTypes
<1>3. CASE Launch(j, job, took) /\ UNCHANGED crashedDuringJob
  BY <1>3, LaunchStep DEF RestTypes
<1> QED
  BY <1>1, <1>2, <1>3 DEF ensure

LEMMA FailsStep ==
  ASSUME EngineInv, NEW j \in Job, AtTurn(j), NEW res \in Results,
         Fails(j, res) \/ Refused(j, res)
  PROVE  EngineInv' /\ Holds
<1>1. loaded \in Key /\ tookChatMemory \in BOOLEAN
  BY DEF EngineInv, EngineTypes
<1> QED
  BY <1>1, EndStep DEF Fails, Refused

LEMMA CaughtStep ==
  ASSUME EngineInv, RestTypes, NEW j \in Job, AtTurn(j), jobs[j].at \in Drawing,
         NEW res \in Results, Caught(j, res)
  PROVE  EngineInv' /\ Holds /\ crashedDuringJob' \in BOOLEAN
<1>1. CASE Fails(j, "cancelled") /\ UNCHANGED crashedDuringJob
  BY <1>1, FailsStep DEF Results, RestTypes
<1>2. CASE Fails(j, "crash") /\ UNCHANGED crashedDuringJob
  BY <1>2, FailsStep DEF Results, RestTypes
<1>3. CASE Fails(j, res) /\ UNCHANGED crashedDuringJob
  BY <1>3, FailsStep DEF RestTypes
<1>4. CASE ensure(j, [jobs[j] EXCEPT !.attempt = 1, !.plan = "safe"], tookChatMemory)
  <2>1. PICK r : r = jobs[j]
    OBVIOUS
  <2> DEFINE job == [r EXCEPT !.attempt = 1, !.plan = "safe"]
  <2>2. JobOK(r) /\ tookChatMemory \in BOOLEAN /\ r.at \in Drawing
    BY <2>1 DEF EngineInv, EngineTypes
  <2>3. job \in JobRecord
    <3> DEFINE tried == [r EXCEPT !.attempt = 1]
    <3>1. tried \in JobRecord
      BY <2>2 DEF JobOK, JobRecord
    <3>2. job = [tried EXCEPT !.plan = "safe"]
      OBVIOUS
    <3> HIDE DEF tried, job
    <3> QED
      BY <3>1, <3>2 DEF JobRecord, Plan
  <2>4. job.at = r.at /\ job.model = r.model /\ job.plan = "safe"
    BY <2>2 DEF JobOK, JobRecord
  <2>5. JobOK(job) /\ job.at # "over" /\ job.model \in Model /\ job.plan \in Plan
    BY <2>2, <2>3, <2>4 DEF JobOK, Plan, Drawing
  <2>6. ensure(j, job, tookChatMemory)
    BY <1>4, <2>1
  <2> HIDE DEF job
  <2> QED
    BY <2>2, <2>5, <2>6, EnsureStep
<1> QED
  BY <1>1, <1>2, <1>3, <1>4 DEF Caught

-----------------------------------------------------------------------------
(* The actions.                                                            *)

\* Whoever is at work has its turn.
LEMMA WorkersTurn ==
  ASSUME EngineInv, NEW j \in Job, jobs[j].at \in AtWork
  PROVE  AtTurn(j) /\ JobOK(jobs[j]) /\ jobs[j].model \in Model
BY DEF EngineInv, EngineTypes, OneWorker, JobOK, AtWork, Launching, Drawing

\* A request that goes on to the await `at', with nothing else changed.
LEMMA MovesOn ==
  ASSUME EngineInv, NEW j \in Job, AtTurn(j), NEW at \in AtWork, at # "port",
         at \in Launching \cup Drawing => jobs[j].plan \in Plan,
         jobs[j].model \in Model,
         jobs' = [jobs EXCEPT ![j].at = at], KeepEngine,
         at \in Drawing => jobs[j].at \in Drawing,
         at \in {"asked", "poll"} => jobs[j].at \in {"asked", "poll"}
  PROVE  EngineInv' /\ Holds
<1>1. PICK r : r = [jobs[j] EXCEPT !.at = at]
  OBVIOUS
<1>2. PICK old : old = jobs[j]
  OBVIOUS
<1>3. JobOK(old) /\ Draws(old, j)
  BY <1>2 DEF EngineInv, EngineTypes, OwnEngine
<1>4. JobOK(r) /\ r.at = at /\ r.proc = old.proc /\ r.evicted = old.evicted
  BY <1>1, <1>2, <1>3 DEF JobOK, JobRecord, AtWork
<1>5. Draws(r, j)'
  BY <1>2, <1>3, <1>4 DEF Draws, KeepEngine
<1>6. jobs' = [jobs EXCEPT ![j] = r]
  BY <1>1
<1>7. loaded' \in Key /\ tookChatMemory' \in BOOLEAN /\ (tookChatMemory => tookChatMemory')
  BY DEF KeepEngine, EngineInv, EngineTypes
<1> QED
  BY <1>4, <1>5, <1>6, <1>7, GoesOn DEF KeepEngine

LEMMA GenerateStep ==
  ASSUME EngineInv, NEW j \in Job, Generate(j)
  PROVE  EngineInv' /\ Holds
<1>1. PICK m \in Model, stop \in BOOLEAN :
        jobs' = [jobs EXCEPT ![j].at = "queued", ![j].model = m, ![j].stopChat = stop]
  BY DEF Generate
<1>2. PICK old : old = jobs[j]
  OBVIOUS
<1>3. JobOK(old) /\ old.at = "new"
  BY <1>2 DEF EngineInv, EngineTypes, Generate
<1>4. PICK r : r = [old EXCEPT !.at = "queued", !.model = m, !.stopChat = stop]
  OBVIOUS
<1>5. JobOK(r) /\ r.at = "queued"
  <2>1. [old EXCEPT !.at = "queued"] \in JobRecord
    BY <1>3 DEF JobOK, JobRecord
  <2>2. [old EXCEPT !.at = "queued", !.model = m] \in JobRecord
    BY <2>1 DEF JobRecord
  <2>3. r \in JobRecord
    BY <1>4, <2>2 DEF JobRecord
  <2>4. r.at = "queued" /\ r.model = m
    BY <1>3, <1>4 DEF JobOK, JobRecord
  <2> QED
    BY <2>3, <2>4 DEF JobOK, Launching, Drawing
<1>6. jobs' = [jobs EXCEPT ![j] = r]
  BY <1>1, <1>2, <1>4
<1>7. jobs'[j] = r /\ \A i \in Job : i # j => jobs'[i] = jobs[i]
  BY <1>6 DEF EngineInv, EngineTypes
<1>8. UNCHANGED <<procs, child, loaded, tookChatMemory>>
  BY DEF Generate
<1>9. EngineTypes' /\ Holds
  BY <1>5, <1>7, <1>8, <1>6 DEF EngineInv, EngineTypes, Holds, JobOK
<1>10. NoOrphan'
  BY <1>5, <1>7, <1>8 DEF EngineInv, NoOrphan, Alive, Pending
<1>11. OneWorker'
  BY <1>2, <1>3, <1>5, <1>7
     DEF EngineInv, OneWorker, AtTurn, AtWork, Launching, Drawing
<1>12. PortFree' /\ OwnEngine'
  BY <1>5, <1>7, <1>8 DEF EngineInv, PortFree, OwnEngine, Draws, Drawing
<1> QED
  BY <1>9, <1>10, <1>11, <1>12 DEF EngineInv

LEMMA TurnStep ==
  ASSUME EngineInv, NEW j \in Job, Turn(j)
  PROVE  EngineInv' /\ Holds
<1>1. AtTurn(j) /\ jobs[j].model \in Model
  BY DEF Turn, AtTurn, EngineInv, EngineTypes, JobOK
<1>2. CASE Refused(j, "cancelled")
  BY <1>1, <1>2, FailsStep DEF Results
<1>3. CASE jobs' = [jobs EXCEPT ![j].at = "info"] /\ KeepEngine
  BY <1>1, <1>3, MovesOn DEF AtWork, Launching, Drawing
<1> QED
  BY <1>2, <1>3 DEF Turn

\* A request that was given a plan looks for its engine.
LEMMA PlanStep ==
  ASSUME EngineInv, RestTypes, NEW j \in Job, jobs[j].at \in {"info", "memory"},
         NEW plan \in Plan, NEW took \in BOOLEAN, tookChatMemory => took,
         \/ ensure(j, [jobs[j] EXCEPT !.plan = plan], took)
         \/ ensure(j, [jobs[j] EXCEPT !.plan = plan, !.evicted = TRUE], took)
  PROVE  EngineInv' /\ Holds /\ crashedDuringJob' \in BOOLEAN
<1>1. PICK old : old = jobs[j]
  OBVIOUS
<1>2. JobOK(old) /\ old.model \in Model /\ old.at \in {"info", "memory"} /\ AtTurn(j)
  BY <1>1, WorkersTurn DEF AtWork
<1>3. PICK planned : planned = [old EXCEPT !.plan = plan]
  OBVIOUS
<1>4. PICK evicting : evicting = [planned EXCEPT !.evicted = TRUE]
  OBVIOUS
<1>5. /\ planned \in JobRecord /\ planned.at = old.at /\ planned.model = old.model
      /\ planned.plan = plan
  BY <1>2, <1>3 DEF JobOK, JobRecord
<1>6. /\ evicting \in JobRecord /\ evicting.at = old.at /\ evicting.model = old.model
      /\ evicting.plan = plan
  BY <1>4, <1>5 DEF JobRecord
<1>7. evicting = [old EXCEPT !.plan = plan, !.evicted = TRUE]
  BY <1>3, <1>4
<1>8. ensure(j, planned, took) \/ ensure(j, evicting, took)
  BY <1>1, <1>3, <1>7
<1>9. JobOK(planned) /\ planned.at # "over" /\ JobOK(evicting) /\ evicting.at # "over"
  BY <1>2, <1>5, <1>6 DEF JobOK
<1> QED
  BY <1>2, <1>5, <1>6, <1>8, <1>9, EnsureStep

LEMMA InfoStep ==
  ASSUME EngineInv, RestTypes, NEW j \in Job, Info(j)
  PROVE  EngineInv' /\ Holds /\ crashedDuringJob' \in BOOLEAN
<1>1. /\ jobs[j].at = "info" /\ AtTurn(j) /\ JobOK(jobs[j]) /\ jobs[j].model \in Model
  BY WorkersTurn DEF Info, AtWork
<1>2. tookChatMemory \in BOOLEAN /\ loaded \in Key /\ crashedDuringJob \in BOOLEAN
  BY DEF EngineInv, EngineTypes, RestTypes
<1>3. CASE Refused(j, "missing") /\ UNCHANGED crashedDuringJob
  BY <1>1, <1>2, <1>3, FailsStep DEF Results
<1>4. CASE /\ child # NoProc /\ loaded.model = jobs[j].model
           /\ ensure(j, [jobs[j] EXCEPT !.plan = loaded.plan], tookChatMemory)
  <2>1. loaded.plan \in Plan
    BY <1>1, <1>2, <1>4, ConstantsAssumption DEF Key, NoKey
  <2>2. PICK plan \in Plan : plan = loaded.plan
    BY <2>1
  <2>3. ensure(j, [jobs[j] EXCEPT !.plan = plan], tookChatMemory)
    BY <1>4, <2>2
  <2> QED
    BY <1>1, <1>2, <2>3, PlanStep
<1>5. CASE /\ jobs' = [jobs EXCEPT ![j].at = "memory", ![j].evicted = jobs[j].stopChat]
           /\ tookChatMemory' = (tookChatMemory \/ jobs[j].stopChat)
           /\ UNCHANGED <<procs, child, loaded, crashedDuringJob>>
  <2>1. PICK old : old = jobs[j]
    OBVIOUS
  <2>2. PICK r : r = [old EXCEPT !.at = "memory", !.evicted = old.stopChat]
    OBVIOUS
  <2>3. JobOK(old) /\ old.stopChat \in BOOLEAN /\ old.model \in Model
    BY <1>1, <2>1 DEF JobOK, JobRecord
  <2>4. JobOK(r) /\ r.at = "memory"
    <3>1. [old EXCEPT !.at = "memory"] \in JobRecord
      BY <2>3 DEF JobOK, JobRecord, AtWork
    <3>2. r \in JobRecord
      BY <2>2, <2>3, <3>1 DEF JobRecord
    <3>3. r.at = "memory" /\ r.model = old.model
      BY <2>2, <2>3 DEF JobOK, JobRecord
    <3> QED
      BY <2>3, <3>2, <3>3 DEF JobOK, Launching, Drawing
  <2>5. jobs' = [jobs EXCEPT ![j] = r]
    BY <1>5, <2>1, <2>2
  <2>6. loaded' \in Key /\ tookChatMemory' \in BOOLEAN /\ (tookChatMemory => tookChatMemory')
    BY <1>2, <1>5, <2>1, <2>3
  <2>7. Draws(r, j)' /\ r.at \in AtWork
    BY <2>4 DEF Draws, Drawing, AtWork
  <2> QED
    BY <1>1, <1>2, <1>5, <2>4, <2>5, <2>6, <2>7, GoesOn
<1> QED
  BY <1>3, <1>4, <1>5 DEF Info

LEMMA MemoryStep ==
  ASSUME EngineInv, RestTypes, NEW j \in Job, Memory(j)
  PROVE  EngineInv' /\ Holds /\ crashedDuringJob' \in BOOLEAN
<1>1. jobs[j].at = "memory" /\ AtTurn(j)
  BY WorkersTurn DEF Memory, AtWork
<1>2. tookChatMemory \in BOOLEAN /\ crashedDuringJob \in BOOLEAN
  BY DEF EngineInv, EngineTypes, RestTypes
<1>3. CASE Refused(j, "no-memory") /\ UNCHANGED crashedDuringJob
  BY <1>1, <1>2, <1>3, FailsStep DEF Results
<1>4. CASE \E plan \in planMemory \ {"fail", "unload-chat"} :
             ensure(j, [jobs[j] EXCEPT !.plan = plan], tookChatMemory)
  BY <1>1, <1>2, <1>4, PlanStep DEF planMemory, Plan
<1>5. CASE \E plan \in {"gpu", "offload"} :
             ensure(j, [jobs[j] EXCEPT !.plan = plan, !.evicted = TRUE], TRUE)
  BY <1>1, <1>5, PlanStep DEF Plan
<1> QED
  BY <1>3, <1>4, <1>5 DEF Memory

LEMMA SpawnStep ==
  ASSUME EngineInv, NEW j \in Job, Spawn(j)
  PROVE  EngineInv' /\ Holds
<1>1. /\ jobs[j].at = "port" /\ AtTurn(j) /\ JobOK(jobs[j]) /\ jobs[j].model \in Model
      /\ jobs[j].plan \in Plan /\ child = NoProc
  BY WorkersTurn DEF Spawn, AtWork, Launching, JobOK, EngineInv, PortFree
<1>2. PICK p \in Proc :
        /\ procs' = [procs EXCEPT ![p].at = "starting"] /\ child' = p
        /\ jobs' = [jobs EXCEPT ![j].at = "loading", ![j].proc = p]
  BY DEF Spawn
<1>3. PICK old : old = jobs[j]
  OBVIOUS
<1>4. PICK r : r = [old EXCEPT !.at = "loading", !.proc = p]
  OBVIOUS
<1>5. JobOK(old) /\ old.model \in Model /\ old.plan \in Plan
  BY <1>1, <1>3
<1>6. JobOK(r) /\ r.at = "loading"
  <2>1. [old EXCEPT !.at = "loading"] \in JobRecord
    BY <1>5 DEF JobOK, JobRecord, AtWork, Launching
  <2>2. r \in JobRecord
    BY <1>4, <2>1 DEF JobRecord
  <2>3. r.at = "loading" /\ r.model = old.model /\ r.plan = old.plan
    BY <1>4, <1>5 DEF JobOK, JobRecord
  <2> QED
    BY <1>5, <2>2, <2>3 DEF JobOK
<1>7. jobs' = [jobs EXCEPT ![j] = r]
  BY <1>2, <1>3, <1>4
<1>8. UNCHANGED <<loaded, tookChatMemory>>
  BY DEF Spawn
<1>9. /\ jobs' \in [Job -> JobRecord] /\ \A i \in Job : JobOK(jobs'[i])
      /\ OneWorker' /\ PortFree' /\ OwnEngine'
  <2>1. Draws(r, j)' /\ r.at \in AtWork \cup {"over"}
    BY <1>6 DEF Draws, Drawing, AtWork, Launching
  <2> QED
    BY <1>1, <1>6, <1>7, <2>1, WorkerStep
<1>10. EngineTypes' /\ Holds
  <2>1. procs' \in [Proc -> ProcRecord]
    BY <1>2 DEF EngineInv, EngineTypes, ProcRecord
  <2> QED
    BY <1>2, <1>8, <1>9, <2>1 DEF EngineInv, EngineTypes, Holds
<1>11. NoOrphan'
  <2>1. \A q \in Proc : q # p => ~Alive(q)'
    BY <1>1, <1>2 DEF EngineInv, EngineTypes, NoOrphan, Alive, NoProc, Proc
  <2>2. j \in Pending'
    BY <1>6, <1>7 DEF Pending, EngineInv, EngineTypes
  <2> QED
    BY <1>2, <2>1, <2>2 DEF NoOrphan
<1> QED
  BY <1>9, <1>10, <1>11 DEF EngineInv

LEMMA LoadStep ==
  ASSUME EngineInv, RestTypes, NEW j \in Job, Load(j)
  PROVE  EngineInv' /\ Holds /\ crashedDuringJob' \in BOOLEAN
<1>1. /\ jobs[j].at = "loading" /\ AtTurn(j) /\ jobs[j].model \in Model
      /\ jobs[j].plan \in Plan
  BY WorkersTurn DEF Load, AtWork, Launching, JobOK
<1>2. crashedDuringJob' \in BOOLEAN
  BY DEF Load, LoadAnswered, NotLoaded, RestTypes
<1>3. CASE LoadAnswered(j)
  BY <1>1, <1>2, <1>3, MovesOn DEF LoadAnswered, AtWork, Launching, Drawing
<1>4. CASE Fails(j, "no-start")
  BY <1>1, <1>2, <1>4, FailsStep DEF Results
<1>5. CASE /\ jobs' = [jobs EXCEPT ![j] = [NewJob EXCEPT !.at = "over", !.result = "no-start"]]
           /\ stopSync
  <2> DEFINE r == [NewJob EXCEPT !.at = "over", !.result = "no-start"]
  <2>1. r.at = "over" /\ r \in JobRecord
    <3>1. NewJob \in JobRecord
      BY DEF JobRecord, NewJob
    <3> QED
      BY <3>1 DEF JobRecord, Results, NewJob
  <2>2. jobs' = [jobs EXCEPT ![j] = r]
    BY <1>5
  <2> HIDE DEF r
  <2>3. JobOK(r) /\ Draws(r, j)'
    BY <2>1 DEF JobOK, Draws, Drawing, Launching
  <2>4. /\ jobs' \in [Job -> JobRecord] /\ \A i \in Job : JobOK(jobs'[i])
        /\ OneWorker' /\ PortFree' /\ OwnEngine'
    BY <1>1, <2>1, <2>2, <2>3, WorkerStep
  <2>5. EngineTypes' /\ NoOrphan'
    BY <1>5, <2>4, KillEndsAll DEF stopSync, EngineInv, EngineTypes, Key
  <2>6. Holds
    BY <1>5, <2>1, <2>2 DEF Holds, stopSync, EngineInv, EngineTypes, PortFree
  <2> QED
    BY <1>2, <2>4, <2>5, <2>6 DEF EngineInv
<1> QED
  BY <1>3, <1>4, <1>5 DEF Load, NotLoaded

LEMMA LoadedStep ==
  ASSUME EngineInv, RestTypes, NEW j \in Job, Loaded(j)
  PROVE  EngineInv' /\ Holds /\ crashedDuringJob' \in BOOLEAN
<1>1. PICK old : old = jobs[j]
  OBVIOUS
<1>2. /\ AtTurn(j) /\ JobOK(old) /\ old.model \in Model /\ old.plan \in Plan
      /\ old.evicted \in BOOLEAN
  BY <1>1, WorkersTurn DEF Loaded, AtWork, Launching, JobOK, JobRecord
<1>3. PICK took : took = (tookChatMemory \/ old.evicted)
  OBVIOUS
<1>4. took \in BOOLEAN /\ (tookChatMemory => took) /\ (old.evicted => took)
  BY <1>2, <1>3 DEF EngineInv, EngineTypes
<1>5. KeyOf(jobs[j]) \in Key
  BY <1>1, <1>2 DEF KeyOf, Key
<1>6. CASE /\ jobs' = [jobs EXCEPT ![j].at = "submit", ![j].proc = child]
           /\ loaded' = KeyOf(jobs[j]) /\ tookChatMemory' = took
           /\ crashedDuringJob' = FALSE
           /\ UNCHANGED <<procs, child>>
  <2>1. PICK c : c = child
    OBVIOUS
  <2>2. PICK r : r = [old EXCEPT !.at = "submit", !.proc = c]
    OBVIOUS
  <2>3. [old EXCEPT !.at = "submit"] \in JobRecord
    BY <1>2 DEF JobOK, JobRecord, AtWork, Drawing
  <2>4. r \in JobRecord
    BY <2>1, <2>2, <2>3 DEF JobRecord, EngineInv, EngineTypes
  <2>5. /\ r.at = "submit" /\ r.proc = c /\ r.evicted = old.evicted /\ r.model = old.model
        /\ r.plan = old.plan
    BY <1>2, <2>2 DEF JobOK, JobRecord
  <2>6. JobOK(r) /\ r.at \in AtWork /\ r.at # "port"
    BY <1>2, <2>4, <2>5 DEF JobOK, AtWork, Drawing
  <2>7. Draws(r, j)'
    BY <1>4, <1>6, <2>1, <2>5 DEF Draws
  <2>8. jobs' = [jobs EXCEPT ![j] = r]
    BY <1>1, <1>6, <2>1, <2>2
  <2> QED
    BY <1>2, <1>4, <1>5, <1>6, <2>6, <2>7, <2>8, GoesOn
<1>7. CASE End(j, "cancelled", TRUE, KeyOf(jobs[j]), took) /\ UNCHANGED crashedDuringJob
  <2>1. PICK key \in Key : key = KeyOf(jobs[j])
    BY <1>5
  <2>2. "cancelled" \in Results /\ End(j, "cancelled", TRUE, key, took)
    BY <1>7, <2>1 DEF Results
  <2>3. EngineInv' /\ Holds
    BY <1>2, <1>4, <2>2, EndStep
  <2> QED
    BY <1>7, <2>3 DEF RestTypes
<1> QED
  BY <1>1, <1>3, <1>6, <1>7 DEF Loaded

\* A request that is posted, or was asked about, changes a process's job only.
LEMMA AtTheEngine ==
  ASSUME EngineInv, NEW j \in Job, AtTurn(j), jobs[j].at \in Drawing,
         NEW r, JobOK(r), r.at \in {"asked", "poll"}, r.proc = jobs[j].proc,
         r.evicted = jobs[j].evicted, jobs' = [jobs EXCEPT ![j] = r],
         procs' \in [Proc -> ProcRecord],
         \A p \in Proc : procs'[p].at = procs[p].at,
         child # NoProc => procs'[child].of = j,
         UNCHANGED <<child, loaded, tookChatMemory>>
  PROVE  EngineInv' /\ Holds
<1>1. Draws(r, j)' /\ r.at \in AtWork
  BY DEF Draws, EngineInv, OwnEngine, AtWork, Drawing
<1>2. /\ jobs' \in [Job -> JobRecord] /\ \A i \in Job : JobOK(jobs'[i])
      /\ OneWorker' /\ PortFree' /\ OwnEngine'
  BY <1>1, WorkerStep
<1>3. j \in Pending'
  BY DEF Pending, EngineInv, EngineTypes
<1>4. NoOrphan'
  BY <1>3 DEF EngineInv, NoOrphan, Alive
<1>5. EngineTypes' /\ Holds
  BY <1>2 DEF EngineInv, EngineTypes, Holds
<1> QED
  BY <1>2, <1>4, <1>5 DEF EngineInv

LEMMA SubmitStep ==
  ASSUME EngineInv, RestTypes, NEW j \in Job, Submit(j)
  PROVE  EngineInv' /\ Holds /\ crashedDuringJob' \in BOOLEAN
<1>1. PICK old : old = jobs[j]
  OBVIOUS
<1>2. /\ old.at = "submit" /\ AtTurn(j) /\ JobOK(old) /\ old.model \in Model
      /\ old.plan \in Plan /\ Draws(old, j) /\ old.cancelled \in BOOLEAN
  BY <1>1, WorkersTurn
     DEF Submit, AtWork, Drawing, JobOK, JobRecord, EngineInv, OwnEngine
<1>3. CASE Caught(j, "failed")
  BY <1>1, <1>2, <1>3, CaughtStep DEF Results, Drawing
<1>4. CASE Becomes(j, "gone")
  BY <1>1, <1>2, <1>4, MovesOn DEF Becomes, AtWork, Launching, Drawing, RestTypes
<1>5. ASSUME NEW p \in Proc, p = jobs[j].proc,
             jobs' = [jobs EXCEPT ![j].id = TRUE,
                                  ![j].at = IF jobs[j].cancelled THEN "asked" ELSE "poll"],
             procs' = [procs EXCEPT ![p].of = j, ![p].job = "waiting"],
             UNCHANGED <<child, loaded, tookChatMemory, crashedDuringJob>>
      PROVE  EngineInv' /\ Holds /\ crashedDuringJob' \in BOOLEAN
  <2>1. PICK at : at = IF old.cancelled THEN "asked" ELSE "poll"
    OBVIOUS
  <2>2. PICK r : r = [old EXCEPT !.id = TRUE, !.at = at]
    OBVIOUS
  <2>3. at \in {"asked", "poll"}
    BY <2>1
  <2>4. [old EXCEPT !.id = TRUE] \in JobRecord
    BY <1>2 DEF JobOK, JobRecord
  <2>5. r \in JobRecord
    BY <2>2, <2>3, <2>4 DEF JobRecord, AtWork, Drawing
  <2>6. /\ r.at = at /\ r.proc = old.proc /\ r.evicted = old.evicted /\ r.model = old.model
        /\ r.plan = old.plan
    BY <1>2, <2>2 DEF JobOK, JobRecord
  <2>7. JobOK(r) /\ r.at \in {"asked", "poll"}
    BY <1>2, <2>3, <2>5, <2>6 DEF JobOK
  <2>8. jobs' = [jobs EXCEPT ![j] = r]
    BY <1>1, <1>5, <2>1, <2>2
  <2>9. PICK q : q = procs[p]
    OBVIOUS
  <2>10. PICK posted : posted = [q EXCEPT !.of = j, !.job = "waiting"]
    OBVIOUS
  <2>11. posted \in ProcRecord /\ posted.at = q.at /\ posted.of = j
    <3>1. q \in ProcRecord
      BY <2>9 DEF EngineInv, EngineTypes
    <3>2. [q EXCEPT !.of = j] \in ProcRecord
      BY <3>1 DEF ProcRecord
    <3>3. posted \in ProcRecord
      BY <2>10, <3>2 DEF ProcRecord
    <3> QED
      BY <2>10, <3>1, <3>3 DEF ProcRecord
  <2>12. procs' = [procs EXCEPT ![p] = posted]
    BY <1>5, <2>9, <2>10
  <2>13. /\ procs' \in [Proc -> ProcRecord] /\ \A k \in Proc : procs'[k].at = procs[k].at
         /\ procs'[p].of = j
    BY <2>9, <2>11, <2>12 DEF EngineInv, EngineTypes
  <2>14. child # NoProc => child = p
    BY <1>1, <1>2, <1>5 DEF Draws, Drawing
  <2>15. jobs[j].at \in Drawing /\ r.proc = jobs[j].proc /\ r.evicted = jobs[j].evicted
    BY <1>1, <1>2, <2>6 DEF Drawing
  <2> QED
    BY <1>2, <1>5, <2>7, <2>8, <2>13, <2>14, <2>15, AtTheEngine, ZenonT(60) DEF RestTypes
<1>6. jobs[j].proc \in Proc \cup {NoProc}
  BY <1>1, <1>2 DEF JobOK, JobRecord
<1> QED
  BY <1>3, <1>4, <1>5, <1>6 DEF Submit

LEMMA AskedStep ==
  ASSUME EngineInv, NEW j \in Job, Asked(j)
  PROVE  EngineInv' /\ Holds
<1>1. PICK old : old = jobs[j]
  OBVIOUS
<1>2. /\ old.at = "asked" /\ AtTurn(j) /\ JobOK(old) /\ Draws(old, j)
      /\ old.proc \in Proc \cup {NoProc}
  BY <1>1, WorkersTurn DEF Asked, AtWork, Drawing, JobOK, JobRecord, EngineInv, OwnEngine
<1>3. PICK r : r = [old EXCEPT !.at = "poll"]
  OBVIOUS
<1>4. JobOK(r) /\ r.at = "poll" /\ r.proc = old.proc /\ r.evicted = old.evicted
  BY <1>2, <1>3 DEF JobOK, JobRecord, AtWork, Drawing
<1>5. jobs' = [jobs EXCEPT ![j] = r]
  BY <1>1, <1>3 DEF Asked
<1>6. /\ procs' \in [Proc -> ProcRecord]
      /\ \A p \in Proc : procs'[p].at = procs[p].at /\ procs'[p].of = procs[p].of
  BY DEF Asked, EngineInv, EngineTypes, ProcRecord
<1>7. child # NoProc => procs'[child].of = j
  BY <1>2, <1>6 DEF Draws, Drawing, EngineInv, EngineTypes
<1> QED
  BY <1>1, <1>2, <1>4, <1>5, <1>6, <1>7, AtTheEngine DEF Asked, Drawing

LEMMA PollStep ==
  ASSUME EngineInv, RestTypes, NEW j \in Job, Poll(j)
  PROVE  EngineInv' /\ Holds /\ crashedDuringJob' \in BOOLEAN
<1>1. /\ jobs[j].at = "poll" /\ AtTurn(j) /\ JobOK(jobs[j]) /\ jobs[j].model \in Model
      /\ jobs[j].plan \in Plan /\ jobs[j].at \in Drawing
  BY WorkersTurn DEF Poll, AtWork, Drawing, JobOK
<1>2. CASE \E res \in Results : Caught(j, res)
  BY <1>1, <1>2, CaughtStep
<1>3. CASE Becomes(j, "gone")
  BY <1>1, <1>3, MovesOn DEF Becomes, AtWork, Launching, Drawing, RestTypes
<1>4. CASE Fails(j, "image") /\ UNCHANGED crashedDuringJob
  BY <1>1, <1>4, FailsStep DEF Results, RestTypes
<1> QED
  BY <1>2, <1>3, <1>4 DEF Poll, Results

LEMMA GoneStep ==
  ASSUME EngineInv, RestTypes, NEW j \in Job, Gone(j)
  PROVE  EngineInv' /\ Holds /\ crashedDuringJob' \in BOOLEAN
<1>1. AtTurn(j) /\ jobs[j].at \in Drawing
  BY WorkersTurn DEF Gone, AtWork, Drawing
<1>2. Caught(j, "crash") \/ Caught(j, "failed")
  BY DEF Gone
<1> QED
  BY <1>1, <1>2, CaughtStep DEF Results

-----------------------------------------------------------------------------
(* The steps of everybody else.                                            *)

LEMMA CancelStep ==
  ASSUME EngineInv, NEW j \in Job, Cancel(j)
  PROVE  EngineInv' /\ Holds
<1>1. PICK old : old = jobs[j]
  OBVIOUS
<1>2. PICK r : r = [old EXCEPT !.cancelled = TRUE]
  OBVIOUS
<1>3. JobOK(old)
  BY <1>1 DEF EngineInv, EngineTypes
<1>4. /\ JobOK(r) /\ r.at = old.at /\ r.proc = old.proc /\ r.evicted = old.evicted
      /\ jobs' = [jobs EXCEPT ![j] = r]
  BY <1>1, <1>2, <1>3 DEF JobOK, JobRecord, Cancel
<1>5. /\ jobs'[j] = r /\ \A i \in Job : i # j => jobs'[i] = jobs[i]
      /\ UNCHANGED <<procs, child, loaded, tookChatMemory>>
  BY <1>4 DEF EngineInv, EngineTypes, Cancel, KeepEngine
<1>6. \A i \in Job : /\ jobs'[i].at = jobs[i].at /\ jobs'[i].proc = jobs[i].proc
                     /\ jobs'[i].evicted = jobs[i].evicted
  BY <1>1, <1>4, <1>5
<1>7. EngineTypes' /\ Holds
  BY <1>3, <1>4, <1>5 DEF EngineInv, EngineTypes, JobOK, Holds
<1>8. NoOrphan' /\ PortFree'
  BY <1>5, <1>6 DEF EngineInv, NoOrphan, Alive, Pending, PortFree
<1>9. OneWorker'
  BY <1>6 DEF EngineInv, OneWorker, AtTurn
<1>10. OwnEngine'
  BY <1>5, <1>6 DEF EngineInv, OwnEngine, Draws
<1> QED
  BY <1>7, <1>8, <1>9, <1>10 DEF EngineInv

\* Processes come up, end and work, but none starts to live and none changes hands.
LEMMA ProcsStep ==
  ASSUME EngineInv, UNCHANGED <<jobs, child, loaded, tookChatMemory>>,
         procs' \in [Proc -> ProcRecord],
         \A p \in Proc : procs'[p].of = procs[p].of /\ (Alive(p)' => Alive(p))
  PROVE  EngineInv' /\ Holds
<1>1. EngineTypes' /\ Holds
  BY DEF EngineInv, EngineTypes, Holds
<1>2. NoOrphan' /\ OneWorker' /\ PortFree'
  BY DEF EngineInv, NoOrphan, Pending, OneWorker, AtTurn, PortFree
<1>3. OwnEngine'
  BY DEF EngineInv, EngineTypes, OwnEngine, Draws
<1> QED
  BY <1>1, <1>2, <1>3 DEF EngineInv

LEMMA CancelAnsweredStep ==
  ASSUME EngineInv, NEW j \in Job, CancelAnswered(j)
  PROVE  EngineInv' /\ Holds
<1>1. CASE /\ child # NoProc
           /\ procs' = [procs EXCEPT ![child].job = "cancelled"]
           /\ UNCHANGED <<jobs, child, loaded, tookChatMemory>>
  <2>1. /\ procs' \in [Proc -> ProcRecord]
        /\ \A p \in Proc : procs'[p].of = procs[p].of /\ procs'[p].at = procs[p].at
    BY <1>1 DEF EngineInv, EngineTypes, ProcRecord
  <2> QED
    BY <1>1, <2>1, ProcsStep DEF Alive
<1>2. CASE stopSync /\ jobs' = jobs
  BY <1>2, StopStep
<1> QED
  BY <1>1, <1>2 DEF CancelAnswered

LEMMA ExitEventStep ==
  ASSUME EngineInv, NEW p \in Proc, ExitEvent(p)
  PROVE  EngineInv' /\ Holds
<1>1. /\ procs' \in [Proc -> ProcRecord] /\ procs'[p].at = "gone"
      /\ \A q \in Proc : q # p => procs'[q] = procs[q]
  <2>1. [NotSpawned EXCEPT !.at = "gone"] \in ProcRecord
    BY DEF NotSpawned, ProcRecord
  <2> QED
    BY <2>1 DEF ExitEvent, EngineInv, EngineTypes, NotSpawned
<1>2. UNCHANGED <<jobs, tookChatMemory>>
  BY DEF ExitEvent
<1>3. \/ child = p /\ child' = NoProc /\ loaded' = NoKey
      \/ child # p /\ UNCHANGED <<child, loaded>>
  BY DEF ExitEvent
<1>4. EngineTypes' /\ Holds
  BY <1>1, <1>2, <1>3 DEF EngineInv, EngineTypes, Key, Holds
<1>5. NoOrphan'
  BY <1>1, <1>2, <1>3 DEF EngineInv, NoOrphan, Pending, Alive
<1>6. OneWorker' /\ PortFree'
  BY <1>2, <1>3 DEF EngineInv, OneWorker, AtTurn, PortFree
<1>7. OwnEngine'
  BY <1>1, <1>2, <1>3 DEF EngineInv, EngineTypes, OwnEngine, Draws
<1> QED
  BY <1>4, <1>5, <1>6, <1>7 DEF EngineInv

LEMMA ServersStep ==
  ASSUME EngineInv, NEW p \in Proc, JobStep(p) \/ ServerStep(p)
  PROVE  EngineInv' /\ Holds
<1>1. UNCHANGED <<jobs, child, loaded, tookChatMemory>>
  BY DEF JobStep, ServerStep
<1>2. /\ procs' \in [Proc -> ProcRecord]
      /\ \A q \in Proc : procs'[q].of = procs[q].of /\ (Alive(q)' => Alive(q))
  <2>1. CASE JobStep(p)
    BY <2>1 DEF JobStep, EngineInv, EngineTypes, ProcRecord, Alive
  <2>2. CASE ServerStep(p)
    BY <2>2 DEF ServerStep, EngineInv, EngineTypes, ProcRecord, Alive
  <2> QED
    BY <2>1, <2>2
<1> QED
  BY <1>1, <1>2, ProcsStep

LEMMA NothingMoves ==
  ASSUME EngineInv, UNCHANGED <<jobs, procs, child, loaded, tookChatMemory>>
  PROVE  EngineInv' /\ Holds
BY ProcsStep DEF EngineInv, EngineTypes, Alive

-----------------------------------------------------------------------------
(* What the engine and its queue do not touch keeps its type.              *)
LEMMA RestStep ==
  ASSUME Inv, Next, crashedDuringJob' \in BOOLEAN
  PROVE  RestTypes'
<1> USE DEF Inv, RestTypes
<1>1. CASE UNCHANGED <<cancels, chat, chatStart>>
  BY <1>1
<1>2. CASE chat' \in {"out", "loaded"} /\ UNCHANGED <<cancels, chatStart>>
  BY <1>2
<1>3. ASSUME NEW j \in Job, NEW how \in {"asking", "told"},
             cancels' = [cancels EXCEPT ![j] = how], UNCHANGED <<chat, chatStart>>
      PROVE  RestTypes'
  BY <1>3
<1>4. CASE ChatAsks
  <2>1. Pending \subseteq Job
    BY DEF Pending
  <2> QED
    BY <1>4, <2>1, ConstantsAssumption DEF ChatAsks
<1>5. CASE yieldToChat \/ ChatLoads
  BY <1>5 DEF yieldToChat, ChatLoads
<1>6. ASSUME NEW j \in Job, Info(j) \/ Memory(j)
      PROVE  chat' \in {"out", "loaded"} /\ UNCHANGED <<cancels, chatStart>>
  BY <1>6 DEF Info, Memory
<1>7. ASSUME NEW j \in Job, Cancel(j) \/ CancelAnswered(j)
      PROVE  /\ UNCHANGED <<chat, chatStart>>
             /\ \E how \in {"asking", "told"} : cancels' = [cancels EXCEPT ![j] = how]
  BY <1>7 DEF Cancel, CancelAnswered
<1>8. ASSUME NEW j \in Job, \/ Generate(j) \/ Turn(j) \/ Spawn(j) \/ Load(j) \/ Loaded(j)
                            \/ Submit(j) \/ Asked(j) \/ Poll(j) \/ Gone(j)
      PROVE  UNCHANGED <<cancels, chat, chatStart>>
  BY <1>8 DEF Generate, Turn, Spawn, Load, Loaded, Submit, Asked, Poll, Gone, Elsewhere
<1>9. ASSUME NEW p \in Proc, ExitEvent(p) \/ JobStep(p) \/ ServerStep(p)
      PROVE  UNCHANGED <<cancels, chat, chatStart>>
  BY <1>9 DEF ExitEvent, JobStep, ServerStep, Elsewhere
<1>10. CASE Stop
  BY <1>10 DEF Stop, Elsewhere
<1> QED
  BY <1>1, <1>2, <1>3, <1>4, <1>5, <1>6, <1>7, <1>8, <1>9, <1>10 DEF Next, Work

-----------------------------------------------------------------------------
LEMMA InvInit ==
  ASSUME Init
  PROVE  Inv
<1>1. NewJob \in JobRecord /\ NewJob.at = "new"
  BY DEF NewJob, JobRecord
<1>2. NotSpawned \in ProcRecord /\ NotSpawned.at = "unused"
  BY DEF NotSpawned, ProcRecord
<1>3. \A j \in Job : jobs[j] = NewJob
  BY DEF Init
<1>4. EngineTypes
  BY <1>1, <1>2, <1>3 DEF Init, EngineTypes, JobOK, Key, Launching, Drawing
<1>5. RestTypes
  <2>1. MaxChats \in 0..MaxChats
    BY ConstantsAssumption
  <2>2. crashedDuringJob \in BOOLEAN /\ cancels \in [Job -> {"no", "asking", "told"}]
    BY DEF Init
  <2>3. chatStart \in [at : {"idle", "waiting", "starting"}, ahead : SUBSET Job, left : 0..MaxChats]
    BY <2>1 DEF Init
  <2> QED
    BY <2>2, <2>3 DEF Init, RestTypes
<1>6. NoOrphan
  BY <1>2 DEF Init, NoOrphan, Alive
<1>7. OneWorker /\ PortFree /\ OwnEngine
  BY <1>1, <1>3 DEF OneWorker, PortFree, OwnEngine, Draws, AtWork, Launching, Drawing
<1> QED
  BY <1>4, <1>5, <1>6, <1>7 DEF Inv, EngineInv

LEMMA InvNext ==
  ASSUME Inv, [Next]_vars
  PROVE  Inv' /\ Holds
<1> DEFINE Kept == EngineInv' /\ Holds /\ crashedDuringJob' \in BOOLEAN
<1>0. EngineInv /\ RestTypes /\ crashedDuringJob \in BOOLEAN
  BY DEF Inv, RestTypes
<1>1. ASSUME NEW j \in Job, Generate(j)  PROVE Kept
  BY <1>0, <1>1, GenerateStep DEF Generate
<1>2. ASSUME NEW j \in Job, Work(j)  PROVE Kept
  <2>1. CASE Turn(j)
    BY <1>0, <2>1, TurnStep DEF Turn
  <2>2. CASE Info(j)
    BY <1>0, <2>2, InfoStep
  <2>3. CASE Memory(j)
    BY <1>0, <2>3, MemoryStep
  <2>4. CASE Spawn(j)
    BY <1>0, <2>4, SpawnStep DEF Spawn
  <2>5. CASE Load(j)
    BY <1>0, <2>5, LoadStep
  <2>6. CASE Loaded(j)
    BY <1>0, <2>6, LoadedStep
  <2>7. CASE Submit(j)
    BY <1>0, <2>7, SubmitStep
  <2>8. CASE Asked(j)
    BY <1>0, <2>8, AskedStep DEF Asked
  <2>9. CASE Poll(j)
    BY <1>0, <2>9, PollStep
  <2>10. CASE Gone(j)
    BY <1>0, <2>10, GoneStep
  <2> QED
    BY <1>2, <2>1, <2>2, <2>3, <2>4, <2>5, <2>6, <2>7, <2>8, <2>9, <2>10 DEF Work
<1>3. ASSUME NEW j \in Job, Cancel(j)  PROVE Kept
  BY <1>0, <1>3, CancelStep DEF Cancel
<1>4. ASSUME NEW j \in Job, CancelAnswered(j)  PROVE Kept
  BY <1>0, <1>4, CancelAnsweredStep DEF CancelAnswered
<1>5. ASSUME NEW p \in Proc, ExitEvent(p)  PROVE Kept
  <2>1. crashedDuringJob' \in BOOLEAN
    BY <1>0, <1>5 DEF ExitEvent
  <2> QED
    BY <1>0, <1>5, <2>1, ExitEventStep
<1>6. ASSUME NEW p \in Proc, JobStep(p) \/ ServerStep(p)  PROVE Kept
  <2>1. crashedDuringJob' = crashedDuringJob
    BY <1>6 DEF JobStep, ServerStep
  <2> QED
    BY <1>0, <1>6, <2>1, ServersStep
<1>7. ASSUME Stop  PROVE Kept
  BY <1>0, <1>7, StopStep DEF Stop
<1>8. ASSUME yieldToChat  PROVE Kept
  BY <1>0, <1>8, StopStep DEF yieldToChat
<1>9. ASSUME ChatAsks \/ ChatLoads  PROVE Kept
  BY <1>0, <1>9, NothingMoves DEF ChatAsks, ChatLoads, KeepEngine
<1>10. CASE UNCHANGED vars
  <2>1. Kept
    BY <1>0, <1>10, NothingMoves DEF vars
  <2>2. RestTypes'
    BY <1>0, <1>10 DEF vars, RestTypes
  <2> QED
    BY <2>1, <2>2 DEF Inv
<1>11. CASE Next
  <2>1. Kept
    BY <1>1, <1>2, <1>3, <1>4, <1>5, <1>6, <1>7, <1>8, <1>9, <1>11 DEF Next
  <2> QED
    BY <1>11, <2>1, RestStep DEF Inv
<1> QED
  BY <1>10, <1>11

\* The inductive invariant of the image engine.
THEOREM Inductive == Spec => []Inv
BY InvInit, InvNext, PTL DEF Spec

-----------------------------------------------------------------------------
\* Every variable of sdServer.cjs and of its callers keeps its type.
THEOREM TypeCorrect == Spec => []TypeOK
<1>1. Inv => TypeOK
  BY DEF Inv, EngineInv, EngineTypes, RestTypes, TypeOK, JobRecord, ProcRecord, Key
<1> QED
  BY <1>1, Inductive, PTL

\* Of all sd-servers at most one is alive, and it is the one that stopSync
\* would kill; and once the queue is empty there is none (idle timeout 0).
THEOREM NoneOrphaned == Spec => []NoOrphan
<1>1. Inv => NoOrphan
  BY DEF Inv, EngineInv
<1> QED
  BY <1>1, Inductive, PTL

\* The job a request polls is its own, at the one engine there is.
THEOREM PictureIsOwn == Spec => []OwnPicture
<1>1. Inv => OwnPicture
  BY DEF Inv, EngineInv, OwnEngine, Draws, Drawing, OwnPicture
<1> QED
  BY <1>1, Inductive, PTL

\* While the engine of a request that pushed the chat model out draws,
\* tookChatMemory says so, and the next gguf:start waits.
THEOREM EvictionIsRemembered == Spec => []EvictionRemembered
<1>1. Inv => EvictionRemembered
  BY DEF Inv, EngineInv, OwnEngine, Draws, EvictionRemembered
<1> QED
  BY <1>1, Inductive, PTL

\* What was taken from the chat model is given back only by the step that
\* ends the engine, and never by one that replaces it (launch).
THEOREM HeldUntilStopped == Spec => HoldsUntilStopped
<1>1. Inv /\ [Next]_vars =>
        [tookChatMemory /\ ~tookChatMemory' =>
           /\ child # NoProc /\ child' = NoProc
           /\ \A j \in Job : jobs'[j].at # "port"]_vars
  BY InvNext DEF Holds
<1> QED
  BY <1>1, Inductive, PTL DEF Spec, HoldsUntilStopped

=============================================================================
