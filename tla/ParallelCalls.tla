---------------------------- MODULE ParallelCalls ----------------------------
(***************************************************************************)
(* The execution of the tool calls of one model reply: runCalls in         *)
(* win/src/agent/parallelCalls.ts.  Each action is the code that runs      *)
(* between two awaits: the head of the while loop, the settling of the     *)
(* call a loop or a worker awaits, and the settling of Promise.all.        *)
(* Calls are numbered from 1, so `at' and `next' are one more than in the  *)
(* code and `end' is the index after the last call of the run.             *)
(***************************************************************************)
EXTENDS Integers, FiniteSets

CONSTANTS N,      \* calls in the reply
          Width   \* `limit', MAX_PARALLEL_TOOLS in the application

ASSUME SizesAssumption == N \in Nat \ {0} /\ Width \in Nat \ {0}

Call == 1..N

VARIABLES safe,     \* safe[c]: runsInParallel said the call may overlap
          st,       \* st[c]: what became of the call
          at,       \* the loop's position
          next,     \* the next call a worker of this run takes
          end,      \* where this run of parallel-safe calls ends
          pc,       \* where runCalls is
          failed,   \* `failure' is set
          aborted   \* the turn's signal, which stopped() reads

vars == <<safe, st, at, next, end, pc, failed, aborted>>

Settled == {"done", "failed"}
Running == {c \in Call : st[c] = "running"}
Started(c) == st[c] # "waiting"

TypeOK ==
  /\ safe \in [Call -> BOOLEAN]
  /\ st \in [Call -> {"waiting", "running", "done", "failed"}]
  /\ at \in 1..(N + 1) /\ next \in 1..(N + 1) /\ end \in 1..(N + 1)
  /\ pc \in {"loop", "serial", "batch", "returned", "threw"}
  /\ failed \in BOOLEAN /\ aborted \in BOOLEAN

Init ==
  /\ safe \in [Call -> BOOLEAN]
  /\ st = [c \in Call |-> "waiting"]
  /\ at = 1 /\ next = 1 /\ end = 1
  /\ pc = "loop" /\ failed = FALSE
  /\ aborted \in BOOLEAN

-----------------------------------------------------------------------------
(* Faulty variants of the definitions below.  No action uses them: each is *)
(* what a slip in the code would make of one definition, and shows that a  *)
(* property at the end of the module notices it.                           *)
SettleBatchUnstopped(c) ==
  /\ pc = "batch" /\ st[c] = "running"
  /\ \E outcome \in Settled :
        /\ failed' = (failed \/ outcome = "failed")
        /\ IF next < end
             THEN /\ st' = [st EXCEPT ![c] = outcome, ![next] = "running"]
                  /\ next' = next + 1
             ELSE /\ st' = [st EXCEPT ![c] = outcome]
                  /\ UNCHANGED next
  /\ UNCHANGED <<safe, at, end, pc, aborted>>

EndBatchWhenUsedUp ==
  /\ pc = "batch" /\ Running = {} /\ next = end
  /\ IF failed THEN pc' = "threw" /\ UNCHANGED at
               ELSE pc' = "loop" /\ at' = end
  /\ UNCHANGED <<safe, st, next, end, failed, aborted>>

-----------------------------------------------------------------------------
(* What `next' is once Array.from has made the workers of a run: each one  *)
(* takes a call and runs to its first await before the next one is made.   *)
NextAfterStart(first, e) ==
  IF e - first < Width THEN e ELSE first + Width

(* Where a run of parallel-safe calls that begins at `first' ends. *)
EndsRun(first, e) ==
  /\ e \in (first + 1)..(N + 1)
  /\ \A c \in first..(e - 1) : safe[c]
  /\ e <= N => ~safe[e]

(* The loop ends: every call was taken, or the turn was stopped. *)
Return ==
  /\ pc = "loop"
  /\ at > N \/ aborted
  /\ pc' = "returned"
  /\ UNCHANGED <<safe, st, at, next, end, failed, aborted>>

(* A call that may not overlap goes out alone. *)
StartSerial ==
  /\ pc = "loop" /\ at <= N /\ ~aborted
  /\ ~safe[at]
  /\ st' = [st EXCEPT ![at] = "running"]
  /\ pc' = "serial"
  /\ UNCHANGED <<safe, at, next, end, failed, aborted>>

(* A run of parallel-safe calls goes out, as many as there are workers. *)
StartBatch ==
  /\ pc = "loop" /\ at <= N /\ ~aborted
  /\ safe[at]
  /\ \E e \in 2..(N + 1) :
        /\ EndsRun(at, e)
        /\ end' = e
        /\ next' = NextAfterStart(at, e)
        /\ st' = [c \in Call |-> IF c \in at..(NextAfterStart(at, e) - 1)
                                   THEN "running" ELSE st[c]]
  /\ failed' = FALSE
  /\ pc' = "batch"
  /\ UNCHANGED <<safe, at, aborted>>

(* The call that went out alone settles; its error leaves runCalls at once. *)
SettleSerial(c) ==
  /\ pc = "serial" /\ st[c] = "running"
  /\ \/ /\ st' = [st EXCEPT ![c] = "done"]
        /\ at' = at + 1
        /\ pc' = "loop"
     \/ /\ st' = [st EXCEPT ![c] = "failed"]
        /\ pc' = "threw"
        /\ UNCHANGED at
  /\ UNCHANGED <<safe, next, end, failed, aborted>>

(* A worker's call settles.  The worker keeps the first error for later    *)
(* and takes the next call, unless the run is used up or the turn stopped. *)
SettleBatch(c) ==
  /\ pc = "batch" /\ st[c] = "running"
  /\ \E outcome \in Settled :
        /\ failed' = (failed \/ outcome = "failed")
        /\ IF next < end /\ ~aborted
             THEN /\ st' = [st EXCEPT ![c] = outcome, ![next] = "running"]
                  /\ next' = next + 1
             ELSE /\ st' = [st EXCEPT ![c] = outcome]
                  /\ UNCHANGED next
  /\ UNCHANGED <<safe, at, end, pc, aborted>>

(* Promise.all: every worker returned. *)
EndBatch ==
  /\ pc = "batch" /\ Running = {}
  /\ IF failed THEN pc' = "threw" /\ UNCHANGED at
               ELSE pc' = "loop" /\ at' = end
  /\ UNCHANGED <<safe, st, next, end, failed, aborted>>

(* The user stops the turn, at any moment.  (external) *)
Abort ==
  /\ ~aborted
  /\ aborted' = TRUE
  /\ UNCHANGED <<safe, st, at, next, end, pc, failed>>

Settle == \E c \in Call : SettleSerial(c) \/ SettleBatch(c)
Loop == Return \/ StartSerial \/ StartBatch \/ EndBatch
Next == Loop \/ Settle \/ Abort

(* The event loop runs what is due, and a tool's promise settles. *)
Fairness == WF_vars(Loop) /\ WF_vars(Settle)

Spec == Init /\ [][Next]_vars /\ Fairness

-----------------------------------------------------------------------------
(* "A write is never reordered past a read": once a call started, every    *)
(* earlier call that may not overlap with it has settled (runCalls).       *)
OrderKept ==
  \A c, d \in Call :
    c < d /\ Started(d) /\ ~(safe[c] /\ safe[d]) => st[c] \in Settled

(* The calls that ran are the first ones of the reply, whatever order they *)
(* finished in: the agent loop stops at the first undefined result and     *)
(* would drop the output of a tool that ran after it.                      *)
RanAPrefix == \A c, d \in Call : c < d /\ Started(d) => Started(c)

(* No more calls of a reply run at once than MAX_PARALLEL_TOOLS allows,    *)
(* through every hand-over of a worker from one call to the next.          *)
WithinLimit == Cardinality(Running) <= Width

(* An unstopped reply that returns has a result for every call. *)
AllAnswered ==
  pc = "returned" /\ ~aborted => \A c \in Call : st[c] = "done"

(* runCalls always comes back, whichever call settles first, also when the *)
(* stop arrives while workers are busy.                                    *)
ComesBack == <>(pc \in {"returned", "threw"})

(* runCalls keeps the promise of OrderedCalls: batches and workers are one *)
(* way of starting and settling calls in an allowed order.                 *)
Promise == INSTANCE OrderedCalls
             WITH outcome <- IF pc \in {"returned", "threw"} THEN pc ELSE "none"
KeepsThePromise == Promise!Spec

-----------------------------------------------------------------------------
(* The inductive invariant.  Outside a batch the settled calls are exactly *)
(* those below some k; k is `at' itself unless a stop cut a batch short.   *)
SettledBelow(k) ==
  \A c \in Call : IF c < k THEN st[c] \in Settled ELSE st[c] = "waiting"

LoopInv ==
  pc = "loop" => \E k \in 1..at : SettledBelow(k) /\ (k = at \/ aborted)

SerialInv ==
  pc = "serial" =>
    /\ at <= N /\ ~safe[at] /\ st[at] = "running"
    /\ \A c \in Call : /\ c < at => st[c] \in Settled
                       /\ c > at => st[c] = "waiting"

BatchInv ==
  pc = "batch" =>
    /\ at < next /\ next <= end
    /\ \A c \in Call :
          /\ c < at => st[c] \in Settled
          /\ at <= c /\ c < end => safe[c]
          /\ at <= c /\ c < next => st[c] # "waiting"
          /\ c >= next => st[c] = "waiting"
    /\ next < end /\ ~aborted => Running # {}

EndInv ==
  /\ pc = "returned" => \E k \in 1..(N + 1) : SettledBelow(k) /\ (k = N + 1 \/ aborted)
  /\ pc = "threw" => \E k \in 1..(N + 1) : SettledBelow(k)

(* A failed call is known as one until the error has left runCalls. *)
FailedInv ==
  (\E c \in Call : st[c] = "failed") <=> pc = "threw" \/ (pc = "batch" /\ failed)

(* What every step of runCalls preserves, and what the properties above    *)
(* follow from: where the loop stands says which calls settled.            *)
Inv ==
  /\ TypeOK
  /\ LoopInv /\ SerialInv /\ BatchInv /\ EndInv /\ FailedInv
=============================================================================
