------------------------- MODULE ParallelCallsProofs -------------------------
(***************************************************************************)
(* Proofs about ParallelCalls for every number of calls and every width.   *)
(***************************************************************************)
EXTENDS ParallelCalls, FiniteSetTheorems, TLAPS

(* The initial state satisfies the inductive invariant (the top of         *)
(* runCalls: nothing was taken).                                           *)
LEMMA InitInv == Init => Inv
<1> SUFFICES ASSUME Init PROVE Inv
  OBVIOUS
<1>1. TypeOK
  <2>1. 1 \in 1..(N + 1)
    BY SizesAssumption
  <2> QED
    BY <2>1 DEF Init, TypeOK
<1>2. SettledBelow(at) /\ at \in 1..at
  BY DEF Init, SettledBelow, Call
<1>3. LoopInv
  BY <1>2 DEF LoopInv
<1>4. FailedInv
  BY DEF Init, FailedInv, Call
<1> QED
  BY <1>1, <1>3, <1>4 DEF Init, Inv, SerialInv, BatchInv, EndInv

(* Every step of runCalls, and every stop of the turn, preserves it. *)
LEMMA StepInv == Inv /\ [Next]_vars => Inv'
<1> SUFFICES ASSUME Inv, [Next]_vars PROVE Inv'
  OBVIOUS
<1> USE SizesAssumption DEF Inv, TypeOK, Call, Settled
<1>1. CASE Return
  <2>1. PICK k \in 1..at : SettledBelow(k) /\ (k = at \/ aborted)
    BY <1>1 DEF Return, LoopInv
  <2>2. k \in 1..(N + 1) /\ (k = N + 1 \/ aborted)
    BY <1>1, <2>1 DEF Return
  <2>3. SettledBelow(k)' /\ pc' = "returned" /\ aborted' = aborted
    BY <1>1, <2>1 DEF Return, SettledBelow
  <2>4. EndInv'
    BY <2>2, <2>3 DEF EndInv
  <2> QED
    BY <1>1, <2>3, <2>4 DEF Return, LoopInv, SerialInv, BatchInv, FailedInv
<1>2. CASE StartSerial
  <2>1. SettledBelow(at)
    BY <1>2 DEF StartSerial, LoopInv
  <2> QED
    BY <1>2, <2>1 DEF StartSerial, LoopInv, SerialInv, BatchInv, EndInv, FailedInv, SettledBelow
<1>3. CASE StartBatch
  <2>1. PICK e \in 2..(N + 1) :
          /\ EndsRun(at, e)
          /\ end' = e
          /\ next' = NextAfterStart(at, e)
          /\ st' = [c \in Call |-> IF c \in at..(NextAfterStart(at, e) - 1)
                                     THEN "running" ELSE st[c]]
    BY <1>3 DEF StartBatch
  <2>2. /\ at < next' /\ next' <= end' /\ end' \in 1..(N + 1)
        /\ at \in Call /\ next' \in 1..(N + 1)
    BY <1>3, <2>1 DEF StartBatch, EndsRun, NextAfterStart
  <2>3. SettledBelow(at)
    BY <1>3 DEF StartBatch, LoopInv
  <2>4. /\ pc' = "batch" /\ failed' = FALSE
        /\ UNCHANGED <<safe, at, aborted>>
    BY <1>3 DEF StartBatch
  <2>5. TypeOK'
    BY <2>1, <2>2, <2>4
  <2>6. BatchInv'
    <3>1. \A c \in Call : at <= c /\ c < end' => safe[c]
      BY <2>1 DEF EndsRun
    <3>2. st'[at] = "running"
      BY <2>1, <2>2
    <3>3. Running' # {}
      BY <2>2, <3>2 DEF Running
    <3> QED
      BY <2>1, <2>2, <2>3, <2>4, <3>1, <3>3 DEF BatchInv, SettledBelow
  <2>7. FailedInv'
    BY <1>3, <2>1, <2>2, <2>4 DEF StartBatch, FailedInv
  <2> QED
    BY <2>4, <2>5, <2>6, <2>7 DEF LoopInv, SerialInv, EndInv
<1>4. CASE EndBatch
  <2>1. SettledBelow(next)
    BY <1>4 DEF EndBatch, BatchInv, SettledBelow, Running
  <2>2. next \in 1..end /\ (next = end \/ aborted)
    BY <1>4 DEF EndBatch, BatchInv
  <2>3. SettledBelow(next)' /\ aborted' = aborted
    BY <1>4, <2>1 DEF EndBatch, SettledBelow
  <2>4. CASE failed
    <3>1. /\ pc' = "threw" /\ UNCHANGED <<safe, st, at, next, end, failed, aborted>>
      BY <1>4, <2>4 DEF EndBatch
    <3>2. EndInv'
      BY <2>2, <2>3, <3>1 DEF EndInv
    <3> QED
      BY <1>4, <2>4, <3>1, <3>2
      DEF EndBatch, LoopInv, SerialInv, BatchInv, FailedInv
  <2>5. CASE ~failed
    <3>1. /\ pc' = "loop" /\ at' = end
          /\ UNCHANGED <<safe, st, next, end, failed, aborted>>
      BY <1>4, <2>5 DEF EndBatch
    <3>2. LoopInv'
      BY <2>2, <2>3, <3>1 DEF LoopInv
    <3> QED
      BY <1>4, <2>5, <3>1, <3>2
      DEF EndBatch, SerialInv, BatchInv, EndInv, FailedInv
  <2> QED
    BY <2>4, <2>5
<1>5. ASSUME NEW c \in Call, SettleSerial(c) PROVE Inv'
  <2>1. c = at
    BY <1>5 DEF SettleSerial, SerialInv
  <2>2. CASE pc' = "loop"
    <3>1. /\ st' = [st EXCEPT ![at] = "done"] /\ at' = at + 1
          /\ pc = "serial" /\ UNCHANGED <<safe, next, end, failed, aborted>>
      BY <1>5, <2>1, <2>2 DEF SettleSerial
    <3>2. SettledBelow(at)' /\ at' \in 1..at'
      BY <3>1 DEF SerialInv, SettledBelow
    <3>3. LoopInv'
      BY <3>2 DEF LoopInv
    <3>4. FailedInv'
      BY <2>2, <3>1 DEF FailedInv, SerialInv
    <3>5. TypeOK'
      BY <2>2, <3>1 DEF SerialInv
    <3> QED
      BY <2>2, <3>3, <3>4, <3>5 DEF SerialInv, BatchInv, EndInv
  <2>3. CASE pc' = "threw"
    <3>1. /\ st' = [st EXCEPT ![at] = "failed"]
          /\ pc = "serial" /\ UNCHANGED <<safe, at, next, end, failed, aborted>>
      BY <1>5, <2>1, <2>3 DEF SettleSerial
    <3>2. PICK k \in 1..(N + 1) : k = at + 1
      BY <3>1 DEF SerialInv
    <3>3. EndInv'
      <4>1. SettledBelow(k)'
        BY <3>1, <3>2 DEF SerialInv, SettledBelow
      <4> QED
        BY <2>3, <4>1 DEF EndInv
    <3>4. FailedInv'
      BY <2>3, <3>1 DEF FailedInv, SerialInv
    <3>5. TypeOK'
      BY <2>3, <3>1 DEF SerialInv
    <3> QED
      BY <2>3, <3>3, <3>4, <3>5 DEF SerialInv, BatchInv, LoopInv
  <2> QED
    BY <1>5, <2>2, <2>3 DEF SettleSerial
<1>6. ASSUME NEW c \in Call, SettleBatch(c) PROVE Inv'
  <2>1. PICK outcome \in Settled :
          /\ failed' = (failed \/ outcome = "failed")
          /\ IF next < end /\ ~aborted
               THEN /\ st' = [st EXCEPT ![c] = outcome, ![next] = "running"]
                    /\ next' = next + 1
               ELSE /\ st' = [st EXCEPT ![c] = outcome]
                    /\ UNCHANGED next
    BY <1>6 DEF SettleBatch
  <2>2. /\ pc = "batch" /\ st[c] = "running" /\ c < next
        /\ UNCHANGED <<safe, at, end, pc, aborted>>
    BY <1>6 DEF SettleBatch, BatchInv
  <2>3. TypeOK'
    BY <2>1, <2>2 DEF BatchInv
  <2>4. BatchInv'
    <3>1. CASE next < end /\ ~aborted
      <4>1. st'[next] = "running" /\ next \in Call
        BY <2>1, <2>2, <3>1 DEF BatchInv
      <4>2. Running' # {}
        BY <4>1 DEF Running
      <4> QED
        BY <2>1, <2>2, <3>1, <4>1, <4>2 DEF BatchInv
    <3>2. CASE ~(next < end /\ ~aborted)
      BY <2>1, <2>2, <3>2 DEF BatchInv
    <3> QED
      BY <3>1, <3>2
  <2>5. FailedInv'
    <3>1. CASE outcome = "failed"
      <4>1. st'[c] = "failed" /\ failed'
        BY <2>1, <2>2, <3>1 DEF BatchInv
      <4> QED
        BY <2>2, <4>1 DEF FailedInv
    <3>2. CASE outcome # "failed"
      BY <2>1, <2>2, <3>2 DEF BatchInv, FailedInv
    <3> QED
      BY <3>1, <3>2
  <2> QED
    BY <2>2, <2>3, <2>4, <2>5 DEF LoopInv, SerialInv, EndInv
<1>7. CASE Abort
  BY <1>7 DEF Abort, LoopInv, SerialInv, BatchInv, EndInv, FailedInv, SettledBelow, Running
<1>8. CASE UNCHANGED vars
  BY <1>8 DEF vars, LoopInv, SerialInv, BatchInv, EndInv, FailedInv, SettledBelow, Running
<1> QED
  BY <1>1, <1>2, <1>3, <1>4, <1>5, <1>6, <1>7, <1>8 DEF Next, Loop, Settle

(* The inductive invariant holds throughout every execution of runCalls. *)
THEOREM Invariance == Spec => []Inv
  BY InitInv, StepInv, PTL DEF Spec

(* Type correctness of the model of runCalls. *)
THEOREM TypeCorrect == Spec => []TypeOK
<1>1. Inv => TypeOK
  BY DEF Inv
<1> QED
  BY Invariance, <1>1, PTL

(* The comment on runCalls, "a write is never reordered past a read": for  *)
(* any reply and any width, a started call has every earlier call it       *)
(* conflicts with behind it.                                               *)
THEOREM OrderIsKept == Spec => []OrderKept
<1>1. Inv => OrderKept
  BY SizesAssumption
  DEF Inv, TypeOK, LoopInv, SerialInv, BatchInv, EndInv, SettledBelow, OrderKept,
      Started, Settled, Call
<1> QED
  BY Invariance, <1>1, PTL

(* The calls that ran are the first ones of the reply. *)
THEOREM RanAPrefixAlways == Spec => []RanAPrefix
<1>1. Inv => RanAPrefix
  BY SizesAssumption
  DEF Inv, TypeOK, LoopInv, SerialInv, BatchInv, EndInv, SettledBelow, RanAPrefix,
      Started, Settled, Call
<1> QED
  BY Invariance, <1>1, PTL

(* An unstopped reply that returns has a result for every call: neither an *)
(* error nor an untaken call can hide behind a return.                     *)
THEOREM EveryCallAnswered == Spec => []AllAnswered
<1>1. Inv => AllAnswered
  BY SizesAssumption
  DEF Inv, TypeOK, EndInv, FailedInv, SettledBelow, AllAnswered, Settled, Call
<1> QED
  BY Invariance, <1>1, PTL

-----------------------------------------------------------------------------
(* The width of a batch: between at and next, never more than Width apart  *)
(* when it starts, and one call in for one call out afterwards.            *)
LEMMA StepWithinLimit ==
  ASSUME Inv, WithinLimit, [Next]_vars
  PROVE  WithinLimit'
<1> USE SizesAssumption DEF TypeOK, Inv, Call
<1>0. IsFiniteSet(Call) /\ Running \subseteq Call /\ IsFiniteSet(Running)
  BY FS_Interval, FS_Subset DEF Running
<1> SUFFICES Cardinality(Running') <= Width
  BY DEF WithinLimit
<1>a. Cardinality(Running) \in Nat /\ Cardinality(Running) <= Width
  BY <1>0, FS_CardinalityType DEF WithinLimit
<1>1. ASSUME Running' \subseteq Running PROVE Cardinality(Running') <= Width
  <2>1. IsFiniteSet(Running') /\ Cardinality(Running') <= Cardinality(Running)
    BY <1>0, <1>1, FS_Subset
  <2>2. Cardinality(Running') \in Nat
    BY <2>1, FS_CardinalityType
  <2> QED
    BY <1>a, <2>1, <2>2
<1>2. CASE StartSerial
  <2>1. \A c \in Call : st[c] # "running"
    BY <1>2 DEF StartSerial, LoopInv, SettledBelow, Settled
  <2>2. Running' = {at}
    BY <1>2, <2>1 DEF StartSerial, Running
  <2> QED
    <3>1. Cardinality({at}) = 1
      BY FS_Singleton
    <3> QED
      BY <2>2, <3>1
<1>3. CASE StartBatch
  <2>1. PICK e \in 2..(N + 1) :
          /\ EndsRun(at, e)
          /\ st' = [c \in Call |-> IF c \in at..(NextAfterStart(at, e) - 1)
                                     THEN "running" ELSE st[c]]
    BY <1>3 DEF StartBatch
  <2>2. \A c \in Call : st[c] # "running"
    BY <1>3 DEF StartBatch, LoopInv, SettledBelow, Settled
  <2>3. Running' \subseteq at..(NextAfterStart(at, e) - 1)
    BY <2>1, <2>2 DEF Running
  <2>4. /\ NextAfterStart(at, e) \in Int
        /\ NextAfterStart(at, e) > at /\ NextAfterStart(at, e) - at <= Width
    BY <1>3, <2>1 DEF NextAfterStart, EndsRun, StartBatch
  <2>5. /\ IsFiniteSet(at..(NextAfterStart(at, e) - 1))
        /\ Cardinality(at..(NextAfterStart(at, e) - 1)) <= Width
    <3> DEFINE last == NextAfterStart(at, e) - 1
    <3>1. at \in Int /\ last \in Int /\ last >= at /\ last - at + 1 <= Width
      BY <2>4
    <3> HIDE DEF last
    <3>2. IsFiniteSet(at..last) /\ Cardinality(at..last) = last - at + 1
      BY <3>1, FS_Interval
    <3>3. IsFiniteSet(at..last) /\ Cardinality(at..last) <= Width
      BY <3>1, <3>2
    <3> QED
      BY <3>3 DEF last
  <2>6. /\ IsFiniteSet(Running')
        /\ Cardinality(Running') <= Cardinality(at..(NextAfterStart(at, e) - 1))
    BY <2>3, <2>5, FS_Subset
  <2> QED
    <3>1. Cardinality(Running') \in Nat
      BY <2>6, FS_CardinalityType
    <3>2. Cardinality(at..(NextAfterStart(at, e) - 1)) \in Nat
      BY <2>5, FS_CardinalityType
    <3> QED
      BY <2>5, <2>6, <3>1, <3>2
<1>4. ASSUME NEW c \in Call, SettleSerial(c) PROVE Cardinality(Running') <= Width
  BY <1>1, <1>4 DEF SettleSerial, Running
<1>5. ASSUME NEW c \in Call, SettleBatch(c) PROVE Cardinality(Running') <= Width
  <2>1. c \in Running
    BY <1>5 DEF SettleBatch, Running
  <2>2. CASE next < end /\ ~aborted
    <3>1. Running' \subseteq (Running \ {c}) \cup {next}
      BY <1>5, <2>2 DEF SettleBatch, Settled, Running
    <3>2. /\ IsFiniteSet(Running \ {c})
          /\ Cardinality(Running \ {c}) = Cardinality(Running) - 1
      BY <1>0, <2>1, FS_RemoveElement
    <3>3. /\ IsFiniteSet((Running \ {c}) \cup {next})
          /\ Cardinality((Running \ {c}) \cup {next}) <= Cardinality(Running)
      <4>1. /\ IsFiniteSet((Running \ {c}) \cup {next})
            /\ \/ Cardinality((Running \ {c}) \cup {next}) = Cardinality(Running \ {c})
               \/ Cardinality((Running \ {c}) \cup {next})
                    = Cardinality(Running \ {c}) + 1
        BY <3>2, FS_AddElement
      <4> QED
        BY <1>a, <3>2, <4>1
    <3>4. /\ IsFiniteSet(Running')
          /\ Cardinality(Running') <= Cardinality((Running \ {c}) \cup {next})
      BY <3>1, <3>3, FS_Subset
    <3> QED
      <4>1. /\ Cardinality(Running') \in Nat
            /\ Cardinality((Running \ {c}) \cup {next}) \in Nat
        BY <3>3, <3>4, FS_CardinalityType
      <4> QED
        BY <1>a, <3>3, <3>4, <4>1
  <2>3. CASE ~(next < end /\ ~aborted)
    BY <1>1, <1>5, <2>3 DEF SettleBatch, Settled, Running
  <2> QED
    BY <2>2, <2>3
<1>6. CASE Return \/ EndBatch \/ Abort \/ UNCHANGED vars
  BY <1>1, <1>6 DEF Return, EndBatch, Abort, vars, Running
<1> QED
  BY <1>2, <1>3, <1>4, <1>5, <1>6 DEF Next, Loop, Settle

(* Whatever hands a worker on from call to call, no more than Width calls  *)
(* of a reply run at once (MAX_PARALLEL_TOOLS).                            *)
THEOREM AlwaysWithinLimit == Spec => []WithinLimit
<1>1. Init => WithinLimit
  <2> SUFFICES ASSUME Init PROVE WithinLimit
    OBVIOUS
  <2>1. Running = {}
    BY DEF Init, Running
  <2> QED
    BY <2>1, SizesAssumption, FS_EmptySet DEF WithinLimit
<1> QED
  BY Invariance, StepWithinLimit, <1>1, PTL DEF Spec

-----------------------------------------------------------------------------
(* The refinement, step by step: every step of runCalls is a step of what  *)
(* OrderedCalls allows, or changes nothing it speaks of.                   *)
LEMMA StepKeepsThePromise ==
  ASSUME Inv, Inv', WithinLimit', [Next]_vars
  PROVE  [Promise!Next]_(Promise!vars)
<1> USE SizesAssumption DEF TypeOK, Inv, Call, Promise!Call, Settled, Promise!Settled
<1>0. /\ Cardinality({c \in Call : st'[c] = "running"}) <= Width
      /\ st' \in [Call -> {"waiting", "running"} \cup Settled]
  BY DEF WithinLimit, Running
<1>a. ASSUME /\ pc \notin {"returned", "threw"} /\ pc' \notin {"returned", "threw"}
             /\ UNCHANGED <<safe, aborted>>
             /\ \A c \in Call :
                   /\ st'[c] = st[c] \/ <<st[c], st'[c]>> \in Promise!MayBecome
                   /\ st[c] = "waiting" /\ st'[c] = "running" => Promise!MayStart(c)
      PROVE  Promise!Next
  <2>1. Promise!Advance
    BY <1>0, <1>a DEF Promise!Advance, Promise!Cardinality, Cardinality
  <2> QED
    BY <2>1 DEF Promise!Next
<1>1. CASE Return
  <2>1. \A c \in Call : st[c] = "done" \/ (aborted /\ st[c] = "waiting")
    BY <1>1 DEF Return, LoopInv, FailedInv, SettledBelow
  <2> QED
    BY <1>1, <2>1 DEF Return, Promise!Next, Promise!Return
<1>2. CASE StartSerial
  <2>1. SettledBelow(at)
    BY <1>2 DEF StartSerial, LoopInv
  <2>2. \A c \in Call :
          /\ st'[c] = st[c] \/ <<st[c], st'[c]>> \in Promise!MayBecome
          /\ st[c] = "waiting" /\ st'[c] = "running" => Promise!MayStart(c)
    BY <1>2, <2>1 DEF StartSerial, SettledBelow, Promise!MayBecome, Promise!MayStart
  <2> QED
    BY <1>2, <1>a, <2>2 DEF StartSerial
<1>3. CASE StartBatch
  <2>1. SettledBelow(at)
    BY <1>3 DEF StartBatch, LoopInv
  <2>2. PICK e \in 2..(N + 1) :
          /\ EndsRun(at, e)
          /\ st' = [c \in Call |-> IF c \in at..(NextAfterStart(at, e) - 1)
                                     THEN "running" ELSE st[c]]
    BY <1>3 DEF StartBatch
  <2>3. NextAfterStart(at, e) <= e /\ NextAfterStart(at, e) \in Int
    BY <1>3, <2>2 DEF NextAfterStart, EndsRun, StartBatch
  <2>4. ASSUME NEW d \in Call, st[d] = "waiting", st'[d] = "running"
        PROVE  Promise!MayStart(d)
    <3>1. d \in at..(NextAfterStart(at, e) - 1)
      BY <2>2, <2>4
    <3>2. ASSUME NEW c \in Call, c < d
          PROVE  st'[c] # "waiting" /\ (~(safe[c] /\ safe[d]) => st'[c] \in Settled)
      <4>1. CASE c < at
        BY <2>1, <2>2, <4>1 DEF SettledBelow
      <4>2. CASE c >= at
        <5>1. safe[c] /\ safe[d] /\ st'[c] = "running"
          BY <2>2, <2>3, <3>1, <3>2, <4>2 DEF EndsRun
        <5> QED
          BY <5>1
      <4> QED
        BY <4>1, <4>2
    <3> QED
      BY <1>3, <3>2 DEF StartBatch, Promise!MayStart
  <2>5. \A c \in Call :
          st'[c] = st[c] \/ <<st[c], st'[c]>> \in Promise!MayBecome
    BY <2>1, <2>2, <1>3 DEF SettledBelow, Promise!MayBecome
  <2> QED
    BY <1>3, <1>a, <2>4, <2>5 DEF StartBatch
<1>4. CASE EndBatch
  <2>1. CASE failed
    <3>1. \E c \in Call : st[c] = "failed"
      BY <1>4, <2>1 DEF EndBatch, FailedInv
    <3>2. \A c \in Call : st'[c] # "running"
      BY <1>4 DEF EndBatch, Running
    <3> QED
      BY <1>4, <2>1, <3>1, <3>2 DEF EndBatch, Promise!Next, Promise!Throw
  <2>2. CASE ~failed
    BY <1>4, <2>2 DEF EndBatch, Promise!vars
  <2> QED
    BY <2>1, <2>2
<1>5. ASSUME NEW c \in Call, SettleSerial(c) PROVE Promise!Next
  <2>1. c = at /\ \A d \in Call : d # c => st[d] # "running"
    BY <1>5 DEF SettleSerial, SerialInv
  <2>2. CASE pc' = "loop"
    <3>1. st' = [st EXCEPT ![c] = "done"]
      BY <1>5, <2>2 DEF SettleSerial
    <3>2. \A d \in Call :
            /\ st'[d] = st[d] \/ <<st[d], st'[d]>> \in Promise!MayBecome
            /\ ~(st[d] = "waiting" /\ st'[d] = "running")
      BY <1>5, <3>1 DEF SettleSerial, Promise!MayBecome
    <3> QED
      BY <1>5, <1>a, <2>2, <3>2 DEF SettleSerial
  <2>3. CASE pc' = "threw"
    <3>1. st' = [st EXCEPT ![c] = "failed"]
      BY <1>5, <2>3 DEF SettleSerial
    <3>2. \A d \in Call :
            /\ st'[d] = st[d] \/ <<st[d], st'[d]>> \in Promise!MayBecome
            /\ st'[d] # "running"
      BY <1>5, <2>1, <3>1 DEF SettleSerial, Promise!MayBecome
    <3> QED
      BY <1>5, <2>3, <3>1, <3>2 DEF SettleSerial, Promise!Next, Promise!Throw
  <2> QED
    BY <1>5, <2>2, <2>3 DEF SettleSerial
<1>6. ASSUME NEW c \in Call, SettleBatch(c) PROVE Promise!Next
  <2>1. PICK outcome \in Settled :
          IF next < end /\ ~aborted
            THEN st' = [st EXCEPT ![c] = outcome, ![next] = "running"]
            ELSE st' = [st EXCEPT ![c] = outcome]
    BY <1>6 DEF SettleBatch
  <2>2. /\ pc = "batch" /\ st[c] = "running" /\ c < next
        /\ UNCHANGED <<safe, at, end, pc, aborted>>
    BY <1>6 DEF SettleBatch, BatchInv
  <2>3. ASSUME NEW d \in Call, st[d] = "waiting", st'[d] = "running"
        PROVE  Promise!MayStart(d)
    <3>1. d = next /\ next < end /\ ~aborted
      BY <2>1, <2>2, <2>3
    <3>2. ASSUME NEW b \in Call, b < d
          PROVE  st'[b] # "waiting" /\ (~(safe[b] /\ safe[d]) => st'[b] \in Settled)
      <4>1. CASE b < at
        BY <2>1, <2>2, <3>1, <4>1 DEF BatchInv
      <4>2. CASE b >= at
        <5>1. safe[b] /\ safe[d] /\ st[b] # "waiting"
          BY <2>2, <3>1, <3>2, <4>2 DEF BatchInv
        <5> QED
          BY <2>1, <2>2, <3>1, <3>2, <5>1
      <4> QED
        BY <4>1, <4>2
    <3> QED
      BY <3>1, <3>2 DEF Promise!MayStart
  <2>4. \A d \in Call :
          st'[d] = st[d] \/ <<st[d], st'[d]>> \in Promise!MayBecome
    BY <2>1, <2>2 DEF BatchInv, Promise!MayBecome
  <2> QED
    BY <1>a, <2>2, <2>3, <2>4
<1>7. CASE Abort
  BY <1>7 DEF Abort, Promise!Next, Promise!Abort
<1>8. CASE UNCHANGED vars
  BY <1>8 DEF vars, Promise!vars
<1> QED
  BY <1>1, <1>2, <1>3, <1>4, <1>5, <1>6, <1>7, <1>8 DEF Next, Loop, Settle

(* runCalls implements OrderedCalls for every reply and every width: no    *)
(* batch boundary, hand-over, stop or error of it can break the promise    *)
(* that module states.                                                     *)
THEOREM RunCallsKeepsThePromise == Spec => KeepsThePromise
<1>1. Init => Promise!Init
  BY DEF Init, Promise!Init, Call, Promise!Call
<1> QED
  BY Invariance, AlwaysWithinLimit, StepKeepsThePromise, <1>1, PTL
  DEF Spec, KeepsThePromise, Promise!Spec
=============================================================================
