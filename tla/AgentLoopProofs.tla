-------------------------- MODULE AgentLoopProofs --------------------------
(***************************************************************************)
(* What holds of every turn, however many passes, calls and retries it may *)
(* have.                                                                   *)
(***************************************************************************)
EXTENDS AgentLoop, TLAPS

CallType(tools) == [tool : tools, at : {"waiting", "asked", "running", "back"}]
Named == Tool \cup {"unnamed"}

\* Sequences of calls, as functions.
LEMMA CallLists ==
  ASSUME NEW S, NEW n \in Nat, NEW s
  PROVE  s \in BoundedSeq(S, n) <=> \E m \in 0..n : s \in [1..m -> S]
BY DEF BoundedSeq, SeqOf

\* A function into a set is one into a larger set.
LEMMA WiderRange ==
  ASSUME NEW m \in Nat, NEW S, NEW T, S \subseteq T, NEW s \in [1..m -> S]
  PROVE  s \in [1..m -> T]
OBVIOUS

\* A function on 1..m has length m.
LEMMA Lengths ==
  ASSUME NEW m \in Nat, NEW S, NEW s \in [1..m -> S]
  PROVE  Len(s) = m /\ DOMAIN s = 1..m
<1>1. s \in Seq(S)
  OBVIOUS
<1> QED
  BY <1>1

\* A reply's calls come in as a list of waiting calls, each without a result yet.
LEMMA CallsTyped ==
  ASSUME BoundsAssumption, NEW tools \in SUBSET Named, Calls(tools)
  PROVE  /\ calls' \in BoundedSeq(CallType(Named), MaxCalls)
         /\ open' \in 0..MaxCalls /\ open' = Len(calls')
         /\ \A i \in DOMAIN calls' : calls'[i].at = "waiting"
<1> DEFINE new == {[tool |-> tool, at |-> "waiting"] : tool \in tools}
<1>1. PICK n \in {1, MaxCalls} : calls' \in BoundedSeq(new, n)
  BY DEF Calls
<1>2. n \in Nat /\ n <= MaxCalls /\ MaxCalls \in Nat
  BY DEF BoundsAssumption
<1>3. PICK m \in 0..n : calls' \in [1..m -> new]
  BY <1>1, <1>2, CallLists
<1>4. new \subseteq CallType(Named)
  BY DEF CallType
<1>5. m \in Nat /\ m \in 0..MaxCalls
  BY <1>2
<1>6. calls' \in [1..m -> CallType(Named)]
  <2> HIDE DEF new
  <2> QED BY <1>3, <1>4, <1>5, WiderRange
<1>7. calls' \in BoundedSeq(CallType(Named), MaxCalls)
  BY <1>2, <1>5, <1>6, CallLists
<1>8. Len(calls') = m /\ DOMAIN calls' = 1..m
  BY <1>5, <1>6, Lengths
<1>9. \A i \in DOMAIN calls' : calls'[i].at = "waiting"
  BY <1>3, <1>8
<1> QED
  BY <1>5, <1>7, <1>8, <1>9 DEF Calls

\* A call that moves on leaves the list as long as it was, and the others alone.
LEMMA BecomesTyped ==
  ASSUME BoundsAssumption, calls \in BoundedSeq(CallType(Named), MaxCalls), NEW i \in DOMAIN calls,
         NEW where \in {"waiting", "asked", "running", "back"}, Becomes(i, where)
  PROVE  /\ calls' \in BoundedSeq(CallType(Named), MaxCalls)
         /\ Len(calls') = Len(calls) /\ DOMAIN calls' = DOMAIN calls
         /\ \A j \in DOMAIN calls : calls'[j].at = IF j = i THEN where ELSE calls[j].at
<1>0. MaxCalls \in Nat
  BY DEF BoundsAssumption
<1>1. PICK m \in 0..MaxCalls : calls \in [1..m -> CallType(Named)]
  BY <1>0, CallLists
<1>2. calls' = [calls EXCEPT ![i] = [calls[i] EXCEPT !.at = where]]
  BY DEF Becomes
<1>3. [calls[i] EXCEPT !.at = where] \in CallType(Named)
  BY <1>1 DEF CallType
<1>4. calls' \in [1..m -> CallType(Named)]
  BY <1>1, <1>2, <1>3
<1>5. \A j \in DOMAIN calls : calls'[j].at = IF j = i THEN where ELSE calls[j].at
  BY <1>1, <1>2 DEF CallType
<1>6. m \in Nat
  BY <1>0
<1>7. /\ Len(calls) = m /\ DOMAIN calls = 1..m
      /\ Len(calls') = m /\ DOMAIN calls' = 1..m
  BY <1>1, <1>4, <1>6, Lengths
<1>8. calls' \in BoundedSeq(CallType(Named), MaxCalls)
  BY <1>0, <1>4, CallLists
<1> QED
  BY <1>5, <1>7, <1>8

\* No calls at all.
LEMMA NoCallsTyped ==
  ASSUME BoundsAssumption
  PROVE  <<>> \in BoundedSeq(CallType(Named), MaxCalls) /\ Len(<<>>) = 0
<1>1. MaxCalls \in Nat /\ 0 \in 0..MaxCalls
  BY DEF BoundsAssumption
<1>2. <<>> \in [1..0 -> CallType(Named)]
  OBVIOUS
<1> QED
  BY <1>1, <1>2, CallLists

-----------------------------------------------------------------------------
(* The inductive invariant.                                                *)

PassType == [text : {"none", "announcement", "answer"}, thought : BOOLEAN,
             call : {"none", "mangled", "unread", "read"}]
ReplyType == [text : BOOLEAN, thought : BOOLEAN, result : BOOLEAN]
Kinds == {"change", "thought", "result"}
Endings == {"none", "done", "exhausted", "aborted", "abort", "transient", "failed"}

\* Calls run only at the await of the tools, where each of them lacks its result, and
\* before it none does.
OnlyInTools == at # "tools" => calls = <<>>
OpenMatches ==
  /\ at = "tools" => open = Len(calls)
  /\ at \in {"head", "start", "request", "stream", "repair", "reparse"} => open = 0
\* What the fallback of a blank reply is built from is all there.
Remembers == ~Aborted => /\ "thought" \in did => reply.thought
                         /\ "result" \in did => reply.result
Thrown == at = "threw" => ending \in {"abort", "transient", "failed"}
\* What a retry would lose shows.
TakenShows == note = "taken" => wrote
ChangeShows == "quiet" \notin Tool /\ "change" \in did => wrote
Quiet == at = "delay" => ~wrote /\ attempt <= MaxRetries
NotLost == note # "lost"

LoopInv ==
  /\ TypeOK /\ OnlyInTools /\ OpenMatches
  /\ Remembers /\ NeverBlank /\ Thrown
  /\ TakenShows /\ ChangeShows /\ Quiet /\ NotLost

LEMMA LoopStarts ==
  ASSUME BoundsAssumption, Init
  PROVE  LoopInv
<1>1. TypeOK
  <2>1. calls \in BoundedSeq(CallType(Named), MaxCalls)
    BY NoCallsTyped DEF Init
  <2>2. /\ 1 \in 1..MaxRetries + 1 /\ 0 \in 0..MaxLoops /\ 0 \in 0..MaxCalls
    BY DEF BoundsAssumption
  <2> QED
    BY <2>1, <2>2 DEF Init, TypeOK, CallType, Named, Once, Blank, Silence
<1>2. OnlyInTools /\ OpenMatches /\ Remembers /\ NeverBlank /\ Thrown
  BY DEF Init, OnlyInTools, OpenMatches, Remembers, NeverBlank, Thrown
<1>3. TakenShows /\ ChangeShows /\ Quiet /\ NotLost
  BY DEF Init, TakenShows, ChangeShows, Quiet, NotLost
<1> QED
  BY <1>1, <1>2, <1>3 DEF LoopInv

\* Calls of the reply, in the terms of the invariant.
LEMMA CallsStart ==
  ASSUME BoundsAssumption, NEW tools \in {{"unnamed"}, Tool}, Calls(tools)
  PROVE  /\ calls' \in BoundedSeq(CallType(Named), MaxCalls)
         /\ open' \in 0..MaxCalls /\ open' = Len(calls')
         /\ \A i \in DOMAIN calls' : calls'[i].at = "waiting"
<1>1. tools \in SUBSET Named
  BY DEF Named
<1> QED
  BY <1>1, CallsTyped

\* What a finished reply leads to.
LEMMA FollowsKeeps ==
  ASSUME BoundsAssumption, LoopInv, at \in {"stream", "repair"}, NEW p \in PassType, Follows(p)
  PROVE  /\ at' \in {"head", "reparse", "tools", "closing"} /\ left' \subseteq Once
         /\ calls' \in BoundedSeq(CallType(Named), MaxCalls) /\ open' \in 0..MaxCalls
         /\ reply' \in ReplyType /\ did' \subseteq Kinds /\ ending' \in Endings
         /\ at' # "tools" => calls' = <<>>
         /\ at' = "tools" => open' = Len(calls')
         /\ at' \in {"head", "reparse"} => open' = 0
         /\ \A i \in DOMAIN calls' : calls'[i].at = "waiting"
         /\ ~Aborted => /\ "thought" \in did' => reply'.thought
                        /\ "result" \in did' => reply'.result
         /\ "change" \in did' => "change" \in did
<1>1. /\ left \subseteq Once /\ reply \in ReplyType /\ did \subseteq Kinds /\ ending \in Endings
      /\ open = 0 /\ calls = <<>>
  BY DEF LoopInv, TypeOK, OnlyInTools, OpenMatches, ReplyType, Kinds, Endings
<1>2. <<>> \in BoundedSeq(CallType(Named), MaxCalls) /\ 0 \in 0..MaxCalls
  BY NoCallsTyped DEF BoundsAssumption
<1>3. did' = did \cup (IF p.thought THEN {"thought"} ELSE {})
  BY DEF Follows
<1>4. did' \subseteq Kinds /\ ("change" \in did' => "change" \in did)
  BY <1>1, <1>3 DEF Kinds
<1>5. CASE Aborted
  <2>1. /\ at' = "closing" /\ ending' = "aborted" /\ left' = left /\ calls' = calls /\ open' = open
        /\ reply' = [reply EXCEPT !.text = @ \/ p.text # "none"]
    BY <1>5 DEF Follows, Ends
  <2>2. reply' \in ReplyType
    BY <1>1, <2>1 DEF ReplyType
  <2> QED
    BY <1>1, <1>2, <1>4, <1>5, <2>1, <2>2 DEF Endings
<1>6. CASE ~Aborted /\ Taken(p)
  <2>1. calls' = calls /\ open' = open /\ ending' \in Endings /\ left' \subseteq Once
        /\ at' \in {"head", "closing"}
    BY <1>1, <1>6 DEF Taken, AsksOnce, Ends, Endings, Once
  <2>2. reply' \in ReplyType /\ (p.thought => reply'.thought) /\ (reply.thought => reply'.thought)
        /\ reply'.result = reply.result
    BY <1>1, <1>6 DEF Taken, KeepsThought, ReplyType, PassType
  <2>3. /\ "thought" \in did' => reply'.thought
        /\ "result" \in did' => reply'.result
    BY <1>3, <1>6, <2>2 DEF LoopInv, Remembers
  <2> QED
    BY <1>1, <1>2, <1>4, <1>6, <2>1, <2>2, <2>3
<1>7. CASE ~Aborted /\ Acts(p)
  <2>1. reply' \in ReplyType /\ (p.thought => reply'.thought) /\ (reply.thought => reply'.thought)
        /\ reply'.result = reply.result /\ ending' = ending
    BY <1>1, <1>7 DEF Acts, KeepsThought, ReplyType, PassType
  <2>2. /\ "thought" \in did' => reply'.thought
        /\ "result" \in did' => reply'.result
    BY <1>3, <1>7, <2>1 DEF LoopInv, Remembers
  <2>3. CASE at' = "reparse" /\ left' = left \ {"repair"} /\ UNCHANGED <<calls, open>>
    BY <1>1, <1>2, <1>4, <2>1, <2>2, <2>3
  <2>4. CASE at' = "tools" /\ UNCHANGED left /\ Calls(IF p.call = "unread" THEN {"unnamed"} ELSE Tool)
    <3>1. PICK tools \in {{"unnamed"}, Tool} : Calls(tools)
      BY <2>4
    <3> QED
      BY <1>1, <1>4, <2>1, <2>2, <2>4, <3>1, CallsStart
  <2> QED
    BY <1>7, <2>3, <2>4 DEF Acts
<1> QED
  BY <1>5, <1>6, <1>7 DEF Follows

\* With what a finished reply leaves alone, that is the invariant again.
LEMMA FollowsInv ==
  ASSUME BoundsAssumption, LoopInv, at \in {"stream", "repair"}, NEW p \in PassType, Follows(p),
         UNCHANGED <<turn, attempt, loops, note, grants, stopped>>,
         pass' \in PassType, cut' \in BOOLEAN, wrote' \in BOOLEAN, wrote => wrote'
  PROVE  LoopInv'
<1>1. /\ at' \in {"head", "reparse", "tools", "closing"} /\ left' \subseteq Once
      /\ calls' \in BoundedSeq(CallType(Named), MaxCalls) /\ open' \in 0..MaxCalls
      /\ reply' \in ReplyType /\ did' \subseteq Kinds /\ ending' \in Endings
      /\ at' # "tools" => calls' = <<>>
      /\ at' = "tools" => open' = Len(calls')
      /\ at' \in {"head", "reparse"} => open' = 0
      /\ ~Aborted => /\ "thought" \in did' => reply'.thought
                     /\ "result" \in did' => reply'.result
      /\ "change" \in did' => "change" \in did
  BY FollowsKeeps
<1>2. TypeOK'
  BY <1>1 DEF LoopInv, TypeOK, PassType, ReplyType, Kinds, Endings, CallType, Named
<1>3. OnlyInTools' /\ OpenMatches' /\ NeverBlank' /\ Thrown' /\ Quiet'
  BY <1>1 DEF OnlyInTools, OpenMatches, NeverBlank, Thrown, Quiet
<1>4. Remembers' /\ TakenShows' /\ ChangeShows' /\ NotLost'
  BY <1>1 DEF LoopInv, Remembers, TakenShows, ChangeShows, NotLost, Aborted
<1> QED
  BY <1>2, <1>3, <1>4 DEF LoopInv

LEMMA StreamKeeps ==
  ASSUME BoundsAssumption, LoopInv, Streamed
  PROVE  LoopInv'
<1>1. at = "stream" /\ UNCHANGED <<turn, attempt, loops, note, grants, stopped>>
  BY DEF Streamed
<1>2. CASE \E p \in Replies :
             /\ cut' \in IF p.call \in {"mangled", "unread"} THEN BOOLEAN ELSE {FALSE}
             /\ wrote' = (wrote \/ p.text # "none" \/ (~turn.native /\ p.call \in {"unread", "read"}))
             /\ IF p.call = "mangled" /\ "repair" \in left /\ ~turn.remote
                THEN at' = "repair" /\ left' = left \ {"repair"} /\ UNCHANGED <<calls, open, reply, did, ending>>
                ELSE Follows(p)
             /\ Keeps(p)
  <2>1. PICK p \in Replies :
             /\ cut' \in IF p.call \in {"mangled", "unread"} THEN BOOLEAN ELSE {FALSE}
             /\ wrote' = (wrote \/ p.text # "none" \/ (~turn.native /\ p.call \in {"unread", "read"}))
             /\ IF p.call = "mangled" /\ "repair" \in left /\ ~turn.remote
                THEN at' = "repair" /\ left' = left \ {"repair"} /\ UNCHANGED <<calls, open, reply, did, ending>>
                ELSE Follows(p)
             /\ Keeps(p)
    BY <1>2
  <2>2. /\ p \in PassType /\ cut' \in BOOLEAN /\ wrote' \in BOOLEAN /\ (wrote => wrote')
        /\ pass' \in PassType
    BY <2>1 DEF Replies, PassType, Keeps, Blank, LoopInv, TypeOK
  <2>3. CASE at' = "repair" /\ left' = left \ {"repair"} /\ UNCHANGED <<calls, open, reply, did, ending>>
    BY <1>1, <2>2, <2>3
       DEF LoopInv, TypeOK, OnlyInTools, OpenMatches, Remembers, NeverBlank, Thrown, TakenShows,
           ChangeShows, Quiet, NotLost, PassType, Aborted
  <2>4. CASE Follows(p)
    BY <1>1, <2>2, <2>4, FollowsInv
  <2> QED
    BY <2>1, <2>3, <2>4
<1>3. CASE /\ \E how \in {"transient", "failed"} : Throws(how)
           /\ \E partial \in BOOLEAN : wrote' = (wrote \/ partial)
           /\ UNCHANGED <<left, pass, cut, calls, open, reply, did>>
  <2>1. at' = "threw" /\ ending' \in {"transient", "failed"} /\ wrote' \in BOOLEAN /\ (wrote => wrote')
    BY <1>3 DEF Throws, LoopInv, TypeOK
  <2> QED
    BY <1>1, <1>3, <2>1
       DEF LoopInv, TypeOK, OnlyInTools, OpenMatches, Remembers, NeverBlank, Thrown, TakenShows,
           ChangeShows, Quiet, NotLost, Aborted
<1> QED
  BY <1>2, <1>3 DEF Streamed

LEMMA RepairKeeps ==
  ASSUME BoundsAssumption, LoopInv, Repaired
  PROVE  LoopInv'
<1>1. at = "repair" /\ UNCHANGED <<turn, attempt, loops, cut, note, grants, stopped>>
  BY DEF Repaired
<1>2. PICK call \in {"mangled", "read"} :
        /\ wrote' = (wrote \/ call = "read")
        /\ Follows([pass EXCEPT !.call = call])
        /\ Keeps([pass EXCEPT !.call = call])
  BY DEF Repaired
<1>3. /\ [pass EXCEPT !.call = call] \in PassType /\ wrote' \in BOOLEAN /\ (wrote => wrote')
      /\ pass' \in PassType /\ cut' \in BOOLEAN
  BY <1>1, <1>2 DEF PassType, Keeps, Blank, LoopInv, TypeOK
<1> QED
  BY <1>1, <1>2, <1>3, FollowsInv

LEMMA ReparseKeeps ==
  ASSUME BoundsAssumption, LoopInv, Reparsed
  PROVE  LoopInv'
<1>1. /\ at = "reparse" /\ at' = "tools"
      /\ UNCHANGED <<turn, attempt, loops, left, pass, cut, reply, note, wrote, did, grants, stopped, ending>>
  BY DEF Reparsed
<1>2. /\ calls' \in BoundedSeq(CallType(Named), MaxCalls)
      /\ open' \in 0..MaxCalls /\ open' = Len(calls')
  <2>1. CASE Aborted
    BY <1>1, <2>1, NoCallsTyped
       DEF Reparsed, LoopInv, TypeOK, OnlyInTools, OpenMatches, CallType, Named
  <2>2. CASE ~Aborted
    <3>1. PICK tools \in {{"unnamed"}, Tool} : Calls(tools)
      BY <2>2 DEF Reparsed
    <3> QED
      BY <3>1, CallsStart
  <2> QED
    BY <2>1, <2>2
<1> QED
  BY <1>1, <1>2
     DEF LoopInv, TypeOK, OnlyInTools, OpenMatches, Remembers, NeverBlank, Thrown, TakenShows,
         ChangeShows, Quiet, NotLost, CallType, Named, Aborted

\* The steps between the replies.
LEMMA PlainStepsKeep ==
  ASSUME BoundsAssumption, LoopInv, Pass \/ NoPass \/ Started \/ Requested \/ Closed \/ Threw
  PROVE  LoopInv'
<1>1. CASE Pass
  <2>1. TypeOK'
    <3>1. loops' \in 0..MaxLoops
      BY <1>1 DEF Pass, Room, LoopInv, TypeOK, BoundsAssumption
    <3>2. note' \in {"none", "typed", "taken", "lost"} /\ wrote' \in BOOLEAN
      BY <1>1 DEF Pass, LoopInv, TypeOK
    <3>3. at' = "start" /\ cut' \in BOOLEAN
          /\ UNCHANGED <<turn, attempt, left, pass, calls, open, reply, did, grants, stopped, ending>>
      BY <1>1 DEF Pass
    <3> QED
      BY <3>1, <3>2, <3>3 DEF LoopInv, TypeOK
  <2> QED
    BY <1>1, <2>1 DEF Pass, LoopInv, OnlyInTools, OpenMatches, Remembers, NeverBlank, Thrown, TakenShows,
                      ChangeShows, Quiet, NotLost, Aborted
<1>2. CASE NoPass
  <2>1. TypeOK' /\ at' = "closing"
    BY <1>2 DEF NoPass, Ends, LoopInv, TypeOK
  <2> QED
    BY <1>2, <2>1 DEF NoPass, LoopInv, OnlyInTools, OpenMatches, Remembers, NeverBlank, Thrown, TakenShows,
                      ChangeShows, Quiet, NotLost, Aborted
<1>3. CASE Started \/ Requested
  <2>1. UNCHANGED <<turn, attempt, loops, left, pass, cut, calls, open, reply, note, wrote, did, grants, stopped>>
    BY <1>3 DEF Started, Requested
  <2>2. /\ at \in {"start", "request"} /\ at' \in {"request", "stream", "threw"} /\ ending' \in Endings
        /\ at' = "threw" => ending' \in {"abort", "transient", "failed"}
    <3>1. CASE Started
      BY <3>1 DEF Started, Throws, LoopInv, TypeOK, Endings
    <3>2. CASE Requested
      BY <3>2 DEF Requested, Throws, LoopInv, TypeOK, Endings
    <3> QED
      BY <1>3, <3>1, <3>2
  <2>3. TypeOK' /\ Thrown'
    BY <2>1, <2>2 DEF LoopInv, TypeOK, Thrown, Endings
  <2> QED
    BY <2>1, <2>2, <2>3 DEF LoopInv, OnlyInTools, OpenMatches, Remembers, NeverBlank, TakenShows,
                      ChangeShows, Quiet, NotLost, Aborted
<1>4. CASE Closed
  <2>1. TypeOK'
    <3>1. /\ at' = "over" /\ ending' \in Endings
          /\ UNCHANGED <<turn, attempt, loops, left, pass, cut, calls, open, note, wrote, did, grants, stopped>>
      BY <1>4 DEF Closed, LoopInv, TypeOK, Endings
    <3>2. reply' \in ReplyType
      BY <1>4 DEF Closed, LoopInv, TypeOK, ReplyType
    <3> QED
      BY <3>1, <3>2 DEF LoopInv, TypeOK, Endings, ReplyType
  <2>2. NeverBlank'
    <3>1. SUFFICES ASSUME ending' \in {"done", "exhausted"}, did' \cap {"thought", "result"} # {}
                   PROVE  reply'.text
      BY DEF NeverBlank
    <3>2. ~Aborted /\ did' = did
      BY <1>4, <3>1 DEF Closed
    <3>3. reply.thought \/ reply.result
      BY <3>1, <3>2 DEF LoopInv, Remembers
    <3> QED
      BY <1>4, <3>2, <3>3 DEF Closed, LoopInv, TypeOK
  <2>3. Remembers'
    BY <1>4 DEF Closed, LoopInv, TypeOK, Remembers, Aborted
  <2> QED
    BY <1>4, <2>1, <2>2, <2>3
       DEF Closed, LoopInv, OnlyInTools, OpenMatches, Thrown, TakenShows, ChangeShows, Quiet, NotLost
<1>5. CASE Threw
  <2>1. TypeOK' /\ at' \in {"delay", "over"} /\ Quiet'
    BY <1>5 DEF Threw, MayRetry, LoopInv, TypeOK, Quiet
  <2> QED
    BY <1>5, <2>1 DEF Threw, LoopInv, OnlyInTools, OpenMatches, Remembers, NeverBlank, Thrown, TakenShows,
                      ChangeShows, NotLost, Aborted
<1> QED
  BY <1>1, <1>2, <1>3, <1>4, <1>5

LEMMA AgainKeeps ==
  ASSUME BoundsAssumption, LoopInv, Again
  PROVE  LoopInv'
<1>1. note # "taken" /\ note' = note
  BY DEF Again, LoopInv, Quiet, TakenShows
<1>2. attempt + 1 \in 1..MaxRetries + 1 /\ 0 \in 0..MaxLoops /\ 0 \in 0..MaxCalls
  BY DEF Again, LoopInv, TypeOK, Quiet, BoundsAssumption
<1>3. calls' \in BoundedSeq(CallType(Named), MaxCalls)
  BY NoCallsTyped DEF Again
<1>4. TypeOK'
  <2>1. /\ at' = "head" /\ left' \subseteq Once /\ cut' \in BOOLEAN /\ wrote' \in BOOLEAN /\ did' \subseteq Kinds
        /\ grants' \subseteq Named /\ ending' = "none" /\ UNCHANGED <<turn, pass, stopped>>
    BY DEF Again
  <2>2. attempt' \in 1..MaxRetries + 1 /\ loops' \in 0..MaxLoops /\ open' \in 0..MaxCalls
    BY <1>2 DEF Again
  <2>3. reply' \in ReplyType
    BY DEF Again, Silence, ReplyType
  <2> QED
    BY <1>1, <1>3, <2>1, <2>2, <2>3 DEF LoopInv, TypeOK, CallType, Named, ReplyType, Kinds
<1> QED
  BY <1>1, <1>4 DEF Again, LoopInv, OnlyInTools, OpenMatches, Remembers, NeverBlank, Thrown, TakenShows,
                    ChangeShows, Quiet, NotLost, Aborted

\* A call that begins, is answered or comes back.
LEMMA CallKeeps ==
  ASSUME BoundsAssumption, LoopInv, NEW i \in DOMAIN calls, Call(i)
  PROVE  LoopInv'
<1>1. UNCHANGED <<turn, at, attempt, loops, left, pass, cut, open, reply, note, stopped, ending>>
  BY DEF Call, Begin, Answered, ToolBack
<1>2. PICK where \in {"waiting", "asked", "running", "back"} : Becomes(i, where)
  BY DEF Call, Begin, Answered, ToolBack, Runs
<1>3. calls \in BoundedSeq(CallType(Named), MaxCalls)
  BY DEF LoopInv, TypeOK, CallType, Named
<1>4. calls' \in BoundedSeq(CallType(Named), MaxCalls) /\ Len(calls') = Len(calls)
  BY <1>2, <1>3, BecomesTyped
<1>5. calls[i].tool \in Named
  <2>1. MaxCalls \in Nat
    BY DEF BoundsAssumption
  <2>2. PICK m \in 0..MaxCalls : calls \in [1..m -> CallType(Named)]
    BY <1>3, <2>1, CallLists
  <2> QED
    BY <2>2 DEF CallType
<1>6. /\ grants' \subseteq Named /\ did' \subseteq Kinds /\ wrote' \in BOOLEAN /\ (wrote => wrote')
      /\ did' \in {did, did \cup {"change"}}
      /\ "quiet" \notin Tool /\ did' # did => wrote'
  <2>1. grants' \in {grants, grants \cup {calls[i].tool}}
    <3>1. CASE Begin(i) \/ ToolBack(i)
      BY <3>1 DEF Begin, ToolBack
    <3>2. CASE Answered(i)
      BY <3>2 DEF Answered
    <3> QED
      BY <3>1, <3>2 DEF Call
  <2>2. \/ did' = did /\ wrote' \in {wrote, TRUE}
        \/ /\ did' = did \cup (IF calls[i].tool \in {"act", "quiet"} THEN {"change"} ELSE {})
           /\ wrote' = (wrote \/ calls[i].tool \in {"read", "act"})
    BY DEF Call, Begin, Answered, ToolBack, Runs
  <2>3. grants \subseteq Named /\ did \subseteq Kinds /\ wrote \in BOOLEAN
    BY DEF LoopInv, TypeOK, Named, Kinds
  <2>4. grants' \subseteq Named
    BY <1>5, <2>1, <2>3
  <2>5. "quiet" \notin Tool => calls[i].tool # "quiet"
    BY <1>5 DEF Named
  <2> QED
    BY <2>2, <2>3, <2>4, <2>5 DEF Kinds
<1>7. calls # <<>> /\ at = "tools"
  BY DEF LoopInv, OnlyInTools
<1>8. TypeOK'
  BY <1>1, <1>4, <1>6 DEF LoopInv, TypeOK, CallType, Named, Kinds
<1>9. OnlyInTools' /\ OpenMatches' /\ NeverBlank' /\ Thrown' /\ Quiet' /\ NotLost'
  BY <1>1, <1>4, <1>7 DEF LoopInv, OnlyInTools, OpenMatches, NeverBlank, Thrown, Quiet, NotLost
<1>10. Remembers' /\ TakenShows' /\ ChangeShows'
  BY <1>1, <1>6 DEF LoopInv, Remembers, TakenShows, ChangeShows, Aborted
<1> QED
  BY <1>8, <1>9, <1>10 DEF LoopInv

LEMMA ResultsKeep ==
  ASSUME BoundsAssumption, LoopInv, Results
  PROVE  LoopInv'
<1>1. calls' \in BoundedSeq(CallType(Named), MaxCalls) /\ calls' = <<>>
  BY NoCallsTyped DEF Results
<1>2. open = Len(calls) /\ open \in 0..MaxCalls /\ 0 \in 0..MaxCalls
  BY DEF Results, LoopInv, OpenMatches, TypeOK, BoundsAssumption
<1>3. pass' \in PassType
  BY DEF Results, PassType, Blank
<1>4. UNCHANGED <<turn, attempt, loops, left, cut, note, wrote, grants, stopped>>
  BY DEF Results
<1>5. CASE Aborted
  <2>1. /\ at' = "closing" /\ ending' = "aborted" /\ UNCHANGED <<open, did>> /\ reply' \in ReplyType
    BY <1>5, ZenonT(60) DEF Results, Ends, LoopInv, TypeOK, ReplyType
  <2>2. TypeOK'
    BY <1>1, <1>2, <1>3, <1>4, <2>1 DEF LoopInv, TypeOK, CallType, Named, PassType, ReplyType
  <2> QED
    BY <1>1, <1>4, <1>5, <2>1, <2>2
       DEF LoopInv, OnlyInTools, OpenMatches, Remembers, NeverBlank, Thrown, TakenShows, ChangeShows, Quiet,
           NotLost, Aborted
<1>6. CASE ~Aborted
  <2>1. /\ at' = "head" /\ open' = 0 /\ UNCHANGED ending
        /\ reply' = [reply EXCEPT !.result = TRUE] /\ did' = did \cup {"result"}
    BY <1>2, <1>6 DEF Results
  <2>2. TypeOK'
    <3>1. reply' \in ReplyType /\ did' \subseteq Kinds /\ open' \in 0..MaxCalls
      BY <1>2, <2>1 DEF LoopInv, TypeOK, ReplyType, Kinds
    <3> QED
      BY <1>1, <1>3, <1>4, <2>1, <3>1 DEF LoopInv, TypeOK, CallType, Named, PassType, ReplyType, Kinds
  <2>3. Remembers'
    BY <1>4, <2>1 DEF LoopInv, TypeOK, Remembers, Aborted
  <2> QED
    BY <1>1, <1>4, <2>1, <2>2, <2>3
       DEF LoopInv, OnlyInTools, OpenMatches, NeverBlank, Thrown, TakenShows, ChangeShows, Quiet, NotLost
<1> QED
  BY <1>5, <1>6

\* The user's part, and a step that changes nothing.
LEMMA UserKeeps ==
  ASSUME BoundsAssumption, LoopInv, Stop \/ Steer \/ UNCHANGED vars
  PROVE  LoopInv'
<1>1. CASE Stop
  BY <1>1 DEF Stop, Over, LoopInv, TypeOK, OnlyInTools, OpenMatches, Remembers, NeverBlank, Thrown, TakenShows,
              ChangeShows, Quiet, NotLost, Aborted
<1>2. CASE Steer
  BY <1>2 DEF Steer, Over, LoopInv, TypeOK, OnlyInTools, OpenMatches, Remembers, NeverBlank, Thrown, TakenShows,
              ChangeShows, Quiet, NotLost, Aborted
<1>3. CASE UNCHANGED vars
  BY <1>3 DEF vars, LoopInv, TypeOK, OnlyInTools, OpenMatches, Remembers, NeverBlank, Thrown, TakenShows,
              ChangeShows, Quiet, NotLost, Aborted
<1> QED
  BY <1>1, <1>2, <1>3

LEMMA LoopGoesOn ==
  ASSUME BoundsAssumption, LoopInv, [Next]_vars
  PROVE  LoopInv'
<1>1. CASE Step
  BY <1>1, PlainStepsKeep, StreamKeeps, RepairKeeps, ReparseKeeps, ResultsKeep, AgainKeeps DEF Step
<1>2. CASE \E i \in DOMAIN calls : Call(i)
  BY <1>2, CallKeeps
<1>3. CASE Stop \/ Steer \/ UNCHANGED vars
  BY <1>3, UserKeeps
<1> QED
  BY <1>1, <1>2, <1>3 DEF Next

\* A step that somebody's stop preceded asks nothing more and begins nothing more.
LEMMA StopStops ==
  ASSUME BoundsAssumption, LoopInv, [Next]_vars, stopped = "stop"
  PROVE  /\ at' = "stream" => at = "stream"
         /\ \A i \in DOMAIN calls' : calls'[i].at = "running" => calls[i].at = "running"
<1>1. Aborted
  BY DEF Aborted
<1>2. CASE Step
  <2>1. CASE Streamed \/ Repaired
    <3>1. at = "stream" \/ (at = "repair" /\ at' # "stream")
      BY <2>1, <1>1, FollowsKeeps DEF Streamed, Repaired, Follows, Ends
    <3>2. calls' = <<>>
      <4>1. calls = <<>> /\ calls' = calls
        BY <2>1, <1>1 DEF Streamed, Repaired, Follows, LoopInv, OnlyInTools
      <4> QED
        BY <4>1
    <3> QED
      BY <3>1, <3>2
  <2>2. CASE Pass \/ NoPass \/ Started \/ Requested \/ Closed \/ Threw
    BY <2>2, <1>1 DEF Pass, NoPass, Started, Requested, Closed, Threw, Ends, Throws
  <2>3. CASE Reparsed
    BY <2>3, <1>1 DEF Reparsed
  <2>4. CASE Results \/ Again
    BY <2>4, <1>1 DEF Results, Again, Ends
  <2> QED
    BY <1>2, <2>1, <2>2, <2>3, <2>4 DEF Step
<1>3. ASSUME NEW j \in DOMAIN calls, Call(j)
      PROVE  /\ at' = at /\ DOMAIN calls' = DOMAIN calls
             /\ \A i \in DOMAIN calls' : calls'[i].at = "running" => calls[i].at = "running"
  <2>1. at' = at
    BY <1>3 DEF Call, Begin, Answered, ToolBack
  <2>2. Becomes(j, "back")
    BY <1>1, <1>3 DEF Call, Begin, Answered, Answers, ToolBack
  <2>3. calls \in BoundedSeq(CallType(Named), MaxCalls)
    BY DEF LoopInv, TypeOK, CallType, Named
  <2>4. DOMAIN calls' = DOMAIN calls /\ \A k \in DOMAIN calls : calls'[k].at = IF k = j THEN "back" ELSE calls[k].at
    BY <1>3, <2>2, <2>3, BecomesTyped
  <2> QED
    BY <2>1, <2>4
<1>4. CASE Stop \/ Steer \/ UNCHANGED vars
  BY <1>4 DEF Stop, Steer, vars
<1> QED
  BY <1>2, <1>3, <1>4 DEF Next

-----------------------------------------------------------------------------
(* The theorems.                                                           *)

THEOREM Invariance == Spec => []LoopInv
<1>1. Init => LoopInv
  BY LoopStarts, BoundsAssumption
<1>2. LoopInv /\ [Next]_vars => LoopInv'
  BY LoopGoesOn, BoundsAssumption
<1> QED
  BY <1>1, <1>2, PTL DEF Spec

\* The variables of a turn keep to their types: no pass beyond currentLimit(), no
\* attempt beyond QUIET_RETRIES and no tool call beyond the reply's.
THEOREM TypeCorrect == Spec => []TypeOK
<1>1. LoopInv => TypeOK
  BY DEF LoopInv
<1> QED
  BY <1>1, Invariance, PTL

\* No request ever goes out with a call that has no result in the messages, after any
\* number of passes, repairs and stops.
THEOREM RequestsAreWhole == Spec => []RequestsWhole
<1>1. LoopInv => RequestsWhole
  BY DEF LoopInv, OpenMatches, RequestsWhole
<1> QED
  BY <1>1, Invariance, PTL

\* A turn that was let run is never blank where there was a thought or a result.
THEOREM TurnsSaySomething == Spec => []NeverBlank
<1>1. LoopInv => NeverBlank
  BY DEF LoopInv
<1> QED
  BY <1>1, Invariance, PTL

\* A quiet retry repeats no change and loses no note, as long as every tool that
\* changes something leaves a step in the timeline.
THEOREM RetriesAreQuiet == "quiet" \notin Tool => (Spec => []RetriesLoseNothing)
<1>1. "quiet" \notin Tool /\ LoopInv => RetriesLoseNothing
  BY DEF LoopInv, Quiet, ChangeShows, NotLost, RetriesLoseNothing, ToolsRunOnce
<1>2. SUFFICES ASSUME "quiet" \notin Tool
               PROVE  Spec => []RetriesLoseNothing
  OBVIOUS
<1>3. LoopInv => RetriesLoseNothing
  BY <1>1, <1>2
<1> QED
  BY <1>3, Invariance, PTL

\* After stop has answered what was asked, no tool begins and no request is answered.
THEOREM StopsAreFinal == Spec => StopIsFinal
<1> DEFINE Final == stopped = "stop" =>
                      /\ at' = "stream" => at = "stream"
                      /\ \A i \in DOMAIN calls' : calls'[i].at = "running" => calls[i].at = "running"
<1>1. LoopInv /\ [Next]_vars => [Final]_vars
  BY StopStops, BoundsAssumption
<1>2. Spec => [][Final]_vars
  <2> HIDE DEF Final
  <2> QED BY <1>1, Invariance, PTL DEF Spec
<1> QED
  BY <1>2 DEF StopIsFinal
=============================================================================
