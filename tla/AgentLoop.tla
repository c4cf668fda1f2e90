----------------------------- MODULE AgentLoop -----------------------------
(***************************************************************************)
(* One turn of the model: win/src/agent/agentLoop.ts, which asks the       *)
(* engine, runs the tools the reply calls and asks again, with the quiet   *)
(* retries of `run' in win/src/agent/taskManager.ts around it.  An action  *)
(* is what happens between two awaits.  Stopping is a signal that is       *)
(* looked at after most awaits, and that breaks off the request and a tool.*)
(***************************************************************************)
EXTENDS Integers, FiniteSets, Sequences, SequencesExt

CONSTANTS
  MaxLoops,    \* currentLimit()
  MaxCalls,    \* tool calls of one reply (a bound)
  MaxRetries,  \* QUIET_RETRIES
  Tool         \* "read", "act", and "quiet", which acts and leaves no step in the timeline

ASSUME BoundsAssumption ==
  MaxLoops \in Nat \ {0} /\ MaxCalls \in Nat \ {0} /\ MaxRetries \in Nat /\ Tool \subseteq {"read", "act", "quiet"}

VARIABLES
  turn,    \* how the model calls tools, what the workspace allows, whether a provider answers
  at,      \* the await the turn is in
  attempt, \* which attempt of `run' this is
  loops,   \* loopCount
  left,    \* what may still be asked for once: an answer, an action, a repair
  pass,    \* the reply, until its calls are back
  cut,     \* loopController was aborted because enough of the reply was there
  calls,   \* the tool calls of the reply, while they run
  open,    \* how many calls in the messages to the model have no result there
  reply,   \* what fullFinalTextContent, lastThought and lastToolResult are: not blank
  note,    \* a note the user types meanwhile
  wrote,   \* wroteAnything()
  did,     \* what there was in this attempt: a change, a thought, a result (an observer)
  grants,  \* tools the user has allowed for the task
  stopped, \* the signal: aborted by stop, or by something that replaced the turn
  ending   \* how runTurn ended

vars == <<turn, at, attempt, loops, left, pass, cut, calls, open, reply, note, wrote, did, grants,
          stopped, ending>>

Blank == [text |-> "none", call |-> "none", thought |-> FALSE]
Silence == [text |-> FALSE, thought |-> FALSE, result |-> FALSE]
Once == {"answer", "action", "repair"}

TypeOK ==
  /\ turn \in [native : BOOLEAN, remote : BOOLEAN, mode : {"ask", "auto", "plan"}, toolsBefore : BOOLEAN]
  /\ at \in {"head", "start", "request", "stream", "repair", "reparse", "tools", "closing", "threw",
             "delay", "over"}
  /\ attempt \in 1..MaxRetries + 1 /\ loops \in 0..MaxLoops /\ left \subseteq Once
  /\ pass \in [text : {"none", "announcement", "answer"}, thought : BOOLEAN,
               call : {"none", "mangled", "unread", "read"}]
  /\ cut \in BOOLEAN /\ open \in 0..MaxCalls
  /\ calls \in BoundedSeq([tool : Tool \cup {"unnamed"}, at : {"waiting", "asked", "running", "back"}], MaxCalls)
  /\ reply \in [text : BOOLEAN, thought : BOOLEAN, result : BOOLEAN]
  /\ note \in {"none", "typed", "taken", "lost"}
  /\ wrote \in BOOLEAN /\ did \subseteq {"change", "thought", "result"} /\ grants \subseteq Tool \cup {"unnamed"}
  /\ stopped \in {"no", "stop", "replaced"}
  /\ ending \in {"none", "done", "exhausted", "aborted", "abort", "transient", "failed"}

Init ==
  /\ turn \in [native : BOOLEAN, remote : BOOLEAN, mode : {"ask", "auto", "plan"}, toolsBefore : BOOLEAN]
  /\ at = "head" /\ attempt = 1 /\ loops = 0 /\ left = Once /\ pass = Blank /\ cut = FALSE
  /\ calls = <<>> /\ open = 0 /\ reply = Silence /\ note = "none" /\ wrote = FALSE /\ did = {}
  /\ grants = {} /\ stopped = "no" /\ ending = "none"

Aborted == stopped # "no"
Room == loops < MaxLoops
Over == at = "over"
Ends(how) == at' = "closing" /\ ending' = how
Throws(how) == at' = "threw" /\ ending' = how

-----------------------------------------------------------------------------
(* A pass: up to the request.                                              *)

\* the head of the loop; the user's notes are taken, which shows them
Pass ==
  /\ at = "head" /\ ~Aborted /\ Room
  /\ at' = "start" /\ loops' = loops + 1 /\ cut' = FALSE
  /\ IF note = "typed" THEN note' = "taken" /\ wrote' = TRUE ELSE UNCHANGED <<note, wrote>>
  /\ UNCHANGED <<turn, attempt, left, pass, calls, open, reply, did, grants, stopped, ending>>

NoPass ==
  /\ at = "head"
  /\ IF Aborted /\ Room THEN Ends("aborted") ELSE ~Room /\ Ends("exhausted")
  /\ UNCHANGED <<turn, attempt, loops, left, pass, cut, calls, open, reply, note, wrote, did, grants, stopped>>

\* takeInbox, isLoadedAt and gguf.start come back; a provider's model is not started
Started ==
  /\ at = "start"
  /\ \/ at' = "request" /\ UNCHANGED ending
     \/ ~turn.remote /\ \E how \in {"transient", "failed"} : Throws(how)
  /\ UNCHANGED <<turn, attempt, loops, left, pass, cut, calls, open, reply, note, wrote, did, grants, stopped>>

\* withRetries: the stream is open, or the last of its own attempts failed; a
\* request under an aborted signal is broken off, which nothing here catches
Requested ==
  /\ at = "request"
  /\ IF Aborted THEN Throws("abort")
     ELSE \/ at' = "stream" /\ UNCHANGED ending
          \/ \E how \in {"transient", "failed"} : Throws(how)
  /\ UNCHANGED <<turn, attempt, loops, left, pass, cut, calls, open, reply, note, wrote, did, grants, stopped>>

-----------------------------------------------------------------------------
(* The reply.                                                              *)

\* a call written as text may be tagged but unreadable, or not be found at all
Replies ==
  {p \in [text : {"none", "announcement", "answer"}, thought : BOOLEAN,
          call : {"none", "mangled", "unread", "read"}] :
     turn.native => p.call \in {"none", "read"}}

\* the call goes into the messages, and its results will follow it
Calls(tools) ==
  LET new == {[tool |-> tool, at |-> "waiting"] : tool \in tools}
  IN /\ calls' \in {s \in BoundedSeq(new, IF turn.native THEN MaxCalls ELSE 1) : s # <<>>}
     /\ open' = Len(calls')

\* a thought that is blank leaves the last one
KeepsThoughtOfPass(p) == reply' = [reply EXCEPT !.thought = p.thought]
KeepsThought(p) == reply' = [reply EXCEPT !.thought = @ \/ p.thought]

AsksOnce(what) == at' = "head" /\ left' = left \ {what} /\ UNCHANGED ending

\* a reply without a call: ask for an answer or for the action it announced, each
\* once, or take it
Taken(p) ==
  /\ UNCHANGED <<calls, open>>
  /\ IF p.text = "none" /\ "answer" \in left /\ Room /\ (p.thought \/ reply.result \/ turn.toolsBefore)
     THEN AsksOnce("answer") /\ KeepsThought(p)
     ELSE IF p.text = "announcement" /\ "action" \in left /\ Room
     THEN AsksOnce("action") /\ KeepsThought(p)
     ELSE /\ Ends("done") /\ UNCHANGED left
          /\ reply' = [reply EXCEPT !.thought = @ \/ p.thought, !.text = @ \/ p.text # "none"]

\* a call: one that could not be read is repaired once, and else called by no name
Acts(p) ==
  /\ KeepsThought(p) /\ UNCHANGED ending
  /\ IF p.call = "unread" /\ "repair" \in left /\ ~turn.remote
     THEN at' = "reparse" /\ left' = left \ {"repair"} /\ UNCHANGED <<calls, open>>
     ELSE at' = "tools" /\ UNCHANGED left /\ Calls(IF p.call = "unread" THEN {"unnamed"} ELSE Tool)

\* the stream is over, and so is the repair of a call that was not found: a stopped
\* turn keeps what was written
Follows(p) ==
  /\ did' = did \cup (IF p.thought THEN {"thought"} ELSE {})
  /\ IF Aborted
     THEN /\ Ends("aborted") /\ reply' = [reply EXCEPT !.text = @ \/ p.text # "none"]
          /\ UNCHANGED <<left, calls, open>>
     ELSE IF p.call \in {"unread", "read"} THEN Acts(p) ELSE Taken(p)

Keeps(p) == pass' = IF at' \in {"repair", "reparse", "tools"} THEN p ELSE Blank

\* Reading stops at a call that is found as text, and at text that repeats itself
\* (`cut', which is kept only where a repair follows); a stream that a stop breaks off
\* ends like one that is over.  What was written shows, though a native call alone only
\* until the next pass.
Streamed ==
  /\ at = "stream"
  /\ \/ \E p \in Replies :
          /\ cut' \in IF p.call \in {"mangled", "unread"} THEN BOOLEAN ELSE {FALSE}
          /\ wrote' = (wrote \/ p.text # "none" \/ (~turn.native /\ p.call \in {"unread", "read"}))
          /\ IF p.call = "mangled" /\ "repair" \in left /\ ~turn.remote
             THEN at' = "repair" /\ left' = left \ {"repair"} /\ UNCHANGED <<calls, open, reply, did, ending>>
             ELSE Follows(p)
          /\ Keeps(p)
     \/ /\ \E how \in {"transient", "failed"} : Throws(how)
        /\ \E partial \in BOOLEAN : wrote' = (wrote \/ partial)
        /\ UNCHANGED <<left, pass, cut, calls, open, reply, did>>
  /\ UNCHANGED <<turn, attempt, loops, note, grants, stopped>>

\* repairCall comes back: with a call, or as if nothing had been asked
Repaired ==
  /\ at = "repair"
  /\ \E call \in IF cut \/ Aborted THEN {"mangled"} ELSE {"mangled", "read"} :
       /\ wrote' = (wrote \/ call = "read")
       /\ Follows([pass EXCEPT !.call = call])
       /\ Keeps([pass EXCEPT !.call = call])
  /\ UNCHANGED <<turn, attempt, loops, cut, note, grants, stopped>>

\* and for a call that was found; after a stop it is not made at all
Reparsed ==
  /\ at = "reparse" /\ at' = "tools"
  /\ IF Aborted THEN UNCHANGED <<calls, open>>
     ELSE \E tools \in IF cut THEN {{"unnamed"}} ELSE {{"unnamed"}, Tool} : Calls(tools)
  /\ UNCHANGED <<turn, attempt, loops, left, pass, cut, reply, note, wrote, did, grants, stopped, ending>>

-----------------------------------------------------------------------------
(* runCalls and runGuardedTool.                                            *)

\* calls that only read go out together, anything else alone (ParallelCalls)
MayBegin(i) ==
  /\ at = "tools" /\ calls[i].at = "waiting"
  /\ \A j \in 1..i - 1 : calls[j].at = "back" \/ \A k \in j..i : calls[k].tool = "read"

Decide(tool) ==
  IF tool = "read" \/ turn.mode = "auto" \/ tool \in grants THEN "allow"
  ELSE IF turn.mode = "plan" THEN "deny" ELSE "ask"

Becomes(i, where) == calls' = [calls EXCEPT ![i].at = where]
Runs(i) ==
  /\ Becomes(i, "running")
  /\ did' = did \cup (IF calls[i].tool \in {"act", "quiet"} THEN {"change"} ELSE {})
  /\ wrote' = (wrote \/ calls[i].tool \in {"read", "act"})

BeginUnchecked(i) ==
  /\ MayBegin(i)
  /\ \/ Decide(calls[i].tool) = "allow" /\ Runs(i)
     \/ /\ Decide(calls[i].tool) # "allow"
        /\ Becomes(i, IF Decide(calls[i].tool) = "deny" THEN "back" ELSE "asked") /\ wrote' = TRUE /\ UNCHANGED did
  /\ UNCHANGED <<turn, at, attempt, loops, left, pass, cut, open, reply, note, grants, stopped, ending>>
Begin(i) ==
  /\ MayBegin(i) /\ ~Aborted
  /\ \/ Decide(calls[i].tool) = "allow" /\ Runs(i)
     \/ /\ Decide(calls[i].tool) # "allow"
        /\ Becomes(i, IF Decide(calls[i].tool) = "deny" THEN "back" ELSE "asked") /\ wrote' = TRUE /\ UNCHANGED did
  /\ UNCHANGED <<turn, at, attempt, loops, left, pass, cut, open, reply, note, grants, stopped, ending>>

\* the user's answer; stop has given it (refuseWaiting), what replaces a turn has not
Answers == IF stopped = "stop" THEN {"no"} ELSE {"no", "once", "task"}
Answered(i) ==
  /\ calls[i].at = "asked"
  /\ \E answer \in Answers :
       /\ IF answer = "no" THEN Becomes(i, "back") /\ UNCHANGED <<did, wrote>> ELSE Runs(i)
       /\ grants' = IF answer = "task" THEN grants \cup {calls[i].tool} ELSE grants
  /\ UNCHANGED <<turn, at, attempt, loops, left, pass, cut, open, reply, note, stopped, ending>>

\* a tool comes back, or a stop is not waiting for it (raceAbort)
ToolBack(i) ==
  /\ calls[i].at = "running" /\ Becomes(i, "back")
  /\ UNCHANGED <<turn, at, attempt, loops, left, pass, cut, open, reply, note, wrote, did, grants, stopped, ending>>

\* the results of those that are back; a stop waits for calls that were not begun
ResultsEarly ==
  /\ at = "tools"
  /\ \E i \in DOMAIN calls : calls[i].at = "back"
  /\ IF Aborted
     THEN /\ Ends("aborted") /\ UNCHANGED <<open, did>>
          /\ reply' = [reply EXCEPT !.text = @ \/ pass.text # "none"]
     ELSE /\ at' = "head" /\ UNCHANGED ending
          /\ open' = open - Cardinality({i \in DOMAIN calls : calls[i].at = "back"})
          /\ reply' = [reply EXCEPT !.result = TRUE] /\ did' = did \cup {"result"}
  /\ calls' = <<>> /\ pass' = Blank
  /\ UNCHANGED <<turn, attempt, loops, left, cut, note, wrote, grants, stopped>>
AllDone == \A i \in DOMAIN calls : calls[i].at = "back"

\* every call is back, or was not begun because of the stop
Done == \A i \in DOMAIN calls : calls[i].at = "back" \/ (Aborted /\ calls[i].at = "waiting")
Results ==
  /\ at = "tools" /\ Done
  /\ IF Aborted
     THEN /\ Ends("aborted") /\ UNCHANGED <<open, did>>
          /\ reply' = [reply EXCEPT !.text = @ \/ pass.text # "none"]
     ELSE /\ at' = "head" /\ open' = open - Len(calls) /\ UNCHANGED ending
          /\ reply' = [reply EXCEPT !.result = TRUE] /\ did' = did \cup {"result"}
  /\ calls' = <<>> /\ pass' = Blank
  /\ UNCHANGED <<turn, attempt, loops, left, cut, note, wrote, grants, stopped>>

-----------------------------------------------------------------------------
(* The end of the turn.                                                    *)

\* a research run is settled; a turn that was cut short says so, and a blank reply
\* is replaced by the last thought or result
Closed ==
  /\ at = "closing" /\ at' = "over"
  /\ ending' = IF Aborted THEN "aborted" ELSE ending
  /\ reply' = [reply EXCEPT !.text = \/ @ \/ ending = "exhausted"
                                     \/ ~Aborted /\ (reply.thought \/ reply.result)]
  /\ UNCHANGED <<turn, attempt, loops, left, pass, cut, calls, open, note, wrote, did, grants, stopped>>

\* `run': a turn that failed before it showed anything is tried again
RetriesWritten == ending = "transient" /\ attempt <= MaxRetries /\ ~Aborted
MayRetry == ending = "transient" /\ attempt <= MaxRetries /\ ~Aborted /\ ~wrote
Threw ==
  /\ at = "threw"
  /\ at' = IF MayRetry THEN "delay" ELSE "over"
  /\ UNCHANGED <<turn, attempt, loops, left, pass, cut, calls, open, reply, note, wrote, did, grants, stopped, ending>>

\* the delay is over, or was broken off: runAgentTurn from the start
Again ==
  /\ at = "delay" /\ at' = "head" /\ attempt' = attempt + 1
  /\ loops' = 0 /\ left' = Once /\ cut' = FALSE /\ calls' = <<>> /\ open' = 0
  /\ reply' = Silence /\ wrote' = FALSE /\ did' = {} /\ grants' = {} /\ ending' = "none"
  /\ note' = IF note = "taken" THEN "lost" ELSE note
  /\ UNCHANGED <<turn, pass, stopped>>

-----------------------------------------------------------------------------
(* The user.                                                               *)

Stop ==
  /\ ~Over /\ stopped' \in {"stop", "replaced"} /\ stopped # "stop" /\ stopped' # stopped
  /\ UNCHANGED <<turn, at, attempt, loops, left, pass, cut, calls, open, reply, note, wrote, did, grants, ending>>

Steer ==
  /\ ~Over /\ note = "none" /\ note' = "typed"
  /\ UNCHANGED <<turn, at, attempt, loops, left, pass, cut, calls, open, reply, wrote, did, grants, stopped, ending>>

\* one step of runTurn or of the retries around it; the tools and the user are asked apart
Step == Pass \/ NoPass \/ Started \/ Requested \/ Streamed \/ Repaired \/ Reparsed \/ Results
        \/ Closed \/ Threw \/ Again
Call(i) == Begin(i) \/ Answered(i) \/ ToolBack(i)

Next ==
  \/ Step
  \/ \E i \in DOMAIN calls : Call(i)
  \/ Stop \/ Steer

\* Every await of the loop has an end (the engine's and a tool's own timeouts, and the
\* signal), and so has every call once stop has answered what waits for the user.
CallStep(i) == i \in DOMAIN calls /\ (Begin(i) \/ ToolBack(i) \/ (stopped = "stop" /\ Answered(i)))
Fairness == WF_vars(Step) /\ \A i \in 1..MaxCalls : WF_vars(CallStep(i))

Spec == Init /\ [][Next]_vars /\ Fairness

-----------------------------------------------------------------------------
(* Properties.                                                             *)

\* Whatever the passes asked of the model, no request holds a call without its
\* result, which engines refuse.
RequestsWhole == at = "stream" => open = 0

\* A turn that nobody stopped says something if the model thought or a tool came
\* back at any time: no pass wipes what the fallback is built from.
NeverBlank ==
  at = "over" /\ ending \in {"done", "exhausted"} => reply.text \/ did \cap {"thought", "result"} = {}

\* "Once a tool has run, trying again would run it twice": no attempt is made after one
\* in which a tool changed something.
ToolsRunOnce == at = "delay" => "change" \notin did

\* Nor after one that took a note of the user's, which the next would not know of.
RetriesLoseNothing == ToolsRunOnce /\ note # "lost"

\* Once stop has answered what was asked, no tool begins and no request is answered.
StopIsFinal ==
  [][stopped = "stop" =>
       /\ at' = "stream" => at = "stream"
       /\ \A i \in DOMAIN calls' : calls'[i].at = "running" => calls[i].at = "running"]_vars

\* "A bad text call gets one repair with constrained decoding": when one is asked for in a
\* turn that nobody stopped, the request is not under a signal that is aborted already.
RepairReachesEngine == at \in {"repair", "reparse"} /\ ~Aborted => ~cut

\* A turn that is stopped ends, whatever it was waiting for.
StopEnds == stopped = "stop" ~> at = "over"
=============================================================================
