------------------------ MODULE ChildProcessesProofs ------------------------
(***************************************************************************)
(* No process of the main process is out of reach, however many starts,    *)
(* commands, terminals and requests there are.  One component after the    *)
(* other: what it needs to be inductive, and that its steps keep that.     *)
(***************************************************************************)
EXTENDS ChildProcesses, FiniteSetTheorems, TLAPS

\* Nothing happens to a component but its own steps and the quit.
LEMMA OneAtWork ==
  ASSUME [Next]_vars
  PROVE  /\ \/ mcp!Works /\ down' = down
            \/ mcp!Shutdown
            \/ UNCHANGED <<mcpVars, down>>
         /\ \/ embedServer!Works /\ down' = down
            \/ embedServer!Shutdown
            \/ UNCHANGED <<embedVars, down>>
         /\ \/ commands!Works /\ down' = down
            \/ commands!Shutdown
            \/ UNCHANGED <<commandVars, down>>
         /\ \/ shellHost!Works /\ down' = down
            \/ shellHost!Shutdown
            \/ UNCHANGED <<shellVars, down>>
         /\ colibri!CNext \/ UNCHANGED colibriVars
         /\ llamaProcess!Next \/ UNCHANGED llamaVars
<1>1. CASE Shutdown
  BY <1>1 DEF Shutdown, engineVars, colibriVars, llamaVars
<1>2. CASE Works /\ UNCHANGED <<subject, down>>
  BY <1>2 DEF Works, engineVars
<1>3. CASE UNCHANGED vars
  BY <1>3 DEF vars, engineVars
<1> QED
  BY <1>1, <1>2, <1>3 DEF Next

-----------------------------------------------------------------------------
(* Terminals.                                                              *)

SessionType == [owner : AppWindow \cup {"none"}, at : {"none", "open", "closed"},
                child : {"none", "alive", "killed", "gone", "reaped"}]

ShellInv ==
  /\ sessions \in [Terminal -> SessionType] /\ windows \subseteq AppWindow
  /\ shellHost!TerminalsOwned
  /\ \A t \in Terminal : sessions[t].at = "open" => sessions[t].child # "reaped"

LEMMA ShellStarts ==
  ASSUME shellHost!Init
  PROVE  ShellInv
BY DEF shellHost!Init, shellHost!Unopened, ShellInv, SessionType, shellHost!TerminalsOwned

LEMMA CloseKills ==
  ASSUME ShellInv, NEW closing, shellHost!Close(closing)
  PROVE  /\ sessions' \in [Terminal -> SessionType]
         /\ \A t \in Terminal :
              /\ t \in closing => sessions'[t].at = "closed" /\ sessions'[t].child # "alive"
              /\ t \notin closing => sessions'[t] = sessions[t]
              /\ sessions'[t].child = "reaped" => sessions[t].child = "reaped"
BY DEF ShellInv, SessionType, shellHost!Close

LEMMA ShellKeeps ==
  ASSUME ShellInv, (shellHost!Works /\ down' = down) \/ shellHost!Shutdown \/ UNCHANGED <<shellVars, down>>
  PROVE  ShellInv'
<1> USE DEF shellHost!Open
<1>1. ASSUME NEW t \in Terminal, NEW w \in AppWindow, shellHost!open(t, w)
      PROVE  ShellInv'
  BY <1>1 DEF shellHost!open, ShellInv, SessionType, shellHost!TerminalsOwned
<1>2. ASSUME NEW t \in Terminal, shellHost!close(t)
      PROVE  ShellInv'
  <2>1. shellHost!Close({t}) /\ UNCHANGED <<windows, down>>
    BY <1>2 DEF shellHost!close
  <2> QED
    BY <2>1, CloseKills DEF ShellInv, shellHost!TerminalsOwned
<1>3. ASSUME NEW w \in AppWindow, shellHost!Destroyed(w)
      PROVE  ShellInv'
  <2>1. /\ shellHost!Close({t \in shellHost!Open : sessions[t].owner = w})
        /\ windows' = windows \ {w} /\ down' = down
    BY <1>3 DEF shellHost!Destroyed
  <2> QED
    BY <2>1, CloseKills DEF ShellInv, shellHost!TerminalsOwned
<1>4. ASSUME NEW t \in Terminal, shellHost!Ends(t) \/ shellHost!onExit(t)
      PROVE  ShellInv'
  BY <1>4 DEF shellHost!Ends, shellHost!onExit, ShellInv, SessionType, shellHost!TerminalsOwned
<1>5. CASE shellHost!Shutdown
  <2>1. shellHost!Close(shellHost!Open) /\ UNCHANGED windows
    BY <1>5 DEF shellHost!Shutdown
  <2> QED
    BY <2>1, CloseKills DEF ShellInv, shellHost!TerminalsOwned
<1>6. CASE UNCHANGED <<shellVars, down>>
  BY <1>6 DEF shellVars, ShellInv, shellHost!TerminalsOwned
<1> QED
  BY <1>1, <1>2, <1>3, <1>4, <1>5, <1>6 DEF shellHost!Works

LEMMA EndsHeard ==
  ASSUME ShellInv, (shellHost!Works /\ down' = down) \/ shellHost!Shutdown \/ UNCHANGED <<shellVars, down>>
  PROVE  \A t \in Terminal :
           /\ t \in told' \ told => t \in shellHost!Open /\ sessions[t].owner \in windows
           /\ t \in shellHost!Open /\ sessions'[t].child = "reaped" => t \in told' /\ t \notin shellHost!Open'
<1> USE DEF shellHost!Open
<1>1. ASSUME NEW t \in Terminal, NEW w \in AppWindow, shellHost!open(t, w)
      PROVE  told' = told /\ \A u \in shellHost!Open : sessions'[u] = sessions[u]
  BY <1>1 DEF shellHost!open, ShellInv
<1>2. ASSUME NEW closing, shellHost!Close(closing), told' = told
      PROVE  \A t \in Terminal :
               /\ t \in told' \ told => t \in shellHost!Open /\ sessions[t].owner \in windows
               /\ t \in shellHost!Open /\ sessions'[t].child = "reaped" => t \in told' /\ t \notin shellHost!Open'
  BY <1>2, CloseKills DEF ShellInv
<1>3. ASSUME NEW t \in Terminal, shellHost!close(t)
      PROVE  shellHost!Close({t}) /\ told' = told
  BY <1>3 DEF shellHost!close
<1>4. ASSUME NEW w \in AppWindow, shellHost!Destroyed(w)
      PROVE  shellHost!Close({t \in shellHost!Open : sessions[t].owner = w}) /\ told' = told
  BY <1>4 DEF shellHost!Destroyed
<1>5. CASE shellHost!Shutdown
  BY <1>2, <1>5 DEF shellHost!Shutdown
<1>6. ASSUME NEW t \in Terminal, shellHost!Ends(t)
      PROVE  told' = told /\ \A u \in shellHost!Open : sessions'[u].child # "reaped"
  BY <1>6 DEF shellHost!Ends, ShellInv, SessionType
<1>7. ASSUME NEW t \in Terminal, shellHost!onExit(t)
      PROVE  \A u \in Terminal :
               /\ u \in told' \ told => u \in shellHost!Open /\ sessions[u].owner \in windows
               /\ u \in shellHost!Open /\ sessions'[u].child = "reaped" => u \in told' /\ u \notin shellHost!Open'
  BY <1>7 DEF shellHost!onExit, ShellInv, SessionType
<1>8. CASE UNCHANGED <<shellVars, down>>
  BY <1>8 DEF shellVars, ShellInv
<1> QED
  BY <1>1, <1>2, <1>3, <1>4, <1>5, <1>6, <1>7, <1>8 DEF shellHost!Works, ShellInv

-----------------------------------------------------------------------------
(* The engine for large models.                                            *)

GatewayStates == {"none", "loading", "listening", "healthy", "unstartable", "dead", "exited", "killed", "reaped"}

ColibriInv ==
  /\ colibri!CTypeOK
  /\ \A s, t \in Attempt : colibri!Waiting(s) /\ colibri!Waiting(t) => s = t
  /\ \A s \in Attempt : largeStarts[s] = "port" => largeChild = 0
  /\ colibri!OneGateway

LEMMA ColibriStarts ==
  ASSUME BoundsAssumption, colibri!CInit
  PROVE  ColibriInv
BY DEF BoundsAssumption, colibri!CInit, ColibriInv, colibri!CTypeOK, colibri!Waiting, colibri!OneGateway,
       colibri!Running, colibri!NoGateway

LEMMA GatewayStops ==
  ASSUME BoundsAssumption, ColibriInv, colibri!stopSync
  PROVE  /\ largeChild' = 0 /\ gateway' \in [Attempt -> GatewayStates]
         /\ \A s \in Attempt : ~colibri!Running(s)'
BY DEF BoundsAssumption, ColibriInv, colibri!CTypeOK, colibri!stopSync, colibri!Killed, colibri!NoGateway,
       colibri!OneGateway, colibri!Running, GatewayStates

LEMMA ColibriKeeps ==
  ASSUME BoundsAssumption, ColibriInv, colibri!CNext \/ UNCHANGED colibriVars
  PROVE  ColibriInv'
<1>0. 0 \notin Attempt
  BY DEF BoundsAssumption
<1>1. ASSUME NEW s \in Attempt, colibri!MayStart, colibri!start(s)
      PROVE  ColibriInv'
  <2>1. PICK at \in {"port", "engine-missing"} : largeStarts' = [largeStarts EXCEPT ![s] = at]
    BY <1>1 DEF colibri!start, colibri!Become
  <2>2. /\ largeChild' = 0 /\ gateway' \in [Attempt -> GatewayStates]
        /\ \A t \in Attempt : ~colibri!Running(t)'
    BY <1>1, GatewayStops DEF colibri!start
  <2>3. \A t \in Attempt : ~colibri!Waiting(t)
    BY <1>1 DEF colibri!MayStart
  <2>4. colibri!CTypeOK'
    BY <2>1, <2>2 DEF ColibriInv, colibri!CTypeOK, colibri!NoGateway, colibri!Failures, GatewayStates
  <2> QED
    BY <2>1, <2>2, <2>3, <2>4 DEF ColibriInv, colibri!CTypeOK, colibri!Waiting, colibri!OneGateway
<1>2. ASSUME NEW s \in Attempt, colibri!SpawnGateway(s)
      PROVE  ColibriInv'
  BY <1>0, <1>2 DEF colibri!SpawnGateway, colibri!Become, ColibriInv, colibri!CTypeOK, colibri!Waiting,
                    colibri!OneGateway, colibri!Running, colibri!NoGateway, colibri!Failures
<1>3. ASSUME NEW s \in Attempt,
             colibri!PollGateway(s) \/ colibri!HealthAnswered(s) \/ colibri!Drained(s)
      PROVE  ColibriInv'
  <2>1. PICK at \in {"poll", "asking", "draining", "loaded"} \cup colibri!Failures :
             largeStarts' = [largeStarts EXCEPT ![s] = at]
    BY <1>3 DEF colibri!PollGateway, colibri!HealthAnswered, colibri!Drained, colibri!Become, colibri!Failures
  <2>2. colibri!Waiting(s) /\ largeStarts[s] # "port"
    BY <1>3 DEF colibri!PollGateway, colibri!HealthAnswered, colibri!Drained, colibri!Waiting
  <2>3. UNCHANGED <<gateway, largeChild>> \/ colibri!stopSync
    BY <1>3 DEF colibri!PollGateway, colibri!HealthAnswered, colibri!Drained
  <2>4. /\ gateway' \in [Attempt -> GatewayStates] /\ largeChild' \in {0, largeChild}
        /\ \A t \in Attempt : colibri!Running(t)' => largeChild' = t
    BY <2>3, GatewayStops DEF ColibriInv, colibri!CTypeOK, colibri!OneGateway, colibri!Running, GatewayStates
  <2>5. colibri!CTypeOK'
    BY <2>1, <2>4 DEF ColibriInv, colibri!CTypeOK, colibri!NoGateway, colibri!Failures, GatewayStates
  <2>6. \A t \in Attempt : colibri!Waiting(t)' => colibri!Waiting(t)
    BY <2>1, <2>2 DEF ColibriInv, colibri!CTypeOK, colibri!Waiting
  <2>7. \A t \in Attempt : largeStarts'[t] = "port" => largeChild' = 0
    BY <2>1, <2>4 DEF ColibriInv, colibri!CTypeOK, colibri!Failures
  <2> QED
    BY <2>4, <2>5, <2>6, <2>7 DEF ColibriInv, colibri!OneGateway
<1>4. ASSUME NEW s \in Attempt, colibri!GatewayExit(s) \/ colibri!GatewayStep(s)
      PROVE  ColibriInv'
  BY <1>0, <1>4 DEF colibri!GatewayExit, colibri!GatewayStep, ColibriInv, colibri!CTypeOK, colibri!Waiting,
                    colibri!OneGateway, colibri!Running, colibri!NoGateway
<1>5. CASE colibri!Stop
  BY <1>5, GatewayStops DEF colibri!Stop, ColibriInv, colibri!CTypeOK, colibri!Waiting, colibri!OneGateway,
                            colibri!NoGateway, GatewayStates
<1>6. CASE UNCHANGED colibriVars
  BY <1>6 DEF colibriVars, ColibriInv, colibri!CTypeOK, colibri!Waiting, colibri!OneGateway, colibri!Running
<1> QED
  BY <1>1, <1>2, <1>3, <1>4, <1>5, <1>6 DEF colibri!CNext, colibri!StartStep

LEMMA LoadedOwns ==
  ASSUME BoundsAssumption, ColibriInv, colibri!CNext \/ UNCHANGED colibriVars,
         NEW s \in Attempt, largeStarts[s] # "loaded", largeStarts'[s] = "loaded"
  PROVE  largeChild = s
<1>1. colibri!HealthAnswered(s)
  BY DEF ColibriInv, colibri!CTypeOK, colibri!CNext, colibri!StartStep, colibri!start, colibri!SpawnGateway,
         colibri!PollGateway, colibri!Drained, colibri!HealthAnswered, colibri!GatewayExit, colibri!GatewayStep,
         colibri!Stop, colibri!Become, colibriVars
<1>2. gateway[s] = "healthy"
  BY <1>1 DEF colibri!HealthAnswered, colibri!Become, ColibriInv, colibri!CTypeOK
<1> QED
  BY <1>2 DEF ColibriInv, colibri!OneGateway, colibri!Running

LEMMA GatewayKnown ==
  ASSUME BoundsAssumption, ColibriInv, colibri!ChildKnown, colibri!CNext \/ UNCHANGED colibriVars
  PROVE  colibri!ChildKnown'
<1> USE DEF colibri!NoGateway, colibri!ChildKnown
<1>0. 0 \notin Attempt /\ gateway \in [Attempt -> GatewayStates] /\ largeChild \in Attempt \cup {0}
  BY DEF BoundsAssumption, ColibriInv, colibri!CTypeOK, GatewayStates
<1>1. CASE colibri!stopSync \/ UNCHANGED <<gateway, largeChild>>
  BY <1>1, GatewayStops
<1>2. ASSUME NEW s \in Attempt, colibri!SpawnGateway(s)
      PROVE  colibri!ChildKnown'
  BY <1>0, <1>2 DEF colibri!SpawnGateway
<1>3. ASSUME NEW s \in Attempt, colibri!GatewayExit(s) \/ colibri!GatewayStep(s)
      PROVE  colibri!ChildKnown'
  BY <1>0, <1>3 DEF colibri!GatewayExit, colibri!GatewayStep, colibri!Running
<1> QED
  BY <1>1, <1>2, <1>3 DEF colibri!CNext, colibri!StartStep, colibri!start, colibri!PollGateway, colibri!HealthAnswered,
                          colibri!Drained, colibri!Stop, colibriVars

-----------------------------------------------------------------------------
(* The chat engine, with starts that overlap.                              *)

Extra == {"projector", "draft"}
OptionType == [model : ChatModel, ctx : Nat, exact : BOOLEAN, extras : SUBSET Extra]
ChatCallType == [at : {"idle", "joined", "done"} \cup llamaProcess!Waits, opts : OptionType \cup {llamaProcess!NoOptions}, window : Nat,
                 child : llamaProcess!Proc \cup {0}, owner : ChatStart \cup {0}, result : llamaProcess!Result]
ChatProcType == [at : {"unused", "spawned", "bound", "ready", "unstartable", "dead", "killed", "crashed", "gone"},
                 model : ChatModel \cup {"none"}, window : Nat, uses : SUBSET Extra,
                 why : Extra \cup {"none", "other"}]

ChatTypes ==
  /\ chatStarts \in [ChatStart -> ChatCallType] /\ chatProcs \in [llamaProcess!Proc -> ChatProcType]
  /\ active \in llamaProcess!Proc \cup {0} /\ activeContext \in Nat
  /\ last \in OptionType \cup {llamaProcess!NoOptions}
  /\ chatStarting \in [call : ChatStart \cup {0}, model : ChatModel \cup {"none"}, context : Nat]

\* What can be joined is under way, for the model it is joined for.
ChatJoins ==
  /\ \A c \in ChatStart : llamaProcess!InFlight(c) => chatStarts[c].opts \in OptionType
  /\ chatStarting # llamaProcess!NoStart =>
       LET d == chatStarting.call
       IN  d \in ChatStart /\ llamaProcess!InFlight(d) /\ chatStarts[d].opts.model = chatStarting.model
  /\ \A c \in ChatStart : chatStarts[c].at = "joined" =>
       LET d == chatStarts[c].owner IN d \in ChatStart /\ llamaProcess!InFlight(d)

ChatInv == ChatTypes /\ ChatJoins /\ llamaProcess!ActiveKnown

LEMMA ChatIdle ==
  ASSUME ChatAssumption
  PROVE  /\ llamaProcess!Idle \in ChatCallType /\ llamaProcess!Idle.at = "idle"
         /\ llamaProcess!NotSpawned \in ChatProcType
BY DEF ChatAssumption, llamaProcess!Idle, llamaProcess!NotSpawned, llamaProcess!NoProc,
       llamaProcess!NoCall, llamaProcess!Result, ChatCallType, ChatProcType

LEMMA ChatStarts ==
  ASSUME ChatAssumption, llamaProcess!Init
  PROVE  ChatInv
<1>1. /\ chatStarting = llamaProcess!NoStart /\ active = 0 /\ activeContext \in Nat
      /\ last = llamaProcess!NoOptions /\ chatStarts = [c \in ChatStart |-> llamaProcess!Idle]
      /\ chatProcs = [p \in llamaProcess!Proc |-> llamaProcess!NotSpawned]
  BY DEF llamaProcess!Init, llamaProcess!NoProc
<1>2. llamaProcess!NoStart \in [call : ChatStart \cup {0}, model : ChatModel \cup {"none"}, context : Nat]
  BY DEF llamaProcess!NoStart, llamaProcess!NoCall
<1>3. ChatTypes
  BY <1>1, <1>2, ChatIdle DEF ChatTypes
<1>4. ChatJoins /\ llamaProcess!ActiveKnown
  BY <1>1, ChatIdle DEF ChatJoins, llamaProcess!ActiveKnown, llamaProcess!NoProc, llamaProcess!InFlight,
                        llamaProcess!Waits
<1> QED
  BY <1>3, <1>4 DEF ChatInv

LEMMA ChatEnded ==
  ASSUME ChatAssumption, NEW at \in {"killed", "crashed", "gone"}, NEW why \in Extra \cup {"none", "other"}
  PROVE  llamaProcess!Ended(at, why) \in ChatProcType
BY ChatIdle DEF llamaProcess!Ended, ChatProcType

\* What a step may do to the processes.
Settled ==
  /\ chatProcs' \in [llamaProcess!Proc -> ChatProcType] /\ active' \in llamaProcess!Proc \cup {0}
  /\ llamaProcess!ActiveKnown'

LEMMA ChatStopped ==
  ASSUME ChatAssumption, ChatInv, llamaProcess!stopServerSync \/ UNCHANGED <<chatProcs, active>>
  PROVE  Settled
<1> USE DEF llamaProcess!ActiveKnown, llamaProcess!Known, llamaProcess!NoProc
<1>1. CASE UNCHANGED <<chatProcs, active>>
  BY <1>1 DEF ChatInv, ChatTypes, Settled
<1>2. CASE active # 0 /\ llamaProcess!stopServerSync
  <2>1. chatProcs' = [chatProcs EXCEPT ![active] = llamaProcess!Ended("killed", "none")] /\ active' = 0
    BY <1>2 DEF llamaProcess!stopServerSync
  <2>2. llamaProcess!Ended("killed", "none") \in ChatProcType
    BY ChatEnded
  <2> QED
    BY <2>1, <2>2 DEF ChatInv, ChatTypes, Settled
<1> QED
  BY <1>1, <1>2 DEF llamaProcess!stopServerSync

\* A start that comes back takes those who joined it along.
LEMMA ChatSettles ==
  ASSUME ChatAssumption, ChatInv, NEW c \in ChatStart, llamaProcess!InFlight(c),
         NEW res \in llamaProcess!Result, llamaProcess!Settle(c, res),
         Settled, activeContext' = activeContext, last' = last
  PROVE  ChatInv'
<1> DEFINE back == [llamaProcess!Idle EXCEPT !.at = "done", !.result = res]
           Mine(d) == d = c \/ (chatStarts[d].at = "joined" /\ chatStarts[d].owner = c)
<1>1. back \in ChatCallType /\ back.at = "done"
  BY ChatIdle DEF ChatCallType
<1>2. /\ chatStarts' = [d \in ChatStart |-> IF Mine(d) THEN back ELSE chatStarts[d]]
      /\ chatStarting' = IF chatStarting.call = c THEN llamaProcess!NoStart ELSE chatStarting
  BY DEF llamaProcess!Settle
<1> HIDE DEF back
<1>3. chatStarts' \in [ChatStart -> ChatCallType]
  BY <1>1, <1>2 DEF ChatInv, ChatTypes
<1>4. llamaProcess!NoStart \in [call : ChatStart \cup {0}, model : ChatModel \cup {"none"}, context : Nat]
  BY DEF llamaProcess!NoStart, llamaProcess!NoCall
<1>5. ChatTypes'
  BY <1>2, <1>3, <1>4 DEF ChatInv, ChatTypes, Settled
<1>6. \A d \in ChatStart : /\ llamaProcess!InFlight(d) /\ d # c => chatStarts'[d] = chatStarts[d] /\ llamaProcess!InFlight(d)'
                           /\ llamaProcess!InFlight(d)' => chatStarts'[d] = chatStarts[d] /\ llamaProcess!InFlight(d)
                           /\ chatStarts'[d].at = "joined" => chatStarts'[d] = chatStarts[d] /\ chatStarts[d].owner # c
  BY <1>1, <1>2 DEF llamaProcess!InFlight, llamaProcess!Waits
<1>7. ChatJoins'
  BY <1>2, <1>6 DEF ChatInv, ChatJoins
<1> QED
  BY <1>5, <1>7 DEF ChatInv, Settled

\* A start under way goes on for its model.
LEMMA ChatMoves ==
  ASSUME ChatInv, NEW c \in ChatStart, llamaProcess!InFlight(c), NEW new \in ChatCallType,
         chatStarts' = [chatStarts EXCEPT ![c] = new], chatStarting' = chatStarting,
         new.at \in llamaProcess!Waits, new.opts \in OptionType, new.opts.model = chatStarts[c].opts.model,
         Settled, activeContext' \in Nat, last' \in OptionType \cup {llamaProcess!NoOptions}
  PROVE  ChatInv'
<1>1. chatStarts' \in [ChatStart -> ChatCallType] /\ chatStarts'[c] = new
      /\ \A d \in ChatStart : d # c => chatStarts'[d] = chatStarts[d]
  BY DEF ChatInv, ChatTypes
<1>2. ChatTypes'
  BY <1>1 DEF ChatInv, ChatTypes, Settled
<1>3. \A d \in ChatStart : /\ llamaProcess!InFlight(d) => llamaProcess!InFlight(d)'
                           /\ chatStarts'[d].opts.model = chatStarts[d].opts.model
                           /\ chatStarts'[d].at = "joined" => chatStarts'[d] = chatStarts[d]
  BY <1>1 DEF llamaProcess!InFlight, llamaProcess!Waits
<1>4. \A d \in ChatStart : llamaProcess!InFlight(d)' => chatStarts'[d].opts \in OptionType
  BY <1>1 DEF ChatInv, ChatJoins, llamaProcess!InFlight
<1>5. ChatJoins'
  BY <1>3, <1>4 DEF ChatInv, ChatJoins
<1> QED
  BY <1>2, <1>5 DEF ChatInv, Settled

LEMMA ChatGoesOn ==
  ASSUME ChatInv, NEW c \in ChatStart, llamaProcess!InFlight(c), NEW at \in llamaProcess!Waits,
         llamaProcess!GoTo(c, at), Settled, activeContext' = activeContext, last' \in {last, chatStarts[c].opts}
  PROVE  ChatInv'
<1> DEFINE new == [chatStarts[c] EXCEPT !.at = at]
<1>1. chatStarts[c] \in ChatCallType /\ chatStarts[c].opts \in OptionType
  BY DEF ChatInv, ChatTypes, ChatJoins
<1>2. new \in ChatCallType /\ new.at = at /\ new.opts = chatStarts[c].opts
  BY <1>1 DEF ChatCallType
<1>3. chatStarts' = [chatStarts EXCEPT ![c] = new] /\ chatStarting' = chatStarting
  BY DEF llamaProcess!GoTo
<1> HIDE DEF new
<1>4. activeContext' \in Nat /\ last' \in OptionType \cup {llamaProcess!NoOptions}
  BY <1>1 DEF ChatInv, ChatTypes
<1> QED
  BY <1>1, <1>2, <1>3, <1>4, ChatMoves

\* The head of a launch: the start waits for what runs, or what runs has been stopped.
ChatLaunched(c, o) ==
  \E new \in ChatCallType :
    chatStarts' = [chatStarts EXCEPT ![c] = new] /\ new.opts = o /\ new.at \in {"reuse", "probe"}

LEMMA ChatLaunches ==
  ASSUME ChatAssumption, ChatInv, NEW c \in ChatStart, NEW o \in OptionType,
         llamaProcess!launchServer(c, o)
  PROVE  Settled /\ ChatLaunched(c, o)
<1> DEFINE w == llamaProcess!determineKvCache(o.model, o.ctx, o.exact)
           here(at) == [[llamaProcess!Idle EXCEPT !.opts = o, !.window = w] EXCEPT !.at = at]
<1>1. w \in Nat
  BY DEF llamaProcess!determineKvCache, ChatAssumption, OptionType
<1>2. \/ chatStarts' = [chatStarts EXCEPT ![c] = here("reuse")] /\ UNCHANGED <<chatProcs, active, activeModel>>
      \/ chatStarts' = [chatStarts EXCEPT ![c] = here("probe")] /\ llamaProcess!stopServerSync
  BY DEF llamaProcess!launchServer, llamaProcess!Enter
<1> HIDE DEF w
<1>3. ASSUME NEW at \in {"reuse", "probe"}
      PROVE  here(at) \in ChatCallType /\ here(at).opts = o /\ here(at).at = at
  <2>1. [llamaProcess!Idle EXCEPT !.opts = o, !.window = w] \in ChatCallType
        /\ [llamaProcess!Idle EXCEPT !.opts = o, !.window = w].opts = o
    BY <1>1, ChatIdle DEF ChatCallType
  <2> QED
    BY <2>1 DEF ChatCallType, llamaProcess!Waits
<1> HIDE DEF here
<1> QED
  BY <1>2, <1>3, ChatStopped DEF ChatLaunched

LEMMA ChatStartKeeps ==
  ASSUME ChatAssumption, ChatInv, NEW c \in ChatStart, chatStarts[c].at = "idle",
         NEW m \in ChatModel, NEW ask \in Nat, NEW exact \in BOOLEAN, NEW extras \in SUBSET Extra,
         llamaProcess!startServer(c, m, ask, exact, extras), activeContext' = activeContext, last' = last
  PROVE  ChatInv'
<1> DEFINE o == [model |-> m, ctx |-> llamaProcess!requestedContext(m, ask), exact |-> exact, extras |-> extras]
           w == llamaProcess!determineKvCache(m, o.ctx, exact)
<1>1. o \in OptionType /\ o.model = m /\ w \in Nat
  <2>1. llamaProcess!requestedContext(m, ask) \in Nat
    BY DEF llamaProcess!requestedContext, ChatInv, ChatTypes
  <2> QED
    BY <2>1 DEF llamaProcess!determineKvCache, ChatAssumption, OptionType
<1>2. \/ /\ llamaProcess!Joins(m, w, exact)
         /\ chatStarts' = [chatStarts EXCEPT ![c] =
              [llamaProcess!Idle EXCEPT !.at = "joined", !.opts = o, !.window = w, !.owner = chatStarting.call]]
         /\ UNCHANGED <<chatProcs, active, activeModel, chatStarting>>
      \/ /\ chatStarts' = [chatStarts EXCEPT ![c] =
              [llamaProcess!Idle EXCEPT !.at = "done", !.result = "parts-missing"]]
         /\ chatStarting' = llamaProcess!NoStart
         /\ UNCHANGED <<chatProcs, active, activeModel>>
      \/ /\ llamaProcess!launchServer(c, o)
         /\ chatStarting' = [call |-> c, model |-> m, context |-> w]
  BY DEF llamaProcess!startServer
<1>3. llamaProcess!Joins(m, w, exact) => chatStarting # llamaProcess!NoStart
  BY DEF llamaProcess!Joins, llamaProcess!NoStart, ChatAssumption
<1> HIDE DEF w, o
<1>4. \A d \in ChatStart : llamaProcess!InFlight(d) => d # c
  BY DEF llamaProcess!InFlight, llamaProcess!Waits
\* the new entry, whatever it is
<1>5. ASSUME NEW new \in ChatCallType, chatStarts' = [chatStarts EXCEPT ![c] = new], Settled,
             new.at = "joined" => new.owner \in ChatStart /\ llamaProcess!InFlight(new.owner),
             chatStarting' \in {chatStarting, llamaProcess!NoStart,
                                [call |-> c, model |-> m, context |-> w]},
             new.at \in llamaProcess!Waits => new.opts \in OptionType,
             chatStarting'.call = c => new.at \in llamaProcess!Waits /\ new.opts.model = chatStarting'.model
      PROVE  ChatInv'
  <2>1. chatStarts' \in [ChatStart -> ChatCallType] /\ chatStarts'[c] = new
        /\ \A d \in ChatStart : d # c => chatStarts'[d] = chatStarts[d]
    BY <1>5 DEF ChatInv, ChatTypes
  <2>2. \A d \in ChatStart : llamaProcess!InFlight(d) => llamaProcess!InFlight(d)' /\ chatStarts'[d] = chatStarts[d]
    BY <1>4, <2>1 DEF llamaProcess!InFlight
  <2>3. ChatTypes'
    BY <1>1, <1>5, <2>1 DEF ChatInv, ChatTypes, Settled, llamaProcess!NoStart, llamaProcess!NoCall
  <2>4. ASSUME NEW d \in ChatStart, chatStarts'[d].at = "joined"
        PROVE  LET own == chatStarts'[d].owner
               IN  own \in ChatStart /\ chatStarts'[own].at \in llamaProcess!Waits
    <3> DEFINE own == chatStarts'[d].owner
    <3>1. own \in ChatStart /\ llamaProcess!InFlight(own)
      <4>1. CASE d = c
        BY <1>5, <2>1, <2>4, <4>1
      <4>2. CASE d # c
        BY <2>1, <2>4, <4>2 DEF ChatInv, ChatJoins
      <4> QED
        BY <4>1, <4>2
    <3> QED
      BY <2>2, <3>1 DEF llamaProcess!InFlight
  <2>5. ASSUME chatStarting' # llamaProcess!NoStart
        PROVE  LET d == chatStarting'.call
               IN  /\ d \in ChatStart /\ chatStarts'[d].at \in llamaProcess!Waits
                   /\ chatStarts'[d].opts.model = chatStarting'.model
    <3> DEFINE d == chatStarting'.call
    <3>1. CASE d # c
      <4>1. chatStarting' = chatStarting
        BY <1>5, <2>5, <3>1
      <4>2. d \in ChatStart /\ llamaProcess!InFlight(d) /\ chatStarts[d].opts.model = chatStarting'.model
        BY <2>5, <4>1 DEF ChatInv, ChatJoins
      <4> QED
        BY <2>2, <4>2 DEF llamaProcess!InFlight
    <3>2. CASE d = c
      <4>1. new.at \in llamaProcess!Waits /\ new.opts.model = chatStarting'.model
        BY <1>5, <3>2
      <4> QED
        BY <2>1, <3>2, <4>1 DEF llamaProcess!InFlight
    <3> QED
      BY <3>1, <3>2
  <2>6. \A d \in ChatStart : llamaProcess!InFlight(d)' => chatStarts'[d].opts \in OptionType
    BY <1>5, <2>1 DEF ChatInv, ChatJoins, llamaProcess!InFlight
  <2>7. ChatJoins'
    BY <2>4, <2>5, <2>6 DEF ChatJoins, llamaProcess!InFlight
  <2> QED
    BY <1>5, <2>3, <2>7 DEF ChatInv, Settled
<1>6. UNCHANGED <<chatProcs, active, activeModel>> => Settled
  BY ChatStopped
<1>7. CASE /\ llamaProcess!Joins(m, w, exact)
           /\ chatStarts' = [chatStarts EXCEPT ![c] =
                [llamaProcess!Idle EXCEPT !.at = "joined", !.opts = o, !.window = w, !.owner = chatStarting.call]]
           /\ UNCHANGED <<chatProcs, active, activeModel, chatStarting>>
  <2> DEFINE new == [llamaProcess!Idle EXCEPT !.at = "joined", !.opts = o, !.window = w, !.owner = chatStarting.call]
             own == chatStarting.call
  <2>1. own \in ChatStart /\ llamaProcess!InFlight(own) /\ own # c
    BY <1>3, <1>4, <1>7 DEF ChatInv, ChatJoins
  <2>2. new \in ChatCallType /\ new.at = "joined" /\ new.owner = own /\ new.at \notin llamaProcess!Waits
    BY <1>1, <2>1, ChatIdle DEF ChatCallType, llamaProcess!Waits
  <2>3. chatStarts' = [chatStarts EXCEPT ![c] = new] /\ chatStarting' = chatStarting
    BY <1>7
  <2> HIDE DEF new
  <2> QED
    BY <1>5, <1>6, <1>7, <2>1, <2>2, <2>3
<1>8. CASE /\ chatStarts' = [chatStarts EXCEPT ![c] =
                [llamaProcess!Idle EXCEPT !.at = "done", !.result = "parts-missing"]]
           /\ chatStarting' = llamaProcess!NoStart
           /\ UNCHANGED <<chatProcs, active, activeModel>>
  <2> DEFINE new == [llamaProcess!Idle EXCEPT !.at = "done", !.result = "parts-missing"]
  <2>1. new \in ChatCallType /\ new.at = "done" /\ new.at \notin llamaProcess!Waits
    BY ChatIdle DEF ChatCallType, llamaProcess!Result, llamaProcess!Failures, llamaProcess!Waits
  <2>2. chatStarts' = [chatStarts EXCEPT ![c] = new]
    BY <1>8
  <2>3. chatStarting'.call # c
    BY <1>8, BoundsAssumption DEF BoundsAssumption, llamaProcess!NoStart, llamaProcess!NoCall
  <2> HIDE DEF new
  <2> QED
    BY <1>5, <1>6, <1>8, <2>1, <2>2, <2>3
<1>9. CASE /\ llamaProcess!launchServer(c, o)
           /\ chatStarting' = [call |-> c, model |-> m, context |-> w]
  <2>1. Settled /\ ChatLaunched(c, o)
    BY <1>1, <1>9, ChatLaunches
  <2>2. PICK new \in ChatCallType :
           chatStarts' = [chatStarts EXCEPT ![c] = new] /\ new.opts = o /\ new.at \in {"reuse", "probe"}
    BY <2>1 DEF ChatLaunched
  <2>3. /\ new.at \in llamaProcess!Waits /\ new.at # "joined"
        /\ new.opts \in OptionType /\ new.opts.model = chatStarting'.model
    BY <1>1, <1>9, <2>2 DEF llamaProcess!Waits
  <2> QED
    BY <1>5, <1>9, <2>1, <2>2, <2>3
<1> QED
  BY <1>2, <1>7, <1>8, <1>9

\* One step of a start.
LEMMA ChatSteps ==
  ASSUME ChatAssumption, BoundsAssumption, ChatInv, NEW c \in ChatStart, llamaProcess!Step(c)
  PROVE  ChatInv'
<1> USE DEF llamaProcess!NoProc
<1>0. /\ chatStarts[c] \in ChatCallType /\ (llamaProcess!InFlight(c) => chatStarts[c].opts \in OptionType)
      /\ chatStarts \in [ChatStart -> ChatCallType]
      /\ last \in OptionType \cup {llamaProcess!NoOptions} /\ activeContext \in Nat
  BY DEF ChatInv, ChatTypes, ChatJoins
<1>1. CASE llamaProcess!Reuse(c)
  <2>1. llamaProcess!InFlight(c) /\ UNCHANGED <<activeContext, last>>
    BY <1>1 DEF llamaProcess!Reuse, llamaProcess!InFlight, llamaProcess!Waits
  <2>2. CASE llamaProcess!Settle(c, "reused") /\ UNCHANGED <<chatProcs, active, activeModel>>
    BY <2>1, <2>2, ChatStopped, ChatSettles DEF llamaProcess!Result
  <2>3. CASE llamaProcess!GoTo(c, "probe") /\ llamaProcess!stopServerSync
    BY <2>1, <2>3, ChatStopped, ChatGoesOn DEF llamaProcess!Waits
  <2> QED
    BY <1>1, <2>2, <2>3 DEF llamaProcess!Reuse
<1>2. CASE llamaProcess!Probe(c)
  <2>1. llamaProcess!InFlight(c) /\ UNCHANGED <<chatProcs, active, activeContext, last>>
    BY <1>2 DEF llamaProcess!Probe, llamaProcess!InFlight, llamaProcess!Waits
  <2>2. \E at \in {"adopt", "prepare", "adopt2", "memory"} : llamaProcess!GoTo(c, at)
    BY <1>2 DEF llamaProcess!Probe
  <2> QED
    BY <2>1, <2>2, ChatStopped, ChatGoesOn DEF llamaProcess!Waits
<1>3. CASE llamaProcess!Adopt(c)
  <2>1. llamaProcess!InFlight(c) /\ UNCHANGED <<chatProcs, active, activeContext, last>>
    BY <1>3 DEF llamaProcess!Adopt, llamaProcess!InFlight, llamaProcess!Waits
  <2>2. \E res \in llamaProcess!Result : llamaProcess!Settle(c, res)
    BY <1>3 DEF llamaProcess!Adopt, llamaProcess!Result, llamaProcess!Failures
  <2> QED
    BY <2>1, <2>2, ChatStopped, ChatSettles
<1>4. CASE llamaProcess!Prepare(c)
  <2> DEFINE at == IF active = 0 THEN "probe2" ELSE "memory"
             extras == {x \in chatStarts[c].opts.extras : <<chatStarts[c].opts.model, x>> \notin refused}
             opts == [chatStarts[c].opts EXCEPT !.extras = extras]
             new == [chatStarts[c] EXCEPT !.at = at, !.opts = opts]
  <2>1. /\ llamaProcess!InFlight(c) /\ chatStarting' = chatStarting
        /\ UNCHANGED <<chatProcs, active, activeContext, last>>
    BY <1>4 DEF llamaProcess!Prepare, llamaProcess!InFlight, llamaProcess!Waits
  <2>2. chatStarts' = [chatStarts EXCEPT ![c] = new]
    BY <1>4, ZenonT(60) DEF llamaProcess!Prepare
  <2>3. opts \in OptionType /\ opts.model = chatStarts[c].opts.model
    BY <1>0, <2>1 DEF OptionType
  <2> HIDE DEF opts
  <2>4. new \in ChatCallType /\ new.at = at /\ new.opts = opts /\ at \in llamaProcess!Waits
    BY <1>0, <2>3 DEF ChatCallType, llamaProcess!Waits
  <2> HIDE DEF new, at
  <2>5. Settled
    BY <2>1, ChatStopped
  <2> QED
    BY <1>0, <2>1, <2>3, <2>4, <2>5, <2>2, ChatMoves
<1>5. CASE llamaProcess!Spawn(c)
  <2> DEFINE proc == [llamaProcess!NotSpawned EXCEPT !.at = "spawned", !.model = chatStarts[c].opts.model,
                                 !.window = chatStarts[c].window, !.uses = chatStarts[c].opts.extras]
  <2>1. PICK p \in llamaProcess!Proc :
          /\ chatProcs' = [chatProcs EXCEPT ![p] = proc] /\ active' = p
          /\ chatStarts' = [chatStarts EXCEPT ![c].at = "loading", ![c].child = p]
    BY <1>5 DEF llamaProcess!Spawn
  <2>2. /\ llamaProcess!InFlight(c) /\ chatStarting' = chatStarting /\ last' = last
        /\ activeContext' = chatStarts[c].window
    BY <1>5 DEF llamaProcess!Spawn, llamaProcess!InFlight, llamaProcess!Waits
  <2>3. proc \in ChatProcType /\ proc.at = "spawned"
    BY <1>0, <2>2, ChatIdle DEF ChatProcType, ChatCallType, OptionType
  <2> HIDE DEF proc
  <2>4. Settled
    BY <2>1, <2>3 DEF Settled, ChatInv, ChatTypes, llamaProcess!ActiveKnown, llamaProcess!Known
  <2> DEFINE new == [chatStarts[c] EXCEPT !.at = "loading", !.child = p]
  <2>5. new \in ChatCallType /\ new.at = "loading" /\ new.opts = chatStarts[c].opts /\ chatStarts[c].window \in Nat
    BY <1>0 DEF ChatCallType, llamaProcess!Waits
  <2>6. chatStarts' = [chatStarts EXCEPT ![c] = new]
    BY <2>1
  <2> HIDE DEF new
  <2> QED
    BY <1>0, <2>2, <2>4, <2>5, <2>6, ChatMoves DEF llamaProcess!Waits
<1>6. CASE llamaProcess!SpawnThrows(c)
  <2>1. /\ llamaProcess!InFlight(c) /\ UNCHANGED <<activeContext, last>> /\ llamaProcess!stopServerSync
        /\ llamaProcess!Settle(c, "spawn-failed")
    BY <1>6 DEF llamaProcess!SpawnThrows, llamaProcess!InFlight, llamaProcess!Waits
  <2> QED
    BY <2>1, ChatStopped, ChatSettles DEF llamaProcess!Result, llamaProcess!Failures
<1>7. CASE llamaProcess!Load(c)
  <2>1. llamaProcess!InFlight(c) /\ activeContext' = activeContext
    BY <1>7 DEF llamaProcess!Load, llamaProcess!InFlight, llamaProcess!Waits
  <2>2. CASE llamaProcess!LoadReady(c)
    <3>1. UNCHANGED <<chatProcs, active>> /\ last' = chatStarts[c].opts /\ llamaProcess!GoTo(c, "measure")
      BY <2>2 DEF llamaProcess!LoadReady
    <3> QED
      BY <2>1, <3>1, ChatStopped, ChatGoesOn DEF llamaProcess!Waits
  <2>3. CASE llamaProcess!LoadTimeout(c)
    <3>1. llamaProcess!stopServerSync /\ llamaProcess!Settle(c, "load-timeout") /\ last' = last
      BY <2>3 DEF llamaProcess!LoadTimeout
    <3> QED
      BY <2>1, <3>1, ChatStopped, ChatSettles DEF llamaProcess!Result, llamaProcess!Failures
  <2>4. CASE llamaProcess!SpawnError(c)
    <3>1. active' = 0 /\ UNCHANGED <<chatProcs, last>> /\ \E res \in llamaProcess!Result : llamaProcess!Settle(c, res)
      BY <2>4 DEF llamaProcess!SpawnError, llamaProcess!Result, llamaProcess!Failures
    <3>2. Settled
      BY <3>1 DEF Settled, ChatInv, ChatTypes, llamaProcess!ActiveKnown
    <3> QED
      BY <2>1, <3>1, <3>2, ChatSettles
  <2>5. CASE llamaProcess!Crashed(c)
    <3> DEFINE o == [chatStarts[c].opts EXCEPT !.extras = @ \ {chatProcs[chatStarts[c].child].why}]
    <3>1. o \in OptionType /\ o.model = chatStarts[c].opts.model
      BY <1>0, <2>1 DEF OptionType
    <3>2. CASE chatStarting' = chatStarting /\ llamaProcess!launchServer(c, o) /\ last' = last
      <4> HIDE DEF o
      <4>1. Settled /\ ChatLaunched(c, o)
        BY <3>1, <3>2, ChatLaunches
      <4>2. PICK new \in ChatCallType :
               chatStarts' = [chatStarts EXCEPT ![c] = new] /\ new.opts = o /\ new.at \in {"reuse", "probe"}
        BY <4>1 DEF ChatLaunched
      <4> QED
        BY <1>0, <2>1, <3>1, <3>2, <4>1, <4>2, ChatMoves DEF llamaProcess!Waits
    <3>3. CASE llamaProcess!Settle(c, "stopped-loading") /\ UNCHANGED <<chatProcs, active, last>>
      BY <2>1, <3>3, ChatStopped, ChatSettles DEF llamaProcess!Result, llamaProcess!Failures
    <3> QED
      BY <2>5, <3>2, <3>3 DEF llamaProcess!Crashed
  <2>6. CASE llamaProcess!Replaced(c)
    <3>1. llamaProcess!Settle(c, "another-model") /\ UNCHANGED <<chatProcs, active, last>>
      BY <2>6 DEF llamaProcess!Replaced
    <3> QED
      BY <2>1, <3>1, ChatStopped, ChatSettles DEF llamaProcess!Result, llamaProcess!Failures
  <2> QED
    BY <1>7, <2>2, <2>3, <2>4, <2>5, <2>6 DEF llamaProcess!Load
<1>8. CASE llamaProcess!Measure(c)
  <2>1. /\ llamaProcess!InFlight(c) /\ llamaProcess!Settle(c, "loaded")
        /\ UNCHANGED <<chatProcs, active, activeContext, last>>
    BY <1>8 DEF llamaProcess!Measure, llamaProcess!InFlight, llamaProcess!Waits
  <2> QED
    BY <2>1, ChatStopped, ChatSettles DEF llamaProcess!Result
<1> QED
  BY <1>1, <1>2, <1>3, <1>4, <1>5, <1>6, <1>7, <1>8 DEF llamaProcess!Step

LEMMA ChatKeeps ==
  ASSUME ChatAssumption, BoundsAssumption, ChatInv, llamaProcess!Next \/ UNCHANGED llamaVars
  PROVE  ChatInv'
<1> USE DEF llamaProcess!NoProc
\* only the processes change
<1>1. ASSUME Settled, UNCHANGED <<chatStarts, chatStarting, activeContext, last>>
      PROVE  ChatInv'
  BY <1>1 DEF ChatInv, ChatTypes, ChatJoins, Settled, llamaProcess!InFlight
<1>2. ASSUME NEW c \in ChatStart, llamaProcess!Start(c)
      PROVE  ChatInv'
  <2>1. PICK a \in llamaProcess!Ask : llamaProcess!MayCall(c, a.model, a.ctx, a.exact) /\ llamaProcess!StartFor(c, a)
    BY <1>2 DEF llamaProcess!Start
  <2>2. a.model \in ChatModel /\ a.ctx \in Nat /\ a.exact \in BOOLEAN /\ ChatExtras[a.model] \in SUBSET Extra
    BY DEF llamaProcess!Ask, ChatAssumption, Extra
  <2>3. /\ chatStarts[c].at = "idle" /\ llamaProcess!startServer(c, a.model, a.ctx, a.exact, ChatExtras[a.model])
        /\ UNCHANGED <<activeContext, last>>
    BY <2>1 DEF llamaProcess!MayCall, llamaProcess!StartFor
  <2> QED
    BY <2>2, <2>3, ChatStartKeeps
<1>3. ASSUME NEW c \in ChatStart, llamaProcess!Reload(c)
      PROVE  ChatInv'
  <2>1. /\ chatStarts[c].at = "idle" /\ llamaProcess!startServer(c, last.model, last.ctx, last.exact, last.extras)
        /\ UNCHANGED <<activeContext, last>>
    BY <1>3 DEF llamaProcess!MayCall, llamaProcess!Reload
  <2>2. last.ctx \in Nat /\ last.exact \in BOOLEAN /\ last.extras \in SUBSET Extra /\ last.model \in ChatModel
    BY <1>3 DEF llamaProcess!Reload, ChatInv, ChatTypes, OptionType
  <2> QED
    BY <2>1, <2>2, ChatStartKeeps
<1>4. ASSUME NEW p \in llamaProcess!Proc, llamaProcess!ExitEvent(p)
      PROVE  ChatInv'
  <2>1. PICK at \in {"crashed", "gone"}, why \in Extra \cup {"none", "other"} :
           chatProcs' = [chatProcs EXCEPT ![p] = llamaProcess!Ended(at, why)]
    BY <1>4 DEF llamaProcess!ExitEvent, ChatInv, ChatTypes, ChatProcType
  <2>2. llamaProcess!Ended(at, why) \in ChatProcType
    BY ChatEnded
  <2>3. /\ chatProcs' \in [llamaProcess!Proc -> ChatProcType]
        /\ \A q \in llamaProcess!Proc : q # p => chatProcs'[q] = chatProcs[q]
    BY <2>1, <2>2 DEF ChatInv, ChatTypes
  <2>4. active' = IF active = p THEN 0 ELSE active
    BY <1>4 DEF llamaProcess!ExitEvent
  <2>5. Settled
    BY <2>3, <2>4 DEF Settled, ChatInv, ChatTypes, llamaProcess!ActiveKnown, llamaProcess!Known
  <2> QED
    BY <1>1, <1>4, <2>5 DEF llamaProcess!ExitEvent
<1>5. ASSUME NEW p \in llamaProcess!Proc, llamaProcess!ServerStep(p)
      PROVE  ChatInv'
  <2>1. PICK at \in {"unstartable", "dead", "bound", "ready"}, why \in Extra \cup {"none", "other"} :
          llamaProcess!Becomes(p, at, why)
    BY <1>5 DEF llamaProcess!ServerStep, ChatInv, ChatTypes, ChatProcType
  <2> DEFINE new == [chatProcs[p] EXCEPT !.at = at, !.why = why]
  <2>2. new \in ChatProcType /\ new.at = at
    <3>1. chatProcs[p] \in ChatProcType
      BY DEF ChatInv, ChatTypes
    <3> QED
      BY <3>1 DEF ChatProcType
  <2>3. chatProcs' = [chatProcs EXCEPT ![p] = new] /\ UNCHANGED <<chatStarts, chatStarting, active, activeContext, last>>
    BY <2>1 DEF llamaProcess!Becomes
  <2> HIDE DEF new
  <2>4. Settled
    BY <2>2, <2>3 DEF Settled, ChatInv, ChatTypes, llamaProcess!ActiveKnown, llamaProcess!Known
  <2> QED
    BY <1>1, <2>3, <2>4
<1>6. CASE llamaProcess!Stop \/ llamaProcess!ForeignStep \/ UNCHANGED llamaVars
  BY <1>1, <1>6, ChatStopped DEF llamaProcess!Stop, llamaProcess!ForeignStep, llamaVars
<1> QED
  BY <1>2, <1>3, <1>4, <1>5, <1>6, ChatSteps DEF llamaProcess!Next

-----------------------------------------------------------------------------
(* Commands and tasks.                                                     *)

RunType == [id : RunId \cup {"none"}, chat : Chat \cup {"none"},
            at : {"idle", "running", "done", "detached", "background"}, limit : {"set", "over"},
            child : {"none", "alive", "told", "killed", "gone", "closed"}]
TaskType == [status : {"none", "running", "stopped", "ended", "forgotten"},
             mode : {"none", "pty", "pipe", "adopted"}, stopRequested : BOOLEAN]

CommandInv ==
  /\ runs \in [Run -> RunType] /\ tasks \in [Run -> TaskType]
  /\ live \in [RunId -> Run \cup {0}]
  /\ commands!Reachable

LEMMA CommandsStart ==
  ASSUME commands!Init
  PROVE  CommandInv
BY DEF commands!Init, commands!NotRun, commands!NoTask, commands!NoRun, CommandInv, RunType, TaskType,
       commands!Reachable

\* A change of one command, and of one task.
LEMMA OneRun ==
  ASSUME CommandInv, NEW r \in Run, NEW new \in RunType, runs' = [runs EXCEPT ![r] = new]
  PROVE  runs' \in [Run -> RunType] /\ runs'[r] = new /\ \A q \in Run : q # r => runs'[q] = runs[q]
BY DEF CommandInv

LEMMA OneTask ==
  ASSUME CommandInv, NEW r \in Run, NEW new \in TaskType, tasks' = [tasks EXCEPT ![r] = new]
  PROVE  tasks' \in [Run -> TaskType] /\ tasks'[r] = new /\ \A q \in Run : q # r => tasks'[q] = tasks[q]
BY DEF CommandInv

LEMMA KilledRun ==
  ASSUME NEW child0, NEW how \in {"told", "killed"},
         child0 \in {"none", "alive", "told", "killed", "gone", "closed"}
  PROVE  commands!Killed(child0, how) \in {"none", "told", "killed", "gone", "closed"}
BY DEF commands!Killed

\* A command that is handed over is a task from then on.
LEMMA HandedOver ==
  ASSUME CommandInv, NEW r \in Run, commands!HandOver(r), down' = down
  PROVE  CommandInv'
<1>1. tasks' \in [Run -> TaskType] /\ tasks'[r].status = "running" /\ \A q \in Run : q # r => tasks'[q] = tasks[q]
  BY DEF CommandInv, commands!HandOver, commands!NoTask, TaskType
<1>2. runs' \in [Run -> RunType] /\ \A q \in Run : runs'[q].child = runs[q].child
  BY DEF CommandInv, commands!HandOver, RunType
<1>3. live' \in [RunId -> Run \cup {0}] /\ \A id \in RunId, q \in Run : q # r /\ live[id] = q => live'[id] = q
  BY DEF CommandInv, commands!HandOver, commands!Release, commands!NoRun
<1>4. commands!Reachable'
  <2>1. SUFFICES ASSUME NEW q \in Run, runs'[q].child = "alive", ~down', q # r
                 PROVE  (\E id \in RunId : live'[id] = q) \/ tasks'[q].status = "running"
    BY <1>1 DEF commands!Reachable
  <2>2. (\E id \in RunId : live[id] = q) \/ tasks[q].status = "running"
    BY <1>2, <2>1 DEF CommandInv, commands!Reachable
  <2> QED
    BY <1>1, <1>3, <2>1, <2>2
<1> QED
  BY <1>1, <1>2, <1>3, <1>4 DEF CommandInv

\* Nothing is lost when the processes that are alive were so before, and neither their
\* ids nor their tasks are given up.
LEMMA StillReachable ==
  ASSUME CommandInv,
         runs' \in [Run -> RunType], tasks' \in [Run -> TaskType], live' \in [RunId -> Run \cup {0}],
         \A q \in Run : runs'[q].child = "alive" /\ ~down' =>
           \/ tasks'[q].status = "running" \/ \E id \in RunId : live'[id] = q
           \/ /\ runs[q].child = "alive" /\ ~down
              /\ tasks[q].status = "running" => tasks'[q].status = "running"
              /\ \A id \in RunId : live[id] = q => live'[id] = q
  PROVE  CommandInv'
BY DEF CommandInv, commands!Reachable

LEMMA CommandsKeep ==
  ASSUME CommandInv, BoundsAssumption,
         (commands!Works /\ down' = down) \/ commands!Shutdown \/ UNCHANGED <<commandVars, down>>
  PROVE  CommandInv'
<1>1. ASSUME NEW r \in Run, NEW c \in Chat, NEW id \in RunId, commands!RunForeground(r, id, c)
      PROVE  CommandInv'
  <2>1. tasks' = tasks /\ down' = down /\ live[id] = 0
    BY <1>1 DEF commands!RunForeground, commands!NoRun
  <2>2. PICK child0 \in {"alive", "gone", "none"} :
          /\ \E at \in {"running", "done"} :
               runs' = [runs EXCEPT ![r] = [id |-> id, chat |-> c, at |-> at, limit |-> "set", child |-> child0]]
          /\ IF child0 = "none" THEN live' = live ELSE live' = [live EXCEPT ![id] = r]
    BY <1>1 DEF commands!RunForeground, commands!NotRun
  <2>3. runs' \in [Run -> RunType] /\ live' \in [RunId -> Run \cup {0}]
        /\ runs'[r].child = child0 /\ \A q \in Run : q # r => runs'[q] = runs[q]
    BY <2>2 DEF CommandInv, RunType
  <2>4. /\ \A q \in Run, k \in RunId : live[k] = q => live'[k] = q
        /\ child0 = "alive" => live'[id] = r
    BY <2>1, <2>2 DEF CommandInv, BoundsAssumption
  <2> QED
    BY <2>1, <2>3, <2>4, StillReachable DEF CommandInv
<1>2. ASSUME NEW r \in Run, NEW c \in Chat, commands!StartBackground(r, c)
      PROVE  CommandInv'
  <2>1. PICK mode \in {"pty", "pipe"}, child0 \in {"alive", "gone", "none"} :
       /\ runs' = [runs EXCEPT ![r] = [commands!NotRun EXCEPT !.chat = c, !.at = "background", !.child = child0]]
       /\ tasks' = [tasks EXCEPT ![r] = [commands!NoTask EXCEPT
                       !.status = IF child0 = "none" THEN "ended" ELSE "running", !.mode = mode]]
    BY <1>2 DEF commands!StartBackground
  <2>2. live' = live /\ down' = down
    BY <1>2 DEF commands!StartBackground
  <2> DEFINE run == [commands!NotRun EXCEPT !.chat = c, !.at = "background", !.child = child0]
             task == [commands!NoTask EXCEPT
                       !.status = IF child0 = "none" THEN "ended" ELSE "running", !.mode = mode]
  <2>3. run \in RunType /\ task \in TaskType /\ (run.child = "alive" => task.status = "running")
    BY DEF commands!NotRun, commands!NoTask, RunType, TaskType
  <2>4. /\ runs' \in [Run -> RunType] /\ tasks' \in [Run -> TaskType]
        /\ runs'[r].child = "alive" => tasks'[r].status = "running"
        /\ \A q \in Run : q # r => runs'[q] = runs[q] /\ tasks'[q] = tasks[q]
    <3> HIDE DEF run, task
    <3>1. runs' = [runs EXCEPT ![r] = run] /\ tasks' = [tasks EXCEPT ![r] = task]
      BY <2>1 DEF run, task
    <3> QED
      BY <2>3, <3>1, OneRun, OneTask
  <2> QED
    BY <2>2, <2>4, StillReachable DEF CommandInv
<1>3. ASSUME NEW id \in RunId, commands!Detach(id)
      PROVE  CommandInv'
  <2>1. live[id] \in Run /\ commands!HandOver(live[id]) /\ down' = down
    BY <1>3 DEF commands!Detach, commands!NoRun, CommandInv
  <2> QED
    BY <2>1, HandedOver
<1>4. ASSUME NEW id \in RunId, commands!Cancel(id)
      PROVE  CommandInv'
  <2>1. /\ live[id] \in Run /\ tasks' = tasks /\ down' = down /\ live' = [live EXCEPT ![id] = 0]
        /\ runs' = [runs EXCEPT ![live[id]].child = commands!Killed(@, "told")]
    BY <1>4 DEF commands!Cancel, commands!Kill, commands!NoRun, CommandInv
  <2>2. /\ runs' \in [Run -> RunType] /\ live' \in [RunId -> Run \cup {0}]
        /\ runs'[live[id]].child # "alive"
        /\ \A q \in Run : q # live[id] => runs'[q] = runs[q]
    BY <2>1 DEF CommandInv, RunType, commands!Killed
  <2> QED
    BY <2>1, <2>2, StillReachable DEF CommandInv
<1>5. ASSUME NEW r \in Run, commands!TimeLimit(r)
      PROVE  CommandInv'
  <2>1. CASE commands!HandOver(r)
    BY <1>5, <2>1, HandedOver DEF commands!TimeLimit
  <2>2. CASE /\ runs' = [runs EXCEPT ![r].limit = "over", ![r].child = commands!Killed(@, "told")]
             /\ UNCHANGED <<live, tasks>>
    <3> DEFINE run == [runs[r] EXCEPT !.limit = "over", !.child = commands!Killed(@, "told")]
    <3>0. run \in RunType /\ run.child # "alive"
      BY KilledRun DEF CommandInv, RunType
    <3>1. runs' \in [Run -> RunType] /\ runs'[r].child # "alive" /\ \A q \in Run : q # r => runs'[q] = runs[q]
      <4>1. runs' = [runs EXCEPT ![r] = run]
        BY <2>2
      <4> HIDE DEF run
      <4> QED
        BY <3>0, <4>1, OneRun
    <3>2. down' = down
      BY <1>5 DEF commands!TimeLimit
    <3> QED
      BY <2>2, <3>1, <3>2, StillReachable DEF CommandInv
  <2> QED
    BY <1>5, <2>1, <2>2 DEF commands!TimeLimit
<1>6. ASSUME NEW r \in Run, commands!stop(r) \/ commands!Ends(r)
      PROVE  CommandInv'
  <2>1. /\ runs' \in [Run -> RunType] /\ runs'[r].child # "alive" /\ \A q \in Run : q # r => runs'[q] = runs[q]
    BY <1>6 DEF CommandInv, RunType, commands!stop, commands!Ends, commands!Kill, commands!Killed
  <2>2. /\ tasks' \in [Run -> TaskType] /\ live' = live /\ down' = down
        /\ \A q \in Run : tasks'[q].status = tasks[q].status
    <3>1. CASE commands!Ends(r)
      BY <3>1 DEF commands!Ends, CommandInv
    <3>2. CASE commands!stop(r)
      <4> DEFINE task == [tasks[r] EXCEPT !.stopRequested = TRUE]
      <4>1. task \in TaskType /\ task.status = tasks[r].status
        BY DEF CommandInv, TaskType
      <4>2. tasks' = [tasks EXCEPT ![r] = task] /\ live' = live /\ down' = down
        BY <3>2 DEF commands!stop
      <4> HIDE DEF task
      <4> QED
        BY <4>1, <4>2, OneTask
    <3> QED
      BY <1>6, <3>1, <3>2
  <2> QED
    BY <2>1, <2>2, StillReachable DEF CommandInv
<1>7. ASSUME NEW r \in Run, commands!Closes(r)
      PROVE  CommandInv'
  <2>1. /\ runs' \in [Run -> RunType] /\ runs'[r].child # "alive" /\ \A q \in Run : q # r => runs'[q] = runs[q]
    <3> DEFINE run == [runs[r] EXCEPT !.child = "closed", !.at = IF @ = "running" THEN "done" ELSE @]
    <3>1. run \in RunType /\ run.child # "alive"
      BY DEF CommandInv, RunType
    <3>2. runs' = [runs EXCEPT ![r] = run]
      BY <1>7 DEF commands!Closes
    <3> HIDE DEF run
    <3> QED
      BY <3>1, <3>2, OneRun
  <2>2. /\ tasks' \in [Run -> TaskType] /\ \A q \in Run : q # r => tasks'[q] = tasks[q]
    <3>1. CASE commands!Finish(r)
      BY <3>1, SMTT(90) DEF CommandInv, TaskType, commands!Finish, commands!EndsTask
    <3> QED
      BY <1>7, <3>1 DEF CommandInv, commands!Closes
  <2>3. /\ live' \in [RunId -> Run \cup {0}] /\ down' = down
        /\ \A id \in RunId, q \in Run : q # r /\ live[id] = q => live'[id] = q
    BY <1>7 DEF CommandInv, commands!Closes, commands!Release, commands!NoRun
  <2> QED
    BY <2>1, <2>2, <2>3, StillReachable, ZenonT(60)
<1>8. ASSUME NEW w \in Waiter, commands!WaitOver(w) \/ \E r \in Run : commands!wait(w, r)
      PROVE  CommandInv'
  BY <1>8 DEF CommandInv, commands!WaitOver, commands!wait, commands!Reachable
<1>9. ASSUME NEW c \in Chat, commands!takeInbox(c) \/ commands!forget(c)
      PROVE  CommandInv'
  <2>1. UNCHANGED <<runs, live, down>>
    BY <1>9 DEF commands!takeInbox, commands!forget
  <2>2. tasks' \in [Run -> TaskType] /\ \A q \in Run : tasks[q].status = "running" => tasks'[q].status = "running"
    <3>1. CASE commands!takeInbox(c)
      BY <3>1 DEF commands!takeInbox, CommandInv
    <3>2. CASE commands!forget(c)
      <4>1. \A r \in Run : /\ tasks[r] \in TaskType /\ [tasks[r] EXCEPT !.status = "forgotten"] \in TaskType
        BY DEF CommandInv, TaskType
      <4>2. tasks' = [r \in Run |-> IF runs[r].chat = c /\ tasks[r].status \in {"stopped", "ended"}
                                    THEN [tasks[r] EXCEPT !.status = "forgotten"] ELSE tasks[r]]
        BY <3>2 DEF commands!forget
      <4> QED
        BY <4>1, <4>2
    <3> QED
      BY <1>9, <3>1, <3>2
  <2> QED
    BY <2>1, <2>2, StillReachable DEF CommandInv
<1>10. CASE commands!Shutdown
  <2>1. /\ down' = TRUE /\ live' = [id \in RunId |-> 0]
        /\ tasks' = [r \in Run |-> [tasks[r] EXCEPT !.stopRequested = @ \/ tasks[r].status = "running"]]
    BY <1>10 DEF commands!Shutdown, commands!NoRun
  <2>2. runs' \in [Run -> RunType]
    <3> DEFINE ended(r) == IF (\E id \in RunId : live[id] = r) \/ (tasks[r].status = "running" /\ tasks[r].mode = "pty")
                           THEN commands!Killed(runs[r].child, "killed")
                           ELSE IF tasks[r].status = "running" THEN commands!Killed(runs[r].child, "told")
                           ELSE runs[r].child
    <3>1. runs' = [r \in Run |-> [runs[r] EXCEPT !.child = ended(r)]]
      BY <1>10 DEF commands!Shutdown
    <3>2. \A r \in Run : ended(r) \in {"none", "alive", "told", "killed", "gone", "closed"}
      BY KilledRun DEF CommandInv, RunType
    <3> HIDE DEF ended
    <3>3. \A r \in Run : [runs[r] EXCEPT !.child = ended(r)] \in RunType
      BY <3>2 DEF CommandInv, RunType
    <3> QED
      BY <3>1, <3>3
  <2>3. tasks' \in [Run -> TaskType]
    BY <2>1 DEF CommandInv, TaskType
  <2> QED
    BY <2>1, <2>2, <2>3, StillReachable
<1>11. CASE UNCHANGED <<commandVars, down>>
  BY <1>11 DEF commandVars, CommandInv, commands!Reachable
<1> QED
  BY <1>1, <1>2, <1>3, <1>4, <1>5, <1>6, <1>7, <1>8, <1>9, <1>10, <1>11 DEF commands!Works

\* Ends are reported once and truly, and a chat has no more tasks than it may have.
CommandWell(r) ==
  /\ runs[r].at \in {"idle", "running", "done"} => tasks[r].status = "none"
  /\ runs[r].at # "idle" => runs[r].chat \in Chat
  /\ runs[r].at = "done" \/ tasks[r].status \in {"stopped", "ended"} => runs[r].child \in {"none", "closed"}

WaiterType == [at : {"idle", "waiting", "back"}, for : Run \cup {0}]
WaitersTrue ==
  /\ waiters \in [Waiter -> WaiterType]
  /\ \A w \in Waiter : waiters[w].at = "waiting" =>
       waiters[w].for \in Run /\ tasks[waiters[w].for].status = "running"

Bounded(S) == IsFiniteSet(S) /\ Cardinality(S) <= MaxRunning

\* BackgroundTasks counts with the Cardinality of its own FiniteSets.
LEMMA SameCount == ASSUME NEW S PROVE commands!Cardinality(S) = Cardinality(S)
BY DEF Cardinality, commands!Cardinality, IsFiniteSet, commands!IsFiniteSet

Unread(c, i) == i \in 1..Len(inboxes[c])
ToldOnce ==
  /\ inboxes \in [Chat -> Seq(Run)] /\ read \in [Run -> {0, 1}]
  /\ \A c \in Chat, i \in Nat : Unread(c, i) =>
       LET r == inboxes[c][i] IN tasks[r].status = "ended" /\ read[r] = 0 /\ runs[r].chat = c
  /\ \A c \in Chat, i, j \in Nat : Unread(c, i) /\ Unread(c, j) /\ inboxes[c][i] = inboxes[c][j] => i = j
  /\ \A r \in Run : tasks[r].status = "ended" /\ read[r] = 0 =>
       \E i \in Nat : Unread(runs[r].chat, i) /\ inboxes[runs[r].chat][i] = r
  /\ \A r \in Run : tasks[r].status \in {"none", "running", "stopped"} => read[r] = 0

CommandsTrue ==
  /\ \A r \in Run : CommandWell(r)
  /\ \A id \in RunId : live[id] # 0 => runs[live[id]].at = "running"
  /\ WaitersTrue /\ ToldOnce
  /\ \A c \in Chat : Bounded(commands!running(c))

LEMMA CommandsTrueStart ==
  ASSUME BoundsAssumption, commands!Init
  PROVE  CommandsTrue
<1>1. \A c \in Chat : Bounded(commands!running(c))
  <2>1. \A c \in Chat : commands!running(c) = {}
    BY DEF commands!Init, commands!NoTask, commands!running
  <2> QED
    BY <2>1, FS_EmptySet DEF Bounded, BoundsAssumption
<1>2. ToldOnce
  <2>1. /\ inboxes = [c \in Chat |-> <<>>] /\ read = [r \in Run |-> 0] /\ \A r \in Run : tasks[r].status = "none"
    BY DEF commands!Init, commands!NoTask
  <2>2. \A c \in Chat, i \in Nat : ~Unread(c, i)
    BY <2>1 DEF Unread
  <2> QED
    BY <2>1, <2>2 DEF ToldOnce
<1> QED
  BY <1>1, <1>2 DEF commands!Init, commands!NotRun, commands!NoTask, commands!Unused, commands!NoRun,
                    CommandsTrue, CommandWell, WaitersTrue, WaiterType

\* The bound: tasks end, or one starts where there is room.
LEMMA BoundedKept ==
  ASSUME BoundsAssumption, NEW S, NEW T, Bounded(S), NEW r,
         T \subseteq S \/ (Cardinality(S) < MaxRunning /\ T \subseteq S \cup {r})
  PROVE  Bounded(T)
<1>1. CASE T \subseteq S
  <2>1. IsFiniteSet(T) /\ Cardinality(T) <= Cardinality(S)
    BY <1>1, FS_Subset DEF Bounded
  <2>2. Cardinality(T) \in Nat /\ Cardinality(S) \in Nat
    BY <2>1, FS_CardinalityType DEF Bounded
  <2> QED
    BY <2>1, <2>2 DEF Bounded, BoundsAssumption
<1>2. CASE Cardinality(S) < MaxRunning /\ T \subseteq S \cup {r}
  <2>1. IsFiniteSet(S \cup {r}) /\ Cardinality(S \cup {r}) \in {Cardinality(S), Cardinality(S) + 1}
    BY FS_AddElement DEF Bounded
  <2>2. IsFiniteSet(T) /\ Cardinality(T) <= Cardinality(S \cup {r})
    BY <1>2, <2>1, FS_Subset
  <2>3. Cardinality(T) \in Nat /\ Cardinality(S) \in Nat
    BY <2>2, FS_CardinalityType DEF Bounded
  <2> QED
    BY <1>2, <2>1, <2>2, <2>3 DEF Bounded, BoundsAssumption
<1> QED
  BY <1>1, <1>2

\* Nothing is reported: tasks start, or are stopped.
LEMMA ToldStays ==
  ASSUME ToldOnce, UNCHANGED <<inboxes, read>>,
         \A r \in Run :
           /\ tasks[r].status = "ended" <=> tasks'[r].status = "ended"
           /\ tasks[r].status = "ended" => runs'[r].chat = runs[r].chat
           /\ tasks'[r].status \in {"none", "running", "stopped"} => tasks[r].status \in {"none", "running", "stopped"}
  PROVE  ToldOnce'
<1>1. \A c \in Chat, i \in Nat : /\ Unread(c, i)' <=> Unread(c, i)
                                 /\ Unread(c, i) => inboxes[c][i] \in Run
  BY DEF Unread, ToldOnce
<1>2. \A c \in Chat, i \in Nat : Unread(c, i)' =>
        LET r == inboxes'[c][i] IN tasks'[r].status = "ended" /\ read'[r] = 0 /\ runs'[r].chat = c
  <2> SUFFICES ASSUME NEW c \in Chat, NEW i \in Nat, Unread(c, i)
               PROVE  LET r == inboxes'[c][i] IN tasks'[r].status = "ended" /\ read'[r] = 0 /\ runs'[r].chat = c
    BY <1>1
  <2>1. PICK r \in Run : r = inboxes[c][i] /\ inboxes'[c][i] = r
    BY <1>1
  <2> QED
    BY <2>1 DEF ToldOnce
<1>3. \A r \in Run : tasks'[r].status = "ended" /\ read'[r] = 0 =>
        \E i \in Nat : i \in 1..Len(inboxes'[runs'[r].chat]) /\ inboxes'[runs'[r].chat][i] = r
  BY DEF ToldOnce, Unread
<1>4. \A r \in Run : tasks'[r].status \in {"none", "running", "stopped"} => read'[r] = 0
  BY DEF ToldOnce
<1>5. \A c \in Chat, i, j \in Nat : Unread(c, i)' /\ Unread(c, j)' /\ inboxes'[c][i] = inboxes'[c][j] => i = j
  BY <1>1 DEF ToldOnce
<1> QED
  BY <1>2, <1>3, <1>4, <1>5 DEF ToldOnce, Unread

\* The end of a task goes to the inbox of its chat.
LEMMA ToldMore ==
  ASSUME ToldOnce, read' = read, NEW r \in Run, NEW c \in Chat,
         inboxes' = [inboxes EXCEPT ![c] = Append(@, r)],
         tasks[r].status \in {"none", "running"}, tasks'[r].status = "ended", runs'[r].chat = c,
         \A q \in Run : q # r => tasks'[q] = tasks[q] /\ runs'[q] = runs[q]
  PROVE  ToldOnce'
<1>0. PICK n \in Nat : n = Len(inboxes[c]) + 1
  BY DEF ToldOnce
<1>1. /\ inboxes \in [Chat -> Seq(Run)] /\ inboxes' \in [Chat -> Seq(Run)]
      /\ inboxes'[c] = Append(inboxes[c], r) /\ \A d \in Chat : d # c => inboxes'[d] = inboxes[d]
  BY DEF ToldOnce
<1>2. /\ Len(inboxes'[c]) = n /\ inboxes'[c][n] = r
      /\ \A i \in 1..Len(inboxes[c]) : inboxes'[c][i] = inboxes[c][i]
  BY <1>0, <1>1
<1>3. \A d \in Chat, i \in Nat :
        /\ Unread(d, i) => Unread(d, i)' /\ inboxes'[d][i] = inboxes[d][i] /\ inboxes[d][i] \in Run /\ inboxes[d][i] # r
        /\ Unread(d, i)' => Unread(d, i) \/ (d = c /\ i = n)
  BY <1>0, <1>1, <1>2 DEF Unread, ToldOnce
<1>4. Unread(c, n)' /\ ~Unread(c, n)
  BY <1>0, <1>1, <1>2 DEF Unread
<1>5. \A d \in Chat, i \in Nat : Unread(d, i)' =>
        LET q == inboxes'[d][i] IN tasks'[q].status = "ended" /\ read'[q] = 0 /\ runs'[q].chat = d
  <2> SUFFICES ASSUME NEW d \in Chat, NEW i \in Nat, Unread(d, i)'
               PROVE  LET q == inboxes'[d][i] IN tasks'[q].status = "ended" /\ read'[q] = 0 /\ runs'[q].chat = d
    OBVIOUS
  <2>1. CASE Unread(d, i)
    <3>1. PICK q \in Run : q = inboxes[d][i] /\ inboxes'[d][i] = q /\ q # r
      BY <1>3, <2>1
    <3>2. tasks[q].status = "ended" /\ read[q] = 0 /\ runs[q].chat = d
      BY <2>1, <3>1 DEF ToldOnce
    <3> QED
      BY <3>1, <3>2
  <2>2. CASE d = c /\ i = n
    BY <1>2, <2>2 DEF ToldOnce
  <2> QED
    BY <1>3, <2>1, <2>2
<1>a. ASSUME NEW d \in Chat, NEW i \in Nat, Unread(d, i)
      PROVE  inboxes'[d][i] # r
  <2>1. inboxes'[d][i] = inboxes[d][i]
    BY <1>3, <1>a
  <2>2. inboxes[d][i] # r
    BY <1>3, <1>a
  <2> QED
    BY <2>1, <2>2
<1>6. \A d \in Chat, i, j \in Nat : Unread(d, i)' /\ Unread(d, j)' /\ inboxes'[d][i] = inboxes'[d][j] => i = j
  <2> SUFFICES ASSUME NEW d \in Chat, NEW i \in Nat, NEW j \in Nat, Unread(d, i)', Unread(d, j)',
                      inboxes'[d][i] = inboxes'[d][j]
               PROVE  i = j
    OBVIOUS
  <2>1. CASE Unread(d, i) /\ Unread(d, j)
    BY <1>3, <2>1, ZenonT(60) DEF ToldOnce
  <2>2. CASE Unread(d, i) /\ d = c /\ j = n
    <3>1. inboxes'[d][i] # r
      BY <1>a, <2>2
    <3>2. inboxes'[d][j] = r
      BY <1>2, <2>2
    <3> QED
      BY <3>1, <3>2
  <2>3. CASE Unread(d, j) /\ d = c /\ i = n
    <3>1. inboxes'[d][j] # r
      BY <1>a, <2>3
    <3>2. inboxes'[d][i] = r
      BY <1>2, <2>3
    <3> QED
      BY <3>1, <3>2
  <2> QED
    BY <1>3, <2>1, <2>2, <2>3
<1>7. \A q \in Run : tasks'[q].status = "ended" /\ read'[q] = 0 =>
        \E i \in Nat : (i \in 1..Len(inboxes'[runs'[q].chat])) /\ inboxes'[runs'[q].chat][i] = q
  <2> SUFFICES ASSUME NEW q \in Run, tasks'[q].status = "ended", read'[q] = 0
               PROVE  \E i \in Nat : (i \in 1..Len(inboxes'[runs'[q].chat])) /\ inboxes'[runs'[q].chat][i] = q
    OBVIOUS
  <2>1. CASE q = r
    BY <1>1, <1>2, <2>1
  <2>2. CASE q # r
    <3>1. PICK i \in Nat : Unread(runs[q].chat, i) /\ inboxes[runs[q].chat][i] = q
      BY <2>2 DEF ToldOnce
    <3> QED
      BY <1>1, <1>2, <2>2, <3>1 DEF Unread
  <2> QED
    BY <2>1, <2>2
<1>8. \A q \in Run : tasks'[q].status \in {"none", "running", "stopped"} => read'[q] = 0
  BY DEF ToldOnce
<1> QED
  BY <1>1, <1>5, <1>6, <1>7, <1>8 DEF ToldOnce, Unread

\* No command and no task gets anywhere, processes end or are told to.
LEMMA QuietKeeps ==
  ASSUME BoundsAssumption, CommandInv, CommandsTrue, UNCHANGED <<inboxes, read>>, WaitersTrue',
         \A r \in Run : /\ runs'[r].at = runs[r].at /\ runs'[r].chat = runs[r].chat
                        /\ tasks'[r].status = tasks[r].status
                        /\ runs[r].child \in {"none", "closed"} => runs'[r].child = runs[r].child,
         \A id \in RunId : live'[id] \in {0, live[id]}
  PROVE  CommandsTrue'
<1>1. \A r \in Run : CommandWell(r)'
  BY DEF CommandsTrue, CommandWell
<1>2. ASSUME NEW id \in RunId, live'[id] # 0
      PROVE  runs'[live'[id]].at = "running"
  <2>1. live'[id] = live[id] /\ live[id] \in Run
    BY <1>2 DEF CommandInv
  <2> QED
    BY <2>1, <1>2 DEF CommandsTrue
<1>3. ToldOnce'
  BY ToldStays DEF CommandsTrue
<1>4. \A c \in Chat : commands!running(c)' = commands!running(c)
  BY DEF commands!running
<1> QED
  BY <1>1, <1>2, <1>3, <1>4 DEF CommandsTrue, Bounded

\* One command and its task get on.
LEMMA OneGetsOn ==
  ASSUME BoundsAssumption, CommandInv, CommandsTrue, NEW r \in Run, WaitersTrue', ToldOnce', CommandWell(r)',
         \A q \in Run : q # r => runs'[q] = runs[q] /\ tasks'[q] = tasks[q],
         \A id \in RunId : live'[id] \in {0, live[id]} \/ live'[id] = r,
         \A id \in RunId : live'[id] = r => runs'[r].at = "running",
         tasks'[r].status = "running" =>
           \/ tasks[r].status = "running" /\ runs'[r].chat = runs[r].chat
           \/ commands!HasRoom(runs'[r].chat)
  PROVE  CommandsTrue'
<1>1. \A q \in Run : CommandWell(q)'
  BY DEF CommandsTrue, CommandWell
<1>2. \A id \in RunId : live'[id] # 0 => runs'[live'[id]].at = "running"
  BY ZenonT(60) DEF CommandInv, CommandsTrue
<1>3. ASSUME NEW c \in Chat
      PROVE  Bounded(commands!running(c))'
  <2> DEFINE S == commands!running(c)
             T == {q \in Run : tasks'[q].status = "running" /\ runs'[q].chat = c}
  <2>1. Bounded(S)
    BY DEF CommandsTrue
  <2>2. T \subseteq S \/ (Cardinality(S) < MaxRunning /\ T \subseteq S \cup {r})
    <3>1. T \subseteq S \cup {r} /\ (r \in T => tasks'[r].status = "running" /\ runs'[r].chat = c)
      BY DEF commands!running
    <3>2. CASE r \in T /\ tasks[r].status = "running" /\ runs'[r].chat = runs[r].chat
      <4>1. r \in S
        BY <3>1, <3>2 DEF commands!running
      <4> QED
        BY <3>1, <4>1
    <3>3. CASE r \in T /\ commands!HasRoom(runs'[r].chat)
      <4>1. commands!HasRoom(c)
        BY <3>1, <3>3
      <4>2. Cardinality(S) < MaxRunning
        BY <4>1, SameCount DEF commands!HasRoom
      <4> HIDE DEF S, T
      <4> QED
        BY <3>1, <4>2
    <3>4. CASE r \notin T
      BY <3>1, <3>4
    <3> QED
      BY <3>1, <3>2, <3>3, <3>4
  <2>3. Bounded(T)
    <3> HIDE DEF S, T
    <3> QED
      BY <2>1, <2>2, BoundedKept
  <2> QED
    BY <2>3 DEF commands!running, Bounded
<1> QED
  BY <1>1, <1>2, <1>3 DEF CommandsTrue

LEMMA HandedOverTrue ==
  ASSUME BoundsAssumption, CommandInv, CommandsTrue, NEW r \in Run, commands!CanDetach(r), commands!HandOver(r),
         UNCHANGED <<inboxes, read, waiters>>
  PROVE  CommandsTrue'
<1>1. /\ runs[r].at = "running" /\ commands!HasRoom(runs[r].chat)
      /\ tasks[r].status = "none" /\ runs[r].chat \in Chat
  BY DEF commands!CanDetach, CommandsTrue, CommandWell
<1>2. tasks'[r].status = "running" /\ \A q \in Run : q # r => tasks'[q] = tasks[q]
  BY DEF CommandInv, commands!HandOver, commands!NoTask, TaskType
<1>3. /\ runs'[r].at = "detached" /\ runs'[r].chat = runs[r].chat
      /\ \A q \in Run : q # r => runs'[q] = runs[q]
  BY DEF CommandInv, commands!HandOver, RunType
<1>4. \A id \in RunId : live'[id] \in {0, live[id]} /\ live'[id] # r
  BY BoundsAssumption DEF CommandInv, commands!HandOver, commands!Release, commands!NoRun, BoundsAssumption
<1>5. ToldOnce'
  <2>1. \A q \in Run : /\ tasks[q].status = "ended" <=> tasks'[q].status = "ended"
                       /\ tasks[q].status = "ended" => runs'[q].chat = runs[q].chat
                       /\ tasks'[q].status \in {"none", "running", "stopped"} =>
                            tasks[q].status \in {"none", "running", "stopped"}
    BY <1>1, <1>2, <1>3
  <2> QED
    BY <2>1, ToldStays DEF CommandsTrue
<1>6. WaitersTrue'
  BY <1>2 DEF CommandsTrue, WaitersTrue
<1>7. CommandWell(r)'
  BY <1>1, <1>2, <1>3 DEF CommandWell
<1> QED
  BY <1>1, <1>2, <1>3, <1>4, <1>5, <1>6, <1>7, OneGetsOn

\* The model is told of what is in the inbox, and the inbox is empty.
LEMMA InboxTaken ==
  ASSUME CommandInv, ToldOnce, NEW c \in Chat, commands!takeInbox(c)
  PROVE  ToldOnce'
<1> DEFINE told1(q) == \E i \in Nat : Unread(c, i) /\ inboxes[c][i] = q
<1>1. /\ \A d \in Chat : d # c => inboxes'[d] = inboxes[d]
      /\ inboxes'[c] = <<>> /\ inboxes' \in [Chat -> Seq(Run)] /\ UNCHANGED <<runs, tasks>>
  BY DEF commands!takeInbox, ToldOnce
<1>2. \A q \in Run : q \in commands!ToSet(inboxes[c]) <=> told1(q)
  BY DEF commands!ToSet, ToldOnce, Unread
<1>3. \A q \in Run : /\ told1(q) => tasks[q].status = "ended" /\ read[q] = 0 /\ runs[q].chat = c /\ read'[q] = 1
                     /\ ~told1(q) => read'[q] = read[q]
  <2> SUFFICES ASSUME NEW q \in Run
               PROVE  /\ told1(q) => tasks[q].status = "ended" /\ read[q] = 0 /\ runs[q].chat = c /\ read'[q] = 1
                      /\ ~told1(q) => read'[q] = read[q]
    OBVIOUS
  <2>1. told1(q) => tasks[q].status = "ended" /\ read[q] = 0 /\ runs[q].chat = c
    BY DEF ToldOnce
  <2>2. read'[q] = IF told1(q) THEN read[q] + 1 ELSE read[q]
    BY <1>2 DEF commands!takeInbox
  <2> HIDE DEF told1
  <2> QED
    BY <2>1, <2>2
<1>4. read' \in [Run -> {0, 1}]
  BY <1>2, <1>3 DEF commands!takeInbox, ToldOnce
<1> HIDE DEF told1
<1>5. \A d \in Chat, i \in Nat : Unread(d, i)' => Unread(d, i) /\ d # c /\ inboxes'[d][i] = inboxes[d][i]
                                                  /\ inboxes[d][i] \in Run
  BY <1>1 DEF Unread, ToldOnce
<1>6. ASSUME NEW d \in Chat, NEW i \in Nat, Unread(d, i)'
      PROVE  LET q == inboxes'[d][i] IN tasks'[q].status = "ended" /\ read'[q] = 0 /\ runs'[q].chat = d
  <2>1. PICK q \in Run : q = inboxes[d][i] /\ inboxes'[d][i] = q
    BY <1>5, <1>6
  <2>2. tasks[q].status = "ended" /\ read[q] = 0 /\ runs[q].chat = d /\ d # c
    BY <1>5, <1>6, <2>1 DEF ToldOnce
  <2> QED
    BY <1>1, <1>3, <2>1, <2>2
<1>7. ASSUME NEW q \in Run, tasks'[q].status = "ended", read'[q] = 0
      PROVE  \E i \in Nat : i \in 1..Len(inboxes'[runs'[q].chat]) /\ inboxes'[runs'[q].chat][i] = q
  <2>1. tasks[q].status = "ended" /\ read[q] = 0 /\ ~told1(q)
    BY <1>1, <1>3, <1>7
  <2>2. PICK i \in Nat : Unread(runs[q].chat, i) /\ inboxes[runs[q].chat][i] = q
    BY <2>1 DEF ToldOnce
  <2>3. runs[q].chat # c
    BY <2>1, <2>2 DEF told1
  <2>4. inboxes'[runs[q].chat] = inboxes[runs[q].chat]
    BY <1>1, <2>3 DEF commands!takeInbox, ToldOnce
  <2> QED
    BY <1>1, <2>2, <2>4 DEF Unread
<1>8. \A d \in Chat, i, j \in Nat : Unread(d, i)' /\ Unread(d, j)' /\ inboxes'[d][i] = inboxes'[d][j] => i = j
  BY <1>5 DEF ToldOnce
<1>9. \A q \in Run : tasks'[q].status \in {"none", "running", "stopped"} => read'[q] = 0
  BY <1>1, <1>3 DEF ToldOnce
<1> QED
  BY <1>1, <1>4, <1>6, <1>7, <1>8, <1>9 DEF ToldOnce, Unread

\* With the chat go its inbox and what has ended.
LEMMA ChatForgotten ==
  ASSUME CommandInv, ToldOnce, NEW c \in Chat, commands!forget(c),
         \A q \in Run : tasks'[q].status = IF runs[q].chat = c /\ tasks[q].status \in {"stopped", "ended"}
                                           THEN "forgotten" ELSE tasks[q].status
  PROVE  ToldOnce'
<1>1. /\ \A d \in Chat : d # c => inboxes'[d] = inboxes[d]
      /\ inboxes'[c] = <<>> /\ inboxes' \in [Chat -> Seq(Run)] /\ UNCHANGED <<runs, read>>
  BY DEF commands!forget, ToldOnce
<1>2. \A d \in Chat, i \in Nat : Unread(d, i)' => Unread(d, i) /\ d # c /\ inboxes'[d][i] = inboxes[d][i]
                                                  /\ inboxes[d][i] \in Run
  BY <1>1 DEF Unread, ToldOnce
<1>3. ASSUME NEW d \in Chat, NEW i \in Nat, Unread(d, i)'
      PROVE  LET q == inboxes'[d][i] IN tasks'[q].status = "ended" /\ read'[q] = 0 /\ runs'[q].chat = d
  <2>1. PICK q \in Run : q = inboxes[d][i] /\ inboxes'[d][i] = q
    BY <1>2, <1>3
  <2>2. tasks[q].status = "ended" /\ read[q] = 0 /\ runs[q].chat = d /\ d # c
    BY <1>2, <1>3, <2>1 DEF ToldOnce
  <2> QED
    BY <1>1, <2>1, <2>2
<1>4. ASSUME NEW q \in Run, tasks'[q].status = "ended", read'[q] = 0
      PROVE  \E i \in Nat : i \in 1..Len(inboxes'[runs'[q].chat]) /\ inboxes'[runs'[q].chat][i] = q
  <2>1. tasks[q].status = "ended" /\ read[q] = 0 /\ runs[q].chat # c
    BY <1>1, <1>4
  <2>2. PICK i \in Nat : Unread(runs[q].chat, i) /\ inboxes[runs[q].chat][i] = q
    BY <2>1 DEF ToldOnce
  <2>3. inboxes'[runs[q].chat] = inboxes[runs[q].chat]
    BY <1>1, <2>1 DEF commands!forget, ToldOnce
  <2> QED
    BY <1>1, <2>2, <2>3 DEF Unread
<1>5. \A d \in Chat, i, j \in Nat : Unread(d, i)' /\ Unread(d, j)' /\ inboxes'[d][i] = inboxes'[d][j] => i = j
  BY <1>2 DEF ToldOnce
<1>6. \A q \in Run : tasks'[q].status \in {"none", "running", "stopped"} => read'[q] = 0
  BY <1>1 DEF ToldOnce
<1>7. read' \in [Run -> {0, 1}]
  BY <1>1 DEF ToldOnce
<1> QED
  BY <1>1, <1>3, <1>4, <1>5, <1>6, <1>7 DEF ToldOnce, Unread

LEMMA CommandsTrueKeep ==
  ASSUME BoundsAssumption, CommandInv, CommandsTrue, CommandInv',
         (commands!Works /\ down' = down) \/ commands!Shutdown \/ UNCHANGED <<commandVars, down>>
  PROVE  CommandsTrue'
<1>0. 0 \notin Run /\ \A id \in RunId : live[id] \in Run \cup {0}
  BY DEF BoundsAssumption, CommandInv
\* the waits, as long as no task ends
<1>1. ASSUME UNCHANGED waiters, \A q \in Run : tasks[q].status = "running" => tasks'[q].status = "running"
      PROVE  WaitersTrue'
  BY <1>1 DEF CommandsTrue, WaitersTrue
<1>2. ASSUME NEW r \in Run, NEW c \in Chat, NEW id \in RunId, commands!RunForeground(r, id, c)
      PROVE  CommandsTrue'
  <2>1. /\ runs[r].at = "idle" /\ UNCHANGED <<tasks, inboxes, read, waiters>> /\ tasks[r].status = "none"
    BY <1>2 DEF commands!RunForeground, commands!Fresh, CommandsTrue, CommandWell
  <2>2. PICK child0 \in {"alive", "gone", "none"}, at \in {"running", "done"} :
          /\ runs' = [runs EXCEPT ![r] = [id |-> id, chat |-> c, at |-> at, limit |-> "set", child |-> child0]]
          /\ at = "done" => child0 = "none" /\ live' = live
          /\ at = "running" => live' = [live EXCEPT ![id] = r]
    BY <1>2 DEF commands!RunForeground, commands!NotRun
  <2>3. /\ runs'[r].at = at /\ runs'[r].chat = c /\ runs'[r].child = child0
        /\ \A q \in Run : q # r => runs'[q] = runs[q]
    BY <2>2 DEF CommandInv
  <2>4. ToldOnce'
    BY <2>1, <2>3, ToldStays DEF CommandsTrue
  <2>5. WaitersTrue'
    BY <1>1, <2>1
  <2>6. CommandWell(r)'
    BY <2>1, <2>2, <2>3 DEF CommandWell
  <2>7. \A k \in RunId : live[k] # r
    BY <1>0, <2>1 DEF CommandsTrue
  <2>8. \A k \in RunId : live'[k] \in {0, live[k]} \/ live'[k] = r
    BY <2>2 DEF CommandInv
  <2>9. \A k \in RunId : live'[k] = r => runs'[r].at = "running"
    BY <2>2, <2>3, <2>7
  <2> QED
    BY <2>1, <2>3, <2>4, <2>5, <2>6, <2>8, <2>9, OneGetsOn
<1>3. ASSUME NEW r \in Run, NEW c \in Chat, commands!StartBackground(r, c)
      PROVE  CommandsTrue'
  <2>1. PICK mode \in {"pty", "pipe"}, child0 \in {"alive", "gone", "none"} :
       /\ runs' = [runs EXCEPT ![r] = [commands!NotRun EXCEPT !.chat = c, !.at = "background", !.child = child0]]
       /\ tasks' = [tasks EXCEPT ![r] = [commands!NoTask EXCEPT
                       !.status = IF child0 = "none" THEN "ended" ELSE "running", !.mode = mode]]
       /\ inboxes' = IF child0 = "none" THEN [inboxes EXCEPT ![c] = Append(@, r)] ELSE inboxes
    BY <1>3 DEF commands!StartBackground
  <2>2. /\ UNCHANGED <<live, read, waiters>> /\ commands!HasRoom(c) /\ runs[r].at = "idle" /\ tasks[r].status = "none"
    BY <1>3 DEF commands!StartBackground, commands!Fresh, CommandsTrue, CommandWell
  <2>3. /\ runs'[r].at = "background" /\ runs'[r].chat = c /\ runs'[r].child = child0
        /\ \A q \in Run : q # r => runs'[q] = runs[q]
    BY <2>1 DEF CommandInv, commands!NotRun
  <2>4. /\ tasks'[r].status = IF child0 = "none" THEN "ended" ELSE "running"
        /\ \A q \in Run : q # r => tasks'[q] = tasks[q]
    BY <2>1 DEF CommandInv, commands!NoTask
  <2>5. ToldOnce'
    <3>1. CASE child0 = "none"
      BY <2>1, <2>2, <2>3, <2>4, <3>1, ToldMore DEF CommandsTrue
    <3>2. CASE child0 # "none"
      BY <2>1, <2>2, <2>3, <2>4, <3>2, ToldStays DEF CommandsTrue
    <3> QED
      BY <3>1, <3>2
  <2>6. WaitersTrue'
    BY <1>1, <2>2, <2>4
  <2>7. CommandWell(r)'
    BY <2>3, <2>4 DEF CommandWell
  <2>8. \A k \in RunId : live'[k] = live[k] /\ live[k] # r
    BY <1>0, <2>2 DEF CommandsTrue
  <2> QED
    BY <2>2, <2>3, <2>4, <2>5, <2>6, <2>7, <2>8, OneGetsOn
<1>4. ASSUME NEW id \in RunId, commands!Detach(id)
      PROVE  CommandsTrue'
  BY <1>0, <1>4, HandedOverTrue DEF commands!Detach, commands!NoRun
<1>5. ASSUME NEW id \in RunId, commands!Cancel(id)
      PROVE  CommandsTrue'
  <2>1. /\ live[id] \in Run /\ UNCHANGED <<tasks, inboxes, read, waiters>> /\ live' = [live EXCEPT ![id] = 0]
        /\ runs' = [runs EXCEPT ![live[id]].child = commands!Killed(@, "told")]
    BY <1>0, <1>5 DEF commands!Cancel, commands!Kill, commands!NoRun
  <2>2. \A q \in Run : /\ runs'[q].at = runs[q].at /\ runs'[q].chat = runs[q].chat
                       /\ runs[q].child \in {"none", "closed"} => runs'[q].child = runs[q].child
    BY <2>1 DEF CommandInv, RunType, commands!Killed
  <2>3. \A k \in RunId : live'[k] \in {0, live[k]}
    BY <2>1 DEF CommandInv
  <2> QED
    BY <1>1, <2>1, <2>2, <2>3, QuietKeeps
<1>6. ASSUME NEW r \in Run, commands!TimeLimit(r)
      PROVE  CommandsTrue'
  <2>1. UNCHANGED <<inboxes, read, waiters>>
    BY <1>6 DEF commands!TimeLimit
  <2>2. CASE commands!CanDetach(r) /\ commands!HandOver(r)
    BY <2>1, <2>2, HandedOverTrue
  <2>3. CASE /\ runs' = [runs EXCEPT ![r].limit = "over", ![r].child = commands!Killed(@, "told")]
             /\ UNCHANGED <<live, tasks>>
    <3> DEFINE run == [runs[r] EXCEPT !.limit = "over", !.child = commands!Killed(@, "told")]
    <3>1. /\ run.at = runs[r].at /\ run.chat = runs[r].chat
          /\ runs[r].child \in {"none", "closed"} => run.child = runs[r].child
      BY DEF CommandInv, RunType, commands!Killed
    <3>2. runs' = [runs EXCEPT ![r] = run] /\ runs \in [Run -> RunType]
      BY <2>3 DEF CommandInv
    <3> HIDE DEF run
    <3>3. \A q \in Run : /\ runs'[q].at = runs[q].at /\ runs'[q].chat = runs[q].chat
                         /\ runs[q].child \in {"none", "closed"} => runs'[q].child = runs[q].child
      BY <3>1, <3>2
    <3> QED
      BY <1>1, <2>1, <2>3, <3>3, QuietKeeps
  <2> QED
    BY <1>6, <2>2, <2>3 DEF commands!TimeLimit
<1>7. ASSUME NEW r \in Run, commands!stop(r)
      PROVE  CommandsTrue'
  <2>1. /\ runs' = [runs EXCEPT ![r].child = commands!Killed(@, "told")] /\ UNCHANGED <<live, inboxes, read, waiters>>
        /\ tasks' = [tasks EXCEPT ![r].stopRequested = TRUE]
    BY <1>7 DEF commands!stop, commands!Kill
  <2>2. \A q \in Run : /\ runs'[q].at = runs[q].at /\ runs'[q].chat = runs[q].chat
                       /\ runs[q].child \in {"none", "closed"} => runs'[q].child = runs[q].child
    BY <2>1 DEF CommandInv, RunType, commands!Killed
  <2>3. \A q \in Run : tasks'[q].status = tasks[q].status
    BY <2>1 DEF CommandInv, TaskType
  <2> QED
    BY <1>1, <2>1, <2>2, <2>3, QuietKeeps
<1>8. ASSUME NEW r \in Run, commands!Ends(r)
      PROVE  CommandsTrue'
  <2>1. /\ runs' = [runs EXCEPT ![r].child = "gone"] /\ runs[r].child \notin {"none", "closed"}
        /\ UNCHANGED <<live, tasks, inboxes, read, waiters>>
    BY <1>8 DEF commands!Ends
  <2>2. \A q \in Run : /\ runs'[q].at = runs[q].at /\ runs'[q].chat = runs[q].chat
                       /\ runs[q].child \in {"none", "closed"} => runs'[q].child = runs[q].child
    BY <2>1 DEF CommandInv, RunType
  <2> QED
    BY <1>1, <2>1, <2>2, QuietKeeps
<1>9. ASSUME NEW r \in Run, commands!Closes(r)
      PROVE  CommandsTrue'
  <2>1. /\ runs'[r].child = "closed" /\ runs'[r].chat = runs[r].chat
        /\ runs'[r].at = IF runs[r].at = "running" THEN "done" ELSE runs[r].at
        /\ \A q \in Run : q # r => runs'[q] = runs[q]
    <3> DEFINE run == [runs[r] EXCEPT !.child = "closed", !.at = IF @ = "running" THEN "done" ELSE @]
    <3>1. /\ run.child = "closed" /\ run.chat = runs[r].chat
          /\ run.at = IF runs[r].at = "running" THEN "done" ELSE runs[r].at
      BY DEF CommandInv, RunType
    <3>2. runs' = [runs EXCEPT ![r] = run] /\ runs \in [Run -> RunType]
      BY <1>9 DEF commands!Closes, CommandInv
    <3> HIDE DEF run
    <3> QED
      BY <3>1, <3>2
  <2>2. \A k \in RunId : live'[k] \in {0, live[k]} /\ (live'[k] = r => runs[r].at # "running")
    BY <1>0, <1>9 DEF commands!Closes, commands!Release, commands!NoRun
  <2>3. \A k \in RunId : live'[k] # r
    BY <1>0, <2>2 DEF CommandsTrue
  <2>4. read' = read
    BY <1>9 DEF commands!Closes
  <2>5. CASE tasks[r].status # "running"
    <3>1. UNCHANGED <<tasks, inboxes, waiters>>
      BY <1>9, <2>5 DEF commands!Closes
    <3>2. ToldOnce'
      BY <2>1, <2>4, <3>1, ToldStays DEF CommandsTrue
    <3>3. WaitersTrue'
      BY <1>1, <3>1
    <3>4. CommandWell(r)'
      BY <2>1, <3>1 DEF CommandsTrue, CommandWell
    <3> QED
      BY <2>1, <2>2, <2>3, <2>5, <3>1, <3>2, <3>3, <3>4, OneGetsOn
  <2>6. CASE tasks[r].status = "running"
    <3>1. commands!EndsTask(r) /\ commands!SettleWaiters(r)
      BY <1>9, <2>6 DEF commands!Closes, commands!Finish
    <3>2. /\ tasks'[r].status = IF tasks[r].stopRequested THEN "stopped" ELSE "ended"
          /\ \A q \in Run : q # r => tasks'[q] = tasks[q]
      BY <3>1 DEF commands!EndsTask, CommandInv, TaskType
    <3>3. runs[r].chat \in Chat /\ runs[r].at \notin {"idle", "running", "done"}
      BY <2>6 DEF CommandsTrue, CommandWell
    <3>4. ToldOnce'
      <4>1. CASE tasks[r].stopRequested
        BY <2>1, <2>4, <2>6, <3>1, <3>2, <4>1, ToldStays DEF CommandsTrue, commands!EndsTask
      <4>2. CASE ~tasks[r].stopRequested
        <5>1. inboxes' = [inboxes EXCEPT ![runs[r].chat] = Append(@, r)] /\ tasks'[r].status = "ended"
          BY <3>1, <3>2, <4>2 DEF commands!EndsTask
        <5> QED
          BY <2>1, <2>4, <2>6, <3>2, <3>3, <5>1, ToldMore DEF CommandsTrue
      <4> QED
        BY <4>1, <4>2
    <3>5. WaitersTrue'
      <4>1. \A w \in Waiter : [waiters[w] EXCEPT !.at = "back"] \in WaiterType /\ [waiters[w] EXCEPT !.at = "back"].at = "back"
        BY DEF CommandsTrue, WaitersTrue, WaiterType
      <4>2. waiters' \in [Waiter -> WaiterType]
        BY <3>1, <4>1 DEF commands!SettleWaiters, CommandsTrue, WaitersTrue
      <4>3. \A w \in Waiter : waiters'[w].at = "waiting" => waiters'[w] = waiters[w] /\ waiters[w].for # r
        BY <3>1, <4>1 DEF commands!SettleWaiters
      <4>4. ASSUME NEW w \in Waiter, waiters'[w].at = "waiting"
            PROVE  waiters'[w].for \in Run /\ tasks'[waiters'[w].for].status = "running"
        <5>1. waiters[w].for \in Run /\ tasks[waiters[w].for].status = "running"
          BY <4>3, <4>4 DEF CommandsTrue, WaitersTrue
        <5> QED
          BY <3>2, <4>3, <4>4, <5>1
      <4> QED
        BY <4>2, <4>4 DEF WaitersTrue
    <3>6. CommandWell(r)'
      BY <2>1, <3>2, <3>3 DEF CommandWell
    <3> QED
      BY <2>1, <2>2, <2>3, <3>2, <3>4, <3>5, <3>6, OneGetsOn
  <2> QED
    BY <2>5, <2>6
<1>10. ASSUME NEW w \in Waiter, commands!WaitOver(w) \/ \E r \in Run : commands!wait(w, r)
       PROVE  CommandsTrue'
  <2>1. UNCHANGED <<runs, live, tasks, inboxes, read>>
    BY <1>10 DEF commands!WaitOver, commands!wait
  <2>2. WaitersTrue'
    <3>1. CASE commands!WaitOver(w)
      BY <3>1 DEF commands!WaitOver, CommandsTrue, WaitersTrue, WaiterType
    <3>2. ASSUME NEW r \in Run, commands!wait(w, r)
          PROVE  WaitersTrue'
      BY <3>2 DEF commands!wait, CommandsTrue, WaitersTrue, WaiterType
    <3> QED
      BY <1>10, <3>1, <3>2
  <2> QED
    BY <2>1, <2>2, QuietKeeps
<1>11. ASSUME NEW c \in Chat, commands!takeInbox(c)
       PROVE  CommandsTrue'
  <2>1. UNCHANGED <<runs, live, tasks, waiters>>
    BY <1>11 DEF commands!takeInbox
  <2>2. ToldOnce'
    BY <1>11, InboxTaken DEF CommandsTrue
  <2> QED
    BY <1>1, <2>1, <2>2 DEF CommandsTrue, CommandWell, Bounded, commands!running
<1>12. ASSUME NEW c \in Chat, commands!forget(c)
       PROVE  CommandsTrue'
  <2>1. UNCHANGED <<runs, live, waiters>>
        /\ tasks' = [q \in Run |-> IF runs[q].chat = c /\ tasks[q].status \in {"stopped", "ended"}
                                   THEN [tasks[q] EXCEPT !.status = "forgotten"] ELSE tasks[q]]
    BY <1>12 DEF commands!forget
  <2>2. \A q \in Run : tasks'[q].status = IF runs[q].chat = c /\ tasks[q].status \in {"stopped", "ended"}
                                          THEN "forgotten" ELSE tasks[q].status
    BY <2>1 DEF CommandInv, TaskType
  <2>3. ToldOnce'
    BY <1>12, <2>2, ChatForgotten DEF CommandsTrue
  <2>4. \A q \in Run : CommandWell(q)'
    BY <2>1, <2>2 DEF CommandsTrue, CommandWell
  <2>5. \A d \in Chat : commands!running(d)' = commands!running(d)
    BY <2>1, <2>2 DEF commands!running
  <2> QED
    BY <1>1, <2>1, <2>2, <2>3, <2>4, <2>5 DEF CommandsTrue, Bounded
<1>13. CASE commands!Shutdown
  <2>1. /\ live' = [id \in RunId |-> 0] /\ UNCHANGED <<inboxes, read, waiters>>
        /\ tasks' = [r \in Run |-> [tasks[r] EXCEPT !.stopRequested = @ \/ tasks[r].status = "running"]]
    BY <1>13 DEF commands!Shutdown, commands!NoRun
  <2>2. \A q \in Run : tasks'[q].status = tasks[q].status
    BY <2>1 DEF CommandInv, TaskType
  <2>3. ASSUME NEW q \in Run
        PROVE  /\ runs'[q].at = runs[q].at /\ runs'[q].chat = runs[q].chat
               /\ runs[q].child \in {"none", "closed"} => runs'[q].child = runs[q].child
    <3>1. PICK how \in {"told", "killed", "not"} :
            runs'[q] = [runs[q] EXCEPT !.child = IF how = "not" THEN @ ELSE commands!Killed(@, how)]
      BY <1>13 DEF commands!Shutdown
    <3> QED
      BY <3>1 DEF CommandInv, RunType, commands!Killed
  <2> QED
    BY <1>1, <2>1, <2>2, <2>3, QuietKeeps
<1>14. CASE UNCHANGED <<commandVars, down>>
  BY <1>1, <1>14, QuietKeeps DEF commandVars
<1> QED
  BY <1>2, <1>3, <1>4, <1>5, <1>6, <1>7, <1>8, <1>9, <1>10, <1>11, <1>12, <1>13, <1>14 DEF commands!Works

\* What the invariant says of the properties of the module.
LEMMA CommandsTrueShow ==
  ASSUME BoundsAssumption, CommandInv, CommandsTrue
  PROVE  /\ commands!EndedIsClosed /\ commands!TasksBounded /\ commands!WaitsForRunning
         /\ commands!ReportedOnce
<1>1. commands!EndedIsClosed /\ commands!WaitsForRunning
  BY DEF CommandsTrue, CommandWell, WaitersTrue, commands!EndedIsClosed, commands!WaitsForRunning
<1>2. commands!TasksBounded
  BY SameCount DEF CommandsTrue, Bounded, commands!TasksBounded
<1>3. ASSUME NEW r \in Run, runs[r].chat \in Chat
      PROVE  /\ commands!InInbox(r) \in {0, 1}
             /\ commands!InInbox(r) = 1 <=> tasks[r].status = "ended" /\ read[r] = 0
  <2> DEFINE S == {i \in DOMAIN inboxes[runs[r].chat] : inboxes[runs[r].chat][i] = r}
  <2>1. S \subseteq Nat /\ \A i \in Nat : i \in S <=> Unread(runs[r].chat, i) /\ inboxes[runs[r].chat][i] = r
    BY <1>3 DEF Unread, CommandsTrue, ToldOnce
  <2>2. \A i, j \in S : i = j
    BY <1>3, <2>1 DEF CommandsTrue, ToldOnce
  <2>3. (\E i \in Nat : i \in S) <=> tasks[r].status = "ended" /\ read[r] = 0
    BY <1>3, <2>1 DEF CommandsTrue, ToldOnce
  <2>4. commands!InInbox(r) = Cardinality(S)
    BY SameCount DEF commands!InInbox
  <2> HIDE DEF S
  <2>5. CASE \E i \in Nat : i \in S
    <3>1. PICK i \in Nat : S = {i}
      BY <2>1, <2>2, <2>5
    <3>2. Cardinality(S) = 1
      BY <3>1, FS_Singleton
    <3> QED
      BY <2>3, <2>4, <2>5, <3>2
  <2>6. CASE ~\E i \in Nat : i \in S
    <3>1. S = {}
      BY <2>1, <2>6
    <3>2. Cardinality(S) = 0
      BY <3>1, FS_EmptySet
    <3> QED
      BY <2>3, <2>4, <2>6, <3>2
  <2> QED
    BY <2>5, <2>6
<1>4. ASSUME NEW r \in Run
      PROVE  /\ commands!Reports(r) <= 1
             /\ tasks[r].status = "ended" => commands!Reports(r) = 1
             /\ tasks[r].status = "stopped" => commands!Reports(r) = 0
  <2>1. read[r] \in {0, 1} /\ (tasks[r].status \in {"none", "running", "stopped"} => read[r] = 0)
    BY DEF CommandsTrue, ToldOnce
  <2>2. CASE runs[r].chat \in Chat
    BY <1>3, <2>1, <2>2 DEF commands!Reports
  <2>3. CASE runs[r].chat \notin Chat
    <3>1. tasks[r].status = "none"
      BY <2>3 DEF CommandsTrue, CommandWell
    <3> QED
      BY <2>1, <2>3, <3>1 DEF commands!Reports
  <2> QED
    BY <2>2, <2>3
<1>5. commands!ReportedOnce
  BY <1>4 DEF commands!ReportedOnce
<1> QED
  BY <1>1, <1>2, <1>5

-----------------------------------------------------------------------------
(* The embedding engine.                                                   *)

RequestType == [at : {"idle", "info", "ping", "wait", "flags", "load", "served", "failed"},
                file : File \cup {"none"}, waits : Request \cup {0}, got : Request \cup {0}]
ServerStates == {"none", "loading", "ready", "gone", "reaped"}

\* While requests agree on the file, one of them at most launches a server, all others
\* can join it, and nothing runs until it has.
EmbedInv ==
  /\ requests \in [Request -> RequestType] /\ servers \in [Request -> ServerStates]
  /\ child \in Request \cup {0} /\ starting \in Request \cup {0}
  /\ starting # 0 => embedServer!Launching(starting)
  /\ alike =>
       /\ \A q, r \in Request : embedServer!UnderWay(q) /\ embedServer!UnderWay(r) =>
            requests[q].file = requests[r].file
       /\ \A r \in Request : embedServer!Launching(r) => starting = r
       /\ \A r \in Request : requests[r].at = "flags" => child = 0
  /\ embedServer!KnownServer

LEMMA EmbedStarts ==
  ASSUME embedServer!Init
  PROVE  EmbedInv
BY DEF embedServer!Init, embedServer!NotAsked, embedServer!Nobody, EmbedInv, RequestType, ServerStates,
       embedServer!UnderWay, embedServer!Launching, embedServer!KnownServer, embedServer!Alive

LEMMA EmbedStops ==
  ASSUME BoundsAssumption, EmbedInv, embedServer!stopSync
  PROVE  /\ child' = 0 /\ servers' \in [Request -> ServerStates]
         /\ alike => \A r \in Request : ~embedServer!Alive(r)'
BY DEF BoundsAssumption, EmbedInv, embedServer!stopSync, embedServer!Nobody, ServerStates, embedServer!Alive,
       embedServer!KnownServer

\* A launch stops what runs, and is what may be joined.
LEMMA EmbedLaunches ==
  ASSUME BoundsAssumption, EmbedInv, NEW r \in Request, requests[r].at \in {"info", "ping"},
         alike => \A q \in Request : ~embedServer!Launching(q),
         embedServer!launch(r), alike' = alike
  PROVE  EmbedInv'
<1>1. /\ child' = 0 /\ servers' \in [Request -> ServerStates]
      /\ alike => \A q \in Request : ~embedServer!Alive(q)'
  BY EmbedStops DEF embedServer!launch
<1>2. starting' = r /\ requests' = [requests EXCEPT ![r] = [requests[r] EXCEPT !.at = "flags", !.waits = r]]
  BY DEF embedServer!launch
<1>3. requests' \in [Request -> RequestType] /\ requests'[r].at = "flags" /\ requests'[r].file = requests[r].file
      /\ \A q \in Request : q # r => requests'[q] = requests[q]
  <2> DEFINE new == [requests[r] EXCEPT !.at = "flags", !.waits = r]
  <2>1. requests \in [Request -> RequestType] /\ requests[r] \in RequestType
    BY DEF EmbedInv
  <2>2. new \in RequestType /\ new.at = "flags" /\ new.file = requests[r].file
    BY <2>1 DEF RequestType
  <2>3. requests' = [requests EXCEPT ![r] = new]
    BY <1>2
  <2> HIDE DEF new
  <2> QED
    BY <2>1, <2>2, <2>3
<1>4. \A q \in Request : embedServer!UnderWay(q)' => embedServer!UnderWay(q) /\ requests'[q].file = requests[q].file
  BY <1>3 DEF embedServer!UnderWay, embedServer!Launching
<1>5. \A q \in Request : embedServer!Launching(q)' /\ q # r => embedServer!Launching(q)
  BY <1>3 DEF embedServer!Launching
<1>6. embedServer!Launching(r)'
  BY <1>3 DEF embedServer!Launching
<1>7. embedServer!KnownServer'
  BY <1>1 DEF embedServer!KnownServer
<1> QED
  BY <1>1, <1>2, <1>3, <1>4, <1>5, <1>6, <1>7 DEF EmbedInv

\* With the processes left alone, requests may move on, except to launch.
LEMMA RequestsMove ==
  ASSUME EmbedInv, UNCHANGED <<child, alike>>, servers' \in [Request -> ServerStates],
         \A q \in Request : embedServer!Alive(q)' => embedServer!Alive(q),
         requests' \in [Request -> RequestType],
         \A q \in Request :
           /\ embedServer!UnderWay(q)' => embedServer!UnderWay(q) /\ requests'[q].file = requests[q].file
           /\ embedServer!Launching(q)' => embedServer!Launching(q)
           /\ requests'[q].at = "flags" => requests[q].at = "flags",
         \/ starting' = starting /\ (starting # 0 => embedServer!Launching(starting)')
         \/ starting' = 0 /\ (alike => \A q \in Request : ~embedServer!Launching(q)')
  PROVE  EmbedInv'
BY DEF EmbedInv, embedServer!KnownServer

LEMMA JoinKeeps ==
  ASSUME BoundsAssumption, EmbedInv, NEW r \in Request, requests[r].at \in {"info", "ping"}, starting # 0,
         embedServer!Join(r), alike' = alike
  PROVE  EmbedInv'
<1>1. /\ requests' = [requests EXCEPT ![r] = [requests[r] EXCEPT !.at = "wait", !.waits = starting]]
      /\ UNCHANGED <<servers, child, starting>>
  BY DEF embedServer!Join
<1>2. /\ requests' \in [Request -> RequestType] /\ requests'[r].at = "wait" /\ requests'[r].file = requests[r].file
      /\ \A q \in Request : q # r => requests'[q] = requests[q]
  <2> DEFINE new == [requests[r] EXCEPT !.at = "wait", !.waits = starting]
  <2>0. requests[r] \in RequestType /\ starting \in Request \cup {0}
    BY DEF EmbedInv
  <2>1. new \in RequestType /\ new.at = "wait" /\ new.file = requests[r].file
    BY <2>0 DEF RequestType
  <2>2. requests' = [requests EXCEPT ![r] = new] /\ requests \in [Request -> RequestType]
    BY <1>1 DEF EmbedInv
  <2> HIDE DEF new
  <2> QED
    BY <2>1, <2>2
<1>3. starting # r /\ embedServer!Launching(starting)' /\ servers' \in [Request -> ServerStates]
  BY <1>1, <1>2 DEF EmbedInv, embedServer!Launching
<1> QED
  BY <1>1, <1>2, <1>3, RequestsMove DEF embedServer!UnderWay, embedServer!Launching, embedServer!Alive

\* A launch that is over takes those who joined it along.
LEMMA SettleKeeps ==
  ASSUME BoundsAssumption, EmbedInv, NEW r \in Request, embedServer!Launching(r),
         NEW got \in {0, r}, NEW at \in {"served", "failed"}, embedServer!Settle(r, at, got), alike' = alike
  PROVE  /\ requests' \in [Request -> RequestType] /\ starting' \in {0, starting}
         /\ starting' # 0 => embedServer!Launching(starting)'
         /\ \A q \in Request :
              /\ embedServer!UnderWay(q)' => embedServer!UnderWay(q) /\ requests'[q].file = requests[q].file
              /\ embedServer!Launching(q)' => embedServer!Launching(q) /\ q # r
              /\ requests'[q].at = "flags" => requests[q].at = "flags"
         /\ alike => \A q \in Request : ~embedServer!Launching(q)'
<1>1. /\ requests' = [q \in Request |->
            IF q = r \/ (requests[q].at = "wait" /\ requests[q].waits = r)
            THEN [requests[q] EXCEPT !.at = at, !.waits = 0, !.got = got] ELSE requests[q]]
      /\ starting' = IF starting = r THEN 0 ELSE starting
  BY DEF embedServer!Settle, embedServer!Nobody
<1>2. \A q \in Request : [requests[q] EXCEPT !.at = at, !.waits = 0, !.got = got] \in RequestType
  BY DEF EmbedInv, RequestType
<1>3. requests' \in [Request -> RequestType]
  BY <1>1, <1>2 DEF EmbedInv
<1>4. \A q \in Request : \/ requests'[q] = requests[q] /\ q # r
                         \/ requests'[q].at = at
  <2> DEFINE new(q) == [requests[q] EXCEPT !.at = at, !.waits = 0, !.got = got]
  <2>1. \A q \in Request : requests[q] \in RequestType
    BY DEF EmbedInv
  <2>2. \A q \in Request : new(q).at = at
    BY <2>1 DEF RequestType
  <2>3. \A q \in Request : requests'[q] = IF q = r \/ (requests[q].at = "wait" /\ requests[q].waits = r)
                                         THEN new(q) ELSE requests[q]
    BY <1>1
  <2> HIDE DEF new
  <2> QED
    BY <2>2, <2>3
<1>5. \A q \in Request :
        /\ embedServer!UnderWay(q)' => embedServer!UnderWay(q) /\ requests'[q].file = requests[q].file
        /\ embedServer!Launching(q)' => embedServer!Launching(q) /\ q # r
        /\ requests'[q].at = "flags" => requests[q].at = "flags"
  BY <1>4 DEF embedServer!UnderWay, embedServer!Launching
<1>6. alike => \A q \in Request : ~embedServer!Launching(q)'
  BY <1>5 DEF EmbedInv
<1>7. starting' # 0 => embedServer!Launching(starting)'
  <2>1. SUFFICES ASSUME starting # 0, starting # r
                 PROVE  embedServer!Launching(starting)'
    BY <1>1
  <2>2. starting \in Request /\ embedServer!Launching(starting)
    BY <2>1 DEF EmbedInv
  <2>3. requests'[starting] = requests[starting]
    BY <1>1, <2>1, <2>2 DEF embedServer!Launching
  <2> QED
    BY <1>1, <2>1, <2>2, <2>3 DEF embedServer!Launching
<1> QED
  BY <1>1, <1>3, <1>5, <1>6, <1>7

LEMMA EmbedKeeps ==
  ASSUME BoundsAssumption, EmbedInv,
         (embedServer!Works /\ down' = down) \/ embedServer!Shutdown \/ UNCHANGED <<embedVars, down>>
  PROVE  EmbedInv'
<1>0. 0 \notin Request /\ embedServer!Nobody = 0
  BY DEF BoundsAssumption, embedServer!Nobody
<1>1. ASSUME NEW r \in Request, NEW f \in File, embedServer!Asks(r, f)
      PROVE  EmbedInv'
  <2> DEFINE new == [embedServer!NotAsked EXCEPT !.at = "info", !.file = f]
  <2>1. /\ requests' = [requests EXCEPT ![r] = new] /\ requests \in [Request -> RequestType]
        /\ UNCHANGED <<servers, child, starting, alike>> /\ requests[r].at = "idle"
        /\ alike => \A q \in Request : embedServer!UnderWay(q) => requests[q].file = f
    BY <1>1 DEF embedServer!Asks, embedServer!file, EmbedInv
  <2>2. requests' \in [Request -> RequestType] /\ requests'[r].at = "info" /\ requests'[r].file = f
        /\ \A q \in Request : q # r => requests'[q] = requests[q]
    <3>1. new \in RequestType /\ new.at = "info" /\ new.file = f
      BY DEF embedServer!NotAsked, embedServer!Nobody, RequestType
    <3> HIDE DEF new
    <3> QED
      BY <2>1, <3>1
  <2>3. \A q \in Request : /\ embedServer!Launching(q)' <=> embedServer!Launching(q)
                           /\ embedServer!UnderWay(q)' => q = r \/ embedServer!UnderWay(q)
    BY <2>1, <2>2 DEF embedServer!Launching, embedServer!UnderWay
  <2> QED
    BY <2>1, <2>2, <2>3 DEF EmbedInv, embedServer!KnownServer, embedServer!Alive
<1>2. ASSUME NEW r \in Request, UNCHANGED <<servers, child, starting, alike>>,
             NEW at \in {"ping", "served", "failed"}, NEW got \in Request \cup {0},
             requests[r].at \in {"info", "ping"},
             requests' = [requests EXCEPT ![r] = [requests[r] EXCEPT !.at = at, !.got = got]]
      PROVE  EmbedInv'
  <2> DEFINE new == [requests[r] EXCEPT !.at = at, !.got = got]
  <2>0. requests[r] \in RequestType
    BY DEF EmbedInv
  <2>1. new \in RequestType /\ new.at = at /\ new.file = requests[r].file
    BY <2>0 DEF RequestType
  <2>2. requests' = [requests EXCEPT ![r] = new] /\ requests \in [Request -> RequestType]
    BY <1>2 DEF EmbedInv
  <2> HIDE DEF new
  <2>3. requests' \in [Request -> RequestType] /\ requests'[r].at = at /\ requests'[r].file = requests[r].file
        /\ \A q \in Request : q # r => requests'[q] = requests[q]
    BY <2>1, <2>2
  <2>4. \A q \in Request : /\ embedServer!Launching(q)' <=> embedServer!Launching(q)
                           /\ embedServer!UnderWay(q)' => embedServer!UnderWay(q)
    BY <1>2, <2>3 DEF embedServer!Launching, embedServer!UnderWay
  <2> QED
    BY <1>2, <2>3, <2>4 DEF EmbedInv, embedServer!KnownServer, embedServer!Alive
<1>3. ASSUME NEW r \in Request, NEW at \in {"ping", "failed"}, embedServer!Moves(r, at),
             UNCHANGED <<servers, child, starting, alike>>, requests[r].at \in {"info", "ping"}
      PROVE  EmbedInv'
  <2>1. [requests[r] EXCEPT !.at = at] = [requests[r] EXCEPT !.at = at, !.got = requests[r].got]
        /\ requests[r].got \in Request \cup {0}
    BY DEF EmbedInv, RequestType
  <2>2. requests' = [requests EXCEPT ![r] = [requests[r] EXCEPT !.at = at]]
    BY <1>3 DEF embedServer!Moves
  <2> QED
    BY <1>2, <1>3, <2>1, <2>2
\* a request that cannot join finds no launch under way
<1>4. ASSUME NEW r \in Request, requests[r].at \in {"info", "ping"},
             ~(starting # 0 /\ requests[starting].file = requests[r].file)
      PROVE  alike => \A q \in Request : ~embedServer!Launching(q)
  BY <1>4 DEF EmbedInv, embedServer!UnderWay
<1>5. ASSUME NEW r \in Request, embedServer!Ensure(r)
      PROVE  EmbedInv'
  BY <1>0, <1>3, <1>4, <1>5, JoinKeeps, EmbedLaunches DEF embedServer!Ensure, embedServer!file
<1>6. ASSUME NEW r \in Request, embedServer!Pinged(r)
      PROVE  EmbedInv'
  <2>1. requests[r].at = "ping" /\ alike' = alike
    BY <1>6 DEF embedServer!Pinged
  <2>2. CASE embedServer!JoinOrLaunch(r)
    BY <1>0, <1>4, <2>1, <2>2, JoinKeeps, EmbedLaunches DEF embedServer!JoinOrLaunch, embedServer!file
  <2>3. CASE /\ \E s \in Request : servers[s] = "ready"
             /\ requests' = [requests EXCEPT ![r].at = "served",
                               ![r].got = CHOOSE s \in Request : servers[s] = "ready"]
             /\ UNCHANGED <<servers, child, starting, timer>>
    <3>1. (CHOOSE s \in Request : servers[s] = "ready") \in Request
      BY <2>3
    <3> QED
      BY <1>2, <2>1, <2>3, <3>1
  <2> QED
    BY <1>6, <2>2, <2>3 DEF embedServer!Pinged
<1>7. ASSUME NEW r \in Request, embedServer!Spawned(r)
      PROVE  EmbedInv'
  <2>1. requests[r].at = "flags" /\ embedServer!Launching(r) /\ alike' = alike
    BY <1>7 DEF embedServer!Spawned, embedServer!Launching
  <2>2. CASE embedServer!Settle(r, "failed", 0) /\ UNCHANGED <<servers, child>>
    <3>1. /\ requests' \in [Request -> RequestType] /\ starting' \in {0, starting}
          /\ starting' # 0 => embedServer!Launching(starting)'
          /\ \A q \in Request :
               /\ embedServer!UnderWay(q)' => embedServer!UnderWay(q) /\ requests'[q].file = requests[q].file
               /\ embedServer!Launching(q)' => embedServer!Launching(q) /\ q # r
               /\ requests'[q].at = "flags" => requests[q].at = "flags"
          /\ alike => \A q \in Request : ~embedServer!Launching(q)'
      BY <2>1, <2>2, SettleKeeps
    <3> QED
      BY <2>1, <2>2, <3>1 DEF EmbedInv, embedServer!KnownServer, embedServer!Alive
  <2>3. CASE /\ embedServer!Moves(r, "load") /\ UNCHANGED starting
             /\ child' = r /\ servers' = [servers EXCEPT ![r] = "loading"]
    <3> DEFINE new == [requests[r] EXCEPT !.at = "load"]
    <3>1. new \in RequestType /\ new.at = "load" /\ new.file = requests[r].file
      BY DEF EmbedInv, RequestType
    <3>2. requests' = [requests EXCEPT ![r] = new] /\ requests \in [Request -> RequestType]
      BY <2>3 DEF EmbedInv, embedServer!Moves
    <3> HIDE DEF new
    <3>3. requests' \in [Request -> RequestType] /\ requests'[r].at = "load" /\ requests'[r].file = requests[r].file
          /\ \A q \in Request : q # r => requests'[q] = requests[q]
      BY <3>1, <3>2
    <3>4. \A q \in Request : /\ embedServer!Launching(q)' <=> embedServer!Launching(q)
                             /\ embedServer!UnderWay(q)' => embedServer!UnderWay(q)
      BY <2>1, <3>3 DEF embedServer!Launching, embedServer!UnderWay
    <3>5. alike => child = 0 /\ \A q \in Request : embedServer!Launching(q) => q = r
      BY <2>1 DEF EmbedInv
    <3>6. alike => \A q \in Request : requests'[q].at # "flags"
      BY <3>3, <3>4, <3>5 DEF embedServer!Launching
    <3>7. servers' \in [Request -> ServerStates] /\ \A q \in Request : embedServer!Alive(q)' => q = r \/ embedServer!Alive(q)
      BY <2>3 DEF EmbedInv, ServerStates, embedServer!Alive
    <3>8. alike => \A q \in Request : ~embedServer!Alive(q)
      BY <1>0, <3>5 DEF EmbedInv, embedServer!KnownServer
    <3>9. embedServer!KnownServer'
      BY <2>1, <2>3, <3>7, <3>8 DEF embedServer!KnownServer
    <3>10. \A q \in Request : requests'[q].file = requests[q].file
      BY <3>3
    <3>11. starting' # 0 => embedServer!Launching(starting)'
      BY <2>3, <3>4 DEF EmbedInv
    <3>12. alike' => \A q, u \in Request : embedServer!UnderWay(q)' /\ embedServer!UnderWay(u)' =>
             requests'[q].file = requests'[u].file
      BY <2>1, <3>4, <3>10 DEF EmbedInv
    <3>13. alike' => \A q \in Request : embedServer!Launching(q)' => starting' = q
      BY <2>1, <2>3, <3>4 DEF EmbedInv
    <3>14. child' \in Request \cup {0} /\ starting' \in Request \cup {0}
      BY <2>3 DEF EmbedInv
    <3> QED
      BY <2>1, <3>3, <3>6, <3>7, <3>9, <3>11, <3>12, <3>13, <3>14 DEF EmbedInv
  <2> QED
    BY <1>0, <1>7, <2>2, <2>3 DEF embedServer!Spawned
<1>8. ASSUME NEW r \in Request, embedServer!Loaded(r) \/ embedServer!NotLoaded(r)
      PROVE  EmbedInv'
  <2>1. requests[r].at = "load" /\ embedServer!Launching(r) /\ alike' = alike
    BY <1>8 DEF embedServer!Loaded, embedServer!NotLoaded, embedServer!Launching
  <2>2. PICK at \in {"served", "failed"}, got \in {0, r} : embedServer!Settle(r, at, got)
    BY <1>0, <1>8 DEF embedServer!Loaded, embedServer!NotLoaded
  <2>3. /\ requests' \in [Request -> RequestType] /\ starting' \in {0, starting}
        /\ starting' # 0 => embedServer!Launching(starting)'
        /\ \A q \in Request :
             /\ embedServer!UnderWay(q)' => embedServer!UnderWay(q) /\ requests'[q].file = requests[q].file
             /\ embedServer!Launching(q)' => embedServer!Launching(q) /\ q # r
             /\ requests'[q].at = "flags" => requests[q].at = "flags"
        /\ alike => \A q \in Request : ~embedServer!Launching(q)'
    BY <2>1, <2>2, SettleKeeps
  <2>4. /\ servers' \in [Request -> ServerStates] /\ child' \in {0, child}
        /\ embedServer!KnownServer'
    <3>1. CASE UNCHANGED <<servers, child>>
      BY <2>1, <3>1 DEF EmbedInv, embedServer!KnownServer, embedServer!Alive
    <3>2. CASE embedServer!stopSync
      BY <2>1, <3>2, EmbedStops DEF embedServer!KnownServer
    <3> QED
      BY <1>8, <3>1, <3>2 DEF embedServer!Loaded, embedServer!NotLoaded
  <2> QED
    BY <2>1, <2>3, <2>4 DEF EmbedInv
<1>9. ASSUME embedServer!stopSync, UNCHANGED <<requests, starting, alike>>
      PROVE  EmbedInv'
  BY <1>9, EmbedStops DEF EmbedInv, embedServer!KnownServer, embedServer!Launching, embedServer!UnderWay
<1>10. ASSUME NEW r \in Request, embedServer!ServerStep(r) \/ embedServer!ExitEvent(r)
       PROVE  EmbedInv'
  <2>1. UNCHANGED <<requests, starting, alike>>
    BY <1>10 DEF embedServer!ServerStep, embedServer!ExitEvent
  <2>2. /\ servers' \in [Request -> ServerStates] /\ child' \in {0, child}
        /\ \A q \in Request : embedServer!Alive(q)' => embedServer!Alive(q) /\ (child = q => child' = q)
    BY <1>0, <1>10 DEF embedServer!ServerStep, embedServer!ExitEvent, embedServer!Alive, EmbedInv, ServerStates
  <2> QED
    BY <2>1, <2>2 DEF EmbedInv, embedServer!KnownServer, embedServer!Launching, embedServer!UnderWay
<1>11. CASE UNCHANGED <<embedVars, down>>
  BY <1>11 DEF embedVars, EmbedInv, embedServer!KnownServer, embedServer!Launching, embedServer!UnderWay,
               embedServer!Alive
<1> QED
  BY <1>1, <1>5, <1>6, <1>7, <1>8, <1>9, <1>10, <1>11
     DEF embedServer!Works, embedServer!Requested, embedServer!IdleFires, embedServer!Shutdown

\* Whoever waits, waits for a launch under way; and while requests agree on the file,
\* the server a ping can find and the ones requests got are of their own file.
SameFile(q, r) == requests[q].at # "idle" /\ requests[q].file = requests[r].file
EmbedOwn ==
  /\ \A r \in Request : requests[r].at = "wait" =>
       requests[r].waits \in Request /\ embedServer!Launching(requests[r].waits)
  /\ alike =>
       /\ \A r \in Request : requests[r].got # 0 => requests[r].at # "idle" /\ SameFile(requests[r].got, r)
       /\ child # 0 => requests[child].at # "idle"
       /\ \A r \in Request : requests[r].at = "ping" /\ child # 0 => requests[child].file = requests[r].file

LEMMA EmbedOwnStarts ==
  ASSUME embedServer!Init
  PROVE  EmbedOwn
BY DEF embedServer!Init, embedServer!NotAsked, embedServer!Nobody, EmbedOwn, SameFile

\* Requests keep their files and do not begin again; what they wait for, what they got
\* and the server that is pinged may change as listed.
LEMMA OwnKept ==
  ASSUME EmbedInv, EmbedInv', EmbedOwn, alike' = alike,
         \A q \in Request : /\ requests'[q].file = requests[q].file
                            /\ requests[q].at # "idle" => requests'[q].at # "idle",
         \A q \in Request : requests'[q].at = "wait" =>
           requests'[q].waits \in Request /\ requests'[requests'[q].waits].at \in {"flags", "load"},
         child' \in {0, child} \/ (child' \in Request /\ requests'[child'].at = "load"),
         alike => \A q \in Request :
           \/ requests'[q].got \in {0, requests[q].got}
           \/ requests'[q].at # "idle" /\ requests'[q].got \in Request /\ SameFile(requests'[q].got, q),
         alike => \A q \in Request : requests'[q].at = "ping" =>
           \/ requests[q].at = "ping"
           \/ child' \in {0, child} /\ (child # 0 => requests[child].file = requests[q].file)
  PROVE  EmbedOwn'
<1>1. /\ \A q \in Request : requests[q].got \in Request \cup {0} /\ requests'[q].got \in Request \cup {0}
      /\ child \in Request \cup {0} /\ child' \in Request \cup {0}
  BY DEF EmbedInv, RequestType
<1>3. ASSUME alike, NEW q \in Request, requests'[q].got # 0
      PROVE  /\ requests'[q].at # "idle" /\ requests'[requests'[q].got].at # "idle"
             /\ requests'[requests'[q].got].file = requests'[q].file
  <2>1. /\ requests'[q].at # "idle" /\ requests'[q].got \in Request
        /\ SameFile(requests'[q].got, q)
    BY <1>1, <1>3 DEF EmbedOwn
  <2> QED
    BY <2>1 DEF SameFile
<1>4. alike /\ child' # 0 => requests'[child'].at # "idle"
  BY <1>1 DEF EmbedOwn
<1>5. ASSUME alike, NEW q \in Request, requests'[q].at = "ping", child' # 0
      PROVE  requests'[child'].file = requests'[q].file
  <2>1. CASE child' = child
    BY <1>1, <1>5, <2>1 DEF EmbedOwn
  <2>2. CASE child' # child
    <3>1. child' \in Request /\ requests'[child'].at = "load"
      BY <1>5, <2>2
    <3> QED
      BY <1>5, <3>1 DEF EmbedInv, embedServer!UnderWay, embedServer!Launching
  <2> QED
    BY <2>1, <2>2
<1> QED
  BY <1>3, <1>4, <1>5 DEF EmbedOwn, SameFile, embedServer!Launching

\* One request that is not launching goes on.
LEMMA OneRequestGoesOn ==
  ASSUME BoundsAssumption, EmbedInv, EmbedInv', EmbedOwn, UNCHANGED alike,
         NEW r \in Request, requests[r].at \in {"info", "ping"},
         NEW at \in {"ping", "wait", "flags", "served", "failed"},
         NEW waits \in Request \cup {0}, NEW got \in Request \cup {0},
         requests' = [requests EXCEPT ![r] = [requests[r] EXCEPT !.at = at, !.waits = waits, !.got = got]],
         at = "wait" => waits = starting /\ starting # 0,
         child' \in {0, child},
         alike => got = requests[r].got \/ got = 0 \/ SameFile(got, r),
         alike /\ at = "ping" /\ child # 0 => requests[child].file = requests[r].file
  PROVE  EmbedOwn'
<1> DEFINE new == [requests[r] EXCEPT !.at = at, !.waits = waits, !.got = got]
<1>1. new.at = at /\ new.waits = waits /\ new.got = got /\ new.file = requests[r].file
  BY DEF EmbedInv, RequestType
<1>2. requests' = [requests EXCEPT ![r] = new] /\ requests \in [Request -> RequestType]
  BY DEF EmbedInv
<1> HIDE DEF new
<1>3. /\ requests'[r].at = at /\ requests'[r].waits = waits /\ requests'[r].got = got
      /\ requests'[r].file = requests[r].file /\ \A q \in Request : q # r => requests'[q] = requests[q]
  BY <1>1, <1>2
<1>4. \A q \in Request : /\ requests'[q].file = requests[q].file
                         /\ requests[q].at # "idle" => requests'[q].at # "idle"
  BY <1>3
<1>5. ASSUME NEW q \in Request, requests'[q].at = "wait"
      PROVE  requests'[q].waits \in Request /\ requests'[requests'[q].waits].at \in {"flags", "load"}
  <2>1. requests'[q].waits \in Request /\ requests[requests'[q].waits].at \in {"flags", "load"}
    BY <1>3, <1>5 DEF EmbedOwn, EmbedInv, embedServer!Launching
  <2> QED
    BY <1>3, <2>1
<1>6. alike => \A q \in Request :
           \/ requests'[q].got \in {0, requests[q].got}
           \/ requests'[q].at # "idle" /\ requests'[q].got \in Request /\ SameFile(requests'[q].got, q)
  BY <1>3
<1>7. alike => \A q \in Request : requests'[q].at = "ping" =>
           \/ requests[q].at = "ping"
           \/ child' \in {0, child} /\ (child # 0 => requests[child].file = requests[q].file)
  BY <1>3
<1> QED
  BY <1>4, <1>5, <1>6, <1>7, OwnKept

\* A launch that is over serves those who joined it with its own server, or fails them.
LEMMA OwnSettles ==
  ASSUME BoundsAssumption, EmbedInv, EmbedInv', EmbedOwn, UNCHANGED alike, NEW r \in Request,
         embedServer!Launching(r), NEW got \in {0, r}, NEW at \in {"served", "failed"},
         embedServer!Settle(r, at, got), child' \in {0, child}
  PROVE  EmbedOwn'
<1> DEFINE Ends(q) == q = r \/ (requests[q].at = "wait" /\ requests[q].waits = r)
<1>1. requests' = [q \in Request |-> IF Ends(q) THEN [requests[q] EXCEPT !.at = at, !.waits = 0, !.got = got]
                                              ELSE requests[q]]
  BY DEF embedServer!Settle, embedServer!Nobody
<1>2. \A q \in Request :
        /\ Ends(q) => requests'[q].at = at /\ requests'[q].got = got /\ requests'[q].file = requests[q].file
        /\ ~Ends(q) => requests'[q] = requests[q]
  <2> DEFINE new(q) == [requests[q] EXCEPT !.at = at, !.waits = 0, !.got = got]
  <2>1. \A q \in Request : requests[q] \in RequestType
    BY DEF EmbedInv
  <2>2. \A q \in Request : new(q).at = at /\ new(q).got = got /\ new(q).file = requests[q].file
    BY <2>1 DEF RequestType
  <2>3. \A q \in Request : requests'[q] = IF Ends(q) THEN new(q) ELSE requests[q]
    BY <1>1
  <2> HIDE DEF new, Ends
  <2> QED
    BY <2>2, <2>3
<1>3. \A q \in Request : Ends(q) => embedServer!UnderWay(q)
  BY DEF embedServer!UnderWay
<1>4. ASSUME NEW q \in Request, requests'[q].at = "wait"
      PROVE  requests'[q].waits \in Request /\ requests'[requests'[q].waits].at \in {"flags", "load"}
  <2>1. ~Ends(q) /\ requests'[q] = requests[q]
    BY <1>2, <1>4
  <2>2. requests[q].waits \in Request /\ requests[requests[q].waits].at \in {"flags", "load"} /\ requests[q].waits # r
    BY <1>4, <2>1 DEF EmbedOwn, embedServer!Launching
  <2>3. ~Ends(requests[q].waits)
    BY <2>2
  <2> QED
    BY <1>2, <2>1, <2>2, <2>3
<1>5. ASSUME alike, NEW q \in Request, Ends(q)
      PROVE  requests'[q].got = 0 \/ (requests'[q].got \in Request /\ SameFile(requests'[q].got, q))
  <2>1. requests[r].file = requests[q].file /\ requests[r].at # "idle"
    BY <1>3, <1>5 DEF EmbedInv, embedServer!Launching
  <2> QED
    BY <1>2, <1>5, <2>1 DEF SameFile
<1>6. \A q \in Request : /\ requests'[q].file = requests[q].file
                         /\ requests[q].at # "idle" => requests'[q].at # "idle"
                         /\ requests'[q].at = "ping" => requests[q].at = "ping"
                         /\ Ends(q) => requests'[q].at # "idle"
  BY <1>2
<1>7. alike => \A q \in Request :
           \/ requests'[q].got \in {0, requests[q].got}
           \/ requests'[q].at # "idle" /\ requests'[q].got \in Request /\ SameFile(requests'[q].got, q)
  <2> HIDE DEF Ends
  <2> QED
    BY <1>2, <1>5, <1>6
<1> HIDE DEF Ends
<1> QED
  BY <1>4, <1>6, <1>7, OwnKept

LEMMA EmbedOwnKeeps ==
  ASSUME BoundsAssumption, EmbedInv, EmbedInv', EmbedOwn,
         (embedServer!Works /\ down' = down) \/ embedServer!Shutdown \/ UNCHANGED <<embedVars, down>>
  PROVE  EmbedOwn'
<1>0. 0 \notin Request /\ embedServer!Nobody = 0
  BY DEF BoundsAssumption, embedServer!Nobody
<1>1. ASSUME NEW r \in Request, NEW f \in File, embedServer!Asks(r, f)
      PROVE  EmbedOwn'
  <2> DEFINE new == [embedServer!NotAsked EXCEPT !.at = "info", !.file = f]
  <2>1. /\ requests' = [requests EXCEPT ![r] = new] /\ requests \in [Request -> RequestType]
        /\ UNCHANGED <<child, alike>> /\ requests[r].at = "idle"
    BY <1>1 DEF embedServer!Asks, EmbedInv
  <2>2. new.at = "info" /\ new.got = 0
    BY DEF embedServer!NotAsked, embedServer!Nobody
  <2> HIDE DEF new
  <2>3. /\ requests'[r].at = "info" /\ requests'[r].got = 0
        /\ \A q \in Request : q # r => requests'[q] = requests[q]
    BY <2>1, <2>2
  <2>4. ASSUME NEW q \in Request, requests'[q].at = "wait"
        PROVE  requests'[q].waits \in Request /\ requests'[requests'[q].waits].at \in {"flags", "load"}
    <3>1. q # r /\ requests'[q] = requests[q]
      BY <2>3, <2>4
    <3>2. requests[q].waits \in Request /\ requests[requests[q].waits].at \in {"flags", "load"}
      BY <2>4, <3>1 DEF EmbedOwn, embedServer!Launching
    <3> QED
      BY <2>1, <2>3, <3>1, <3>2
  <2>5. ASSUME alike, NEW q \in Request, requests'[q].got # 0
        PROVE  /\ requests'[q].at # "idle" /\ requests'[requests'[q].got].at # "idle"
               /\ requests'[requests'[q].got].file = requests'[q].file
    <3>1. q # r /\ requests'[q] = requests[q]
      BY <2>3, <2>5
    <3>2. requests[q].at # "idle" /\ SameFile(requests[q].got, q) /\ requests[q].got \in Request
      BY <2>5, <3>1 DEF EmbedOwn, EmbedInv, RequestType
    <3> QED
      BY <2>1, <2>3, <3>1, <3>2 DEF SameFile
  <2>6. ASSUME alike, child # 0
        PROVE  child \in Request /\ child # r /\ requests[child].at # "idle" /\ requests'[child] = requests[child]
    BY <2>1, <2>3, <2>6 DEF EmbedOwn, EmbedInv
  <2>7. \A q \in Request : requests'[q].at = "ping" => requests'[q] = requests[q]
    BY <2>3
  <2> QED
    BY <2>1, <2>4, <2>5, <2>6, <2>7 DEF EmbedOwn, SameFile, embedServer!Launching
\* what one request does when it goes on: it fails or pings, joins, launches, or is served
<1>2. ASSUME NEW r \in Request, NEW at \in {"ping", "failed"}, embedServer!Moves(r, at),
             UNCHANGED <<child, alike>>, requests[r].at \in {"info", "ping"},
             at = "ping" => child # 0 /\ requests[child].file = requests[r].file
      PROVE  EmbedOwn'
  <2>1. /\ [requests[r] EXCEPT !.at = at] =
             [requests[r] EXCEPT !.at = at, !.waits = requests[r].waits, !.got = requests[r].got]
        /\ requests[r].got \in Request \cup {0} /\ requests[r].waits \in Request \cup {0}
    BY DEF EmbedInv, RequestType
  <2>2. requests' = [requests EXCEPT ![r] = [requests[r] EXCEPT !.at = at, !.waits = requests[r].waits,
                                                                !.got = requests[r].got]]
    BY <1>2, <2>1 DEF embedServer!Moves
  <2>3. child' \in {0, child} /\ alike' = alike
    BY <1>2
  <2> QED
    BY <1>2, <2>1, <2>2, <2>3, OneRequestGoesOn
<1>3. ASSUME NEW r \in Request, embedServer!Join(r), starting # 0, alike' = alike,
             requests[r].at \in {"info", "ping"}
      PROVE  EmbedOwn'
  <2>1. /\ [requests[r] EXCEPT !.at = "wait", !.waits = starting] =
             [requests[r] EXCEPT !.at = "wait", !.waits = starting, !.got = requests[r].got]
        /\ requests[r].got \in Request \cup {0} /\ starting \in Request \cup {0}
    BY DEF EmbedInv, RequestType
  <2>2. requests' = [requests EXCEPT ![r] = [requests[r] EXCEPT !.at = "wait", !.waits = starting]] /\ child' = child
    BY <1>3 DEF embedServer!Join
  <2> QED
    BY <1>3, <2>1, <2>2, OneRequestGoesOn
<1>4. ASSUME NEW r \in Request, embedServer!launch(r), alike' = alike, requests[r].at \in {"info", "ping"}
      PROVE  EmbedOwn'
  <2>1. /\ [requests[r] EXCEPT !.at = "flags", !.waits = r] =
             [requests[r] EXCEPT !.at = "flags", !.waits = r, !.got = requests[r].got]
        /\ requests[r].got \in Request \cup {0}
    BY DEF EmbedInv, RequestType
  <2>2. requests' = [requests EXCEPT ![r] = [requests[r] EXCEPT !.at = "flags", !.waits = r]] /\ child' = 0
    BY <1>0, <1>4 DEF embedServer!launch, embedServer!stopSync
  <2> QED
    BY <1>4, <2>1, <2>2, OneRequestGoesOn
<1>5. ASSUME NEW r \in Request, embedServer!Ensure(r)
      PROVE  EmbedOwn'
  BY <1>0, <1>2, <1>3, <1>4, <1>5 DEF embedServer!Ensure, embedServer!file
<1>6. ASSUME NEW r \in Request, embedServer!Pinged(r)
      PROVE  EmbedOwn'
  <2>1. requests[r].at = "ping" /\ alike' = alike
    BY <1>6 DEF embedServer!Pinged
  <2>2. CASE embedServer!JoinOrLaunch(r)
    BY <1>0, <1>3, <1>4, <2>1, <2>2 DEF embedServer!JoinOrLaunch, embedServer!file
  <2>3. CASE /\ \E s \in Request : servers[s] = "ready"
             /\ requests' = [requests EXCEPT ![r].at = "served",
                               ![r].got = CHOOSE s \in Request : servers[s] = "ready"]
             /\ UNCHANGED <<servers, child, starting, timer>>
    <3>1. PICK s \in Request : s = (CHOOSE x \in Request : servers[x] = "ready") /\ servers[s] = "ready"
      BY <2>3
    <3>2. requests' = [requests EXCEPT ![r] = [requests[r] EXCEPT !.at = "served", !.got = s]] /\ child' = child
      BY <2>3, <3>1
    <3>3. /\ [requests[r] EXCEPT !.at = "served", !.got = s] =
               [requests[r] EXCEPT !.at = "served", !.waits = requests[r].waits, !.got = s]
          /\ requests[r].waits \in Request \cup {0}
      BY DEF EmbedInv, RequestType
    <3>4. alike => SameFile(s, r)
      BY <1>0, <2>1, <3>1, ZenonT(60) DEF EmbedInv, EmbedOwn, embedServer!KnownServer, embedServer!Alive, SameFile
    <3> QED
      BY <2>1, <3>2, <3>3, <3>4, OneRequestGoesOn
  <2> QED
    BY <1>6, <2>2, <2>3 DEF embedServer!Pinged
<1>7. ASSUME NEW r \in Request, embedServer!Spawned(r)
      PROVE  EmbedOwn'
  <2>1. requests[r].at = "flags" /\ embedServer!Launching(r) /\ alike' = alike
    BY <1>7 DEF embedServer!Spawned, embedServer!Launching
  <2>2. CASE embedServer!Settle(r, "failed", 0) /\ UNCHANGED <<servers, child>>
    BY <2>1, <2>2, OwnSettles
  <2>3. CASE /\ embedServer!Moves(r, "load") /\ UNCHANGED starting
             /\ child' = r /\ servers' = [servers EXCEPT ![r] = "loading"]
    <3> DEFINE new == [requests[r] EXCEPT !.at = "load"]
    <3>1. new.at = "load" /\ new.file = requests[r].file /\ new.got = requests[r].got
      BY DEF EmbedInv, RequestType
    <3>2. requests' = [requests EXCEPT ![r] = new] /\ requests \in [Request -> RequestType]
      BY <2>3 DEF EmbedInv, embedServer!Moves
    <3> HIDE DEF new
    <3>3. /\ requests'[r].at = "load" /\ requests'[r].file = requests[r].file /\ requests'[r].got = requests[r].got
          /\ \A q \in Request : q # r => requests'[q] = requests[q]
      BY <3>1, <3>2
    <3>4. ASSUME NEW q \in Request, requests'[q].at = "wait"
          PROVE  requests'[q].waits \in Request /\ requests'[requests'[q].waits].at \in {"flags", "load"}
      <4>1. requests'[q] = requests[q]
        BY <3>3, <3>4
      <4>2. requests[q].waits \in Request /\ requests[requests[q].waits].at \in {"flags", "load"}
        BY <3>4, <4>1 DEF EmbedOwn, embedServer!Launching
      <4> QED
        BY <3>3, <4>1, <4>2
    <3>5. \A q \in Request : /\ requests'[q].file = requests[q].file /\ requests'[q].got = requests[q].got
                             /\ requests[q].at # "idle" => requests'[q].at # "idle"
                             /\ requests'[q].at = "ping" => requests[q].at = "ping"
      BY <3>3
    <3> QED
      BY <2>1, <2>3, <3>3, <3>4, <3>5, OwnKept
  <2> QED
    BY <1>0, <1>7, <2>2, <2>3 DEF embedServer!Spawned
<1>8. ASSUME NEW r \in Request, embedServer!Loaded(r) \/ embedServer!NotLoaded(r)
      PROVE  EmbedOwn'
  <2>1. requests[r].at = "load" /\ embedServer!Launching(r) /\ alike' = alike
    BY <1>8 DEF embedServer!Loaded, embedServer!NotLoaded, embedServer!Launching
  <2>2. PICK at \in {"served", "failed"}, got \in {0, r} : embedServer!Settle(r, at, got)
    BY <1>0, <1>8 DEF embedServer!Loaded, embedServer!NotLoaded
  <2>3. child' \in {0, child}
    BY <1>0, <1>8 DEF embedServer!Loaded, embedServer!NotLoaded, embedServer!stopSync
  <2> QED
    BY <2>1, <2>2, <2>3, OwnSettles
<1>9. ASSUME UNCHANGED <<requests, alike>>, child' \in {0, child}
      PROVE  EmbedOwn'
  BY <1>9 DEF EmbedOwn, SameFile, embedServer!Launching
<1> QED
  BY <1>0, <1>1, <1>5, <1>6, <1>7, <1>8, <1>9
     DEF embedServer!Works, embedServer!Requested, embedServer!IdleFires, embedServer!Shutdown,
         embedServer!stopSync, embedServer!ServerStep, embedServer!ExitEvent, embedVars

\* What the invariants say of the properties of the module.
LEMMA EmbedOwnShows ==
  ASSUME EmbedInv, EmbedOwn
  PROVE  embedServer!JoinsLive /\ embedServer!OwnFile
BY DEF EmbedInv, EmbedOwn, SameFile, embedServer!JoinsLive, embedServer!OwnFile, embedServer!Nobody,
       embedServer!file

-----------------------------------------------------------------------------
(* Extensions.                                                             *)

ChildStates == {"none", "alive", "killed", "gone", "reaped"}
StartType == [of : Server \cup {"none"},
              at : {"idle", "install", "initialize", "initialized", "list", "ready", "failed"},
              child : ChildStates]

\* A start that is under way, or whose process may still be there.
Busy(s) == mcp!Starting(s) \/ starts[s].child \in {"alive", "killed", "gone"}

\* With care, an id has one such start at most, so nothing that settles it settles another.
McpInv ==
  /\ starts \in [ServerStart -> StartType] /\ running \in [Server -> ServerStart \cup {0}]
  /\ \A s \in ServerStart : starts[s].at # "idle" => starts[s].of \in Server
  /\ \A s \in ServerStart : starts[s].at = "idle" \/ starts[s].of \in Remote => starts[s].child = "none"
  /\ \A s \in ServerStart : starts[s].at = "install" => starts[s].of \notin Remote
  /\ careful => \A s, t \in ServerStart : Busy(s) /\ Busy(t) /\ starts[s].of = starts[t].of => s = t
  /\ mcp!RunsKnown

LEMMA McpStarts ==
  ASSUME mcp!Init
  PROVE  McpInv
BY DEF mcp!Init, mcp!NotStarted, mcp!NoStart, McpInv, StartType, ChildStates, Busy, mcp!Starting, mcp!Handshaking,
       mcp!RunsKnown

\* Starts that only get less busy keep it, if what still runs keeps its id.
LEMMA McpMoves ==
  ASSUME McpInv, careful' = careful,
         starts' \in [ServerStart -> StartType], running' \in [Server -> ServerStart \cup {0}],
         \A t \in ServerStart :
           /\ starts'[t].of = starts[t].of /\ (starts'[t].at = "idle" <=> starts[t].at = "idle")
           /\ starts'[t].at = "install" => starts[t].at = "install"
           /\ Busy(t)' => Busy(t)
           /\ starts[t].child = "none" => starts'[t].child = "none"
           /\ starts'[t].child = "alive" /\ careful /\ ~down' =>
                ~down /\ starts[t].child = "alive" /\ running'[starts[t].of] = running[starts[t].of]
  PROVE  McpInv'
BY DEF McpInv, mcp!RunsKnown

LEMMA KilledStart ==
  ASSUME McpInv, NEW t \in ServerStart
  PROVE  /\ mcp!Kill(t) \in StartType /\ mcp!Kill(t).of = starts[t].of /\ mcp!Kill(t).at = starts[t].at
         /\ mcp!Kill(t).child # "alive" /\ (starts[t].child = "none" => mcp!Kill(t).child = "none")
         /\ mcp!Kill(t).child \in {"killed", "gone"} => starts[t].child \in {"alive", "killed", "gone"}
<1>1. starts[t] \in StartType
  BY DEF McpInv
<1> QED
  BY <1>1 DEF mcp!Kill, StartType, ChildStates

LEMMA FailedKeeps ==
  ASSUME BoundsAssumption, McpInv, NEW s \in ServerStart, mcp!Handshaking(s), mcp!Failed(s), careful' = careful, down' = down
  PROVE  McpInv'
<1> DEFINE id == starts[s].of
           r == running[id]
           old(t) == IF t = r /\ ~mcp!Remotely(s) THEN mcp!Kill(t) ELSE starts[t]
           new(t) == [old(t) EXCEPT !.at = IF t = s THEN "failed" ELSE @]
<1>1. id \in Server /\ starts[s].at # "idle" /\ Busy(s)
  BY DEF McpInv, mcp!Handshaking, Busy, mcp!Starting
<1>2. running' = [running EXCEPT ![id] = 0] /\ starts' = [t \in ServerStart |-> new(t)]
  BY DEF mcp!Failed, mcp!Register, mcp!NoStart
<1>3. ASSUME NEW t \in ServerStart
      PROVE  /\ old(t) \in StartType /\ old(t).of = starts[t].of /\ old(t).at = starts[t].at
             /\ starts[t].child = "none" => old(t).child = "none"
             /\ old(t).child = "alive" => starts[t].child = "alive" /\ ~(t = r /\ ~mcp!Remotely(s))
             /\ old(t).child \in {"killed", "gone"} => starts[t].child \in {"alive", "killed", "gone"}
  BY KilledStart DEF McpInv
<1> HIDE DEF old
<1>4. ASSUME NEW t \in ServerStart
      PROVE  /\ new(t) \in StartType /\ new(t).of = old(t).of /\ new(t).child = old(t).child
             /\ new(t).at = IF t = s THEN "failed" ELSE old(t).at
  BY <1>3 DEF StartType
<1> HIDE DEF new
<1>5. \A t \in ServerStart : Busy(t)' => Busy(t)
  BY <1>2, <1>3, <1>4 DEF Busy, mcp!Starting, mcp!Handshaking
<1>6. ASSUME NEW t \in ServerStart, starts'[t].child = "alive", careful, ~down'
      PROVE  ~down /\ starts[t].child = "alive" /\ running'[starts[t].of] = running[starts[t].of]
  <2>1. starts[t].child = "alive" /\ ~(t = r /\ ~mcp!Remotely(s)) /\ ~down
    BY <1>2, <1>3, <1>4, <1>6
  <2>2. running[starts[t].of] = t
    BY <1>6, <2>1 DEF McpInv, mcp!RunsKnown
  <2>3. starts[t].of # id
    BY <2>1, <2>2 DEF McpInv, mcp!Remotely
  <2>4. starts[t].of \in Server
    BY <2>1 DEF McpInv
  <2> QED
    BY <1>2, <2>1, <2>3, <2>4 DEF McpInv
<1>7. starts' \in [ServerStart -> StartType] /\ running' \in [Server -> ServerStart \cup {0}]
  BY <1>1, <1>2, <1>4 DEF McpInv
<1>8. \A t \in ServerStart : /\ starts'[t].of = starts[t].of /\ (starts'[t].at = "idle" <=> starts[t].at = "idle")
                             /\ starts'[t].at = "install" => starts[t].at = "install"
                             /\ starts[t].child = "none" => starts'[t].child = "none"
  BY <1>1, <1>2, <1>3, <1>4
<1> QED
  BY <1>5, <1>6, <1>7, <1>8, McpMoves

\* The end of one start, or of its process, with or without its id.
LEMMA OneStartMoves ==
  ASSUME BoundsAssumption, McpInv, careful' = careful, down' = down, NEW s \in ServerStart, NEW new \in StartType,
         starts' = [starts EXCEPT ![s] = new],
         new.of = starts[s].of, starts[s].at # "idle", new.at # "idle",
         new.at # "install",
         new.at \in {"initialize", "initialized", "list"} => mcp!Starting(s),
         new.child = starts[s].child
           \/ (starts[s].child \in {"alive", "killed", "gone"} /\ new.child \in {"killed", "gone", "reaped"}),
         \/ running' = running
         \/ running' = [running EXCEPT ![starts[s].of] = 0] /\ Busy(s) /\ new.child # "alive"
  PROVE  McpInv'
<1>1. /\ starts' \in [ServerStart -> StartType] /\ starts'[s] = new /\ \A t \in ServerStart : t # s => starts'[t] = starts[t]
      /\ running' \in [Server -> ServerStart \cup {0}]
  BY DEF McpInv
<1>2. \A t \in ServerStart : Busy(t)' => Busy(t)
  BY <1>1 DEF Busy, mcp!Starting, mcp!Handshaking
<1>3. ASSUME NEW t \in ServerStart, starts'[t].child = "alive", careful, ~down'
      PROVE  ~down /\ starts[t].child = "alive" /\ running'[starts[t].of] = running[starts[t].of]
  <2>1. starts[t].child = "alive" /\ Busy(t) /\ (t = s => running' = running) /\ starts[t].of \in Server
    BY <1>1, <1>3 DEF Busy, McpInv
  <2>2. running' = running \/ starts[t].of # starts[s].of
    BY <1>3, <2>1 DEF McpInv
  <2> QED
    BY <1>3, <2>1, <2>2 DEF McpInv
<1> QED
  BY <1>1, <1>2, <1>3, McpMoves

LEMMA McpKeeps ==
  ASSUME BoundsAssumption, McpInv,
         (mcp!Works /\ down' = down) \/ mcp!Shutdown \/ UNCHANGED <<mcpVars, down>>
  PROVE  McpInv'
<1>0. 0 \notin ServerStart /\ mcp!NoStart = 0
  BY DEF BoundsAssumption, mcp!NoStart
<1>1. ASSUME NEW id \in Server, NEW s \in ServerStart, mcp!startServer(id, s)
      PROVE  McpInv'
  <2> DEFINE new == [of |-> id, at |-> IF id \in Remote THEN "initialize" ELSE "install", child |-> "none"]
  <2>1. /\ starts' = [starts EXCEPT ![s] = new] /\ starts[s].at = "idle" /\ running[id] = 0 /\ ~down
        /\ running' \in {running, [running EXCEPT ![id] = s]} /\ careful' = careful /\ down' = down
        /\ careful => \A r \in ServerStart : starts[r].of = id =>
                        ~mcp!Starting(r) /\ starts[r].child \notin {"killed", "gone"}
    BY <1>1 DEF mcp!startServer, mcp!Register, mcp!NoStart
  <2>2. new \in StartType /\ new.of = id /\ new.at # "idle" /\ new.child = "none"
        /\ (new.at = "install" => id \notin Remote)
    BY DEF StartType, ChildStates
  <2> HIDE DEF new
  <2>3. /\ starts' \in [ServerStart -> StartType] /\ starts'[s] = new /\ \A t \in ServerStart : t # s => starts'[t] = starts[t]
        /\ running' \in [Server -> ServerStart \cup {0}]
        /\ \A k \in Server : k # id => running'[k] = running[k]
    BY <2>1, <2>2 DEF McpInv
  <2>4. ASSUME careful, NEW r \in ServerStart, Busy(r), r # s
        PROVE  starts[r].of # id
    <3>1. starts[r].child = "alive" => running[starts[r].of] = r
      BY <2>1, <2>4 DEF McpInv, mcp!RunsKnown
    <3> QED
      BY <1>0, <2>1, <2>4, <3>1 DEF Busy
  <2>5. \A t \in ServerStart : t # s => (Busy(t)' <=> Busy(t))
    BY <2>3 DEF Busy, mcp!Starting, mcp!Handshaking
  <2>6. careful' => \A r, t \in ServerStart : Busy(r)' /\ Busy(t)' /\ starts'[r].of = starts'[t].of => r = t
    BY <2>1, <2>2, <2>3, <2>4, <2>5 DEF McpInv
  <2>7. mcp!RunsKnown'
    <3>1. SUFFICES ASSUME careful, NEW t \in ServerStart, starts'[t].child = "alive"
                   PROVE  running'[starts'[t].of] = t
      BY <2>1 DEF mcp!RunsKnown
    <3>2. t # s /\ starts'[t] = starts[t] /\ Busy(t) /\ starts[t].of \in Server
      BY <2>2, <2>3, <3>1 DEF Busy, McpInv
    <3> QED
      BY <2>1, <2>3, <2>4, <3>1, <3>2 DEF McpInv, mcp!RunsKnown
  <2>8. \A t \in ServerStart : /\ starts'[t].at # "idle" => starts'[t].of \in Server
                               /\ starts'[t].at = "idle" \/ starts'[t].of \in Remote => starts'[t].child = "none"
                               /\ starts'[t].at = "install" => starts'[t].of \notin Remote
    BY <2>2, <2>3 DEF McpInv
  <2> QED
    BY <2>3, <2>6, <2>7, <2>8 DEF McpInv
<1>2. ASSUME NEW s \in ServerStart, mcp!Provided(s)
      PROVE  McpInv'
  <2>1. starts[s].at = "install" /\ careful' = careful /\ down' = down /\ starts[s] \in StartType
    BY <1>2 DEF mcp!Provided, McpInv
  <2>2. CASE starts' = [starts EXCEPT ![s].at = "failed"] /\ UNCHANGED running
    <3>1. [starts[s] EXCEPT !.at = "failed"] \in StartType
      BY <2>1 DEF StartType
    <3> QED
      BY <2>1, <2>2, <3>1, OneStartMoves DEF StartType
  <2>3. CASE /\ starts' = [starts EXCEPT ![s].at = "initialize", ![s].child = "alive"]
             /\ mcp!Register(starts[s].of, s)
    <3> DEFINE new == [starts[s] EXCEPT !.at = "initialize", !.child = "alive"]
    <3>1. new \in StartType /\ new.of = starts[s].of /\ new.at = "initialize" /\ new.child = "alive"
      BY <2>1 DEF StartType, ChildStates
    <3>2. starts' = [starts EXCEPT ![s] = new] /\ running' = [running EXCEPT ![starts[s].of] = s]
      BY <2>3 DEF mcp!Register
    <3> HIDE DEF new
    <3>3. /\ starts' \in [ServerStart -> StartType] /\ starts'[s] = new /\ \A t \in ServerStart : t # s => starts'[t] = starts[t]
          /\ running' \in [Server -> ServerStart \cup {0}] /\ starts[s].of \in Server /\ running'[starts[s].of] = s
          /\ \A k \in Server : k # starts[s].of => running'[k] = running[k]
      BY <2>1, <3>1, <3>2 DEF McpInv
    <3>4. Busy(s) /\ \A t \in ServerStart : Busy(t)' => Busy(t)
      BY <2>1, <3>3 DEF Busy, mcp!Starting, mcp!Handshaking
    <3>5. starts[s].of \notin Remote
      BY <2>1 DEF McpInv
    <3>6. mcp!RunsKnown'
      <4>1. SUFFICES ASSUME careful, ~down, NEW t \in ServerStart, starts'[t].child = "alive", t # s
                     PROVE  running'[starts'[t].of] = t
        BY <2>1, <3>1, <3>3 DEF mcp!RunsKnown
      <4>2. starts'[t] = starts[t] /\ Busy(t) /\ starts[t].of \in Server /\ running[starts[t].of] = t
        BY <3>3, <4>1 DEF Busy, McpInv, mcp!RunsKnown
      <4>3. starts[t].of # starts[s].of
        BY <3>4, <4>1, <4>2 DEF McpInv
      <4> QED
        BY <3>3, <4>2, <4>3
    <3> QED
      BY <2>1, <3>1, <3>3, <3>4, <3>5, <3>6 DEF McpInv
  <2> QED
    BY <1>2, <2>2, <2>3 DEF mcp!Provided
<1>3. ASSUME NEW s \in ServerStart, mcp!Answered(s)
      PROVE  McpInv'
  <2>1. mcp!Handshaking(s) /\ careful' = careful /\ down' = down /\ starts[s] \in StartType /\ mcp!Starting(s)
    BY <1>3 DEF mcp!Answered, McpInv, mcp!Starting
  <2>2. CASE mcp!Failed(s)
    BY <2>1, <2>2, FailedKeeps
  <2>3. ASSUME NEW at \in {"initialized", "list", "ready"}, starts' = [starts EXCEPT ![s].at = at], running' = running
        PROVE  McpInv'
    <3> DEFINE new == [starts[s] EXCEPT !.at = at]
    <3>1. new \in StartType /\ new.at = at /\ new.of = starts[s].of /\ new.child = starts[s].child
      BY <2>1 DEF StartType
    <3>2. starts' = [starts EXCEPT ![s] = new] /\ starts[s].at # "idle"
      BY <2>1, <2>3 DEF mcp!Handshaking
    <3> HIDE DEF new
    <3> QED
      BY <2>1, <2>3, <3>1, <3>2, OneStartMoves
  <2> QED
    BY <1>3, <2>1, <2>2, <2>3 DEF mcp!Answered, mcp!Handshaking
<1>4. ASSUME NEW s \in ServerStart, mcp!Refused(s)
      PROVE  McpInv'
  BY <1>4, FailedKeeps DEF mcp!Refused
<1>5. ASSUME NEW s \in ServerStart, mcp!Ends(s)
      PROVE  McpInv'
  <2> DEFINE new == [starts[s] EXCEPT !.child = "gone"]
  <2>1. starts[s] \in StartType /\ starts[s].child \in {"alive", "killed"} /\ starts' = [starts EXCEPT ![s] = new]
        /\ UNCHANGED <<running, careful, down>> /\ starts[s].at # "idle"
    BY <1>5 DEF mcp!Ends, McpInv
  <2>2. new \in StartType /\ new.at = starts[s].at /\ new.of = starts[s].of /\ new.child = "gone"
    BY <2>1 DEF StartType, ChildStates
  <2>3. new.at \in {"initialize", "initialized", "list"} => mcp!Starting(s)
    BY <2>2 DEF mcp!Starting, mcp!Handshaking
  <2> HIDE DEF new
  <2>4. starts' \in [ServerStart -> StartType] /\ starts'[s] = new /\ \A t \in ServerStart : t # s => starts'[t] = starts[t]
    BY <2>1, <2>2 DEF McpInv
  <2>5. \A t \in ServerStart : Busy(t)' => Busy(t)
    BY <2>1, <2>2, <2>4 DEF Busy, mcp!Starting, mcp!Handshaking
  <2>6. running' \in [Server -> ServerStart \cup {0}]
    BY <2>1 DEF McpInv
  <2> QED
    BY <2>1, <2>2, <2>4, <2>5, <2>6, McpMoves
<1>6. ASSUME NEW s \in ServerStart, mcp!ExitEvent(s)
      PROVE  McpInv'
  <2> DEFINE new == [starts[s] EXCEPT !.child = "reaped", !.at = IF mcp!Handshaking(s) THEN "failed" ELSE @]
  <2>1. starts[s] \in StartType /\ starts[s].child = "gone" /\ starts' = [starts EXCEPT ![s] = new]
        /\ running' = [running EXCEPT ![starts[s].of] = 0] /\ careful' = careful /\ down' = down
        /\ starts[s].at # "idle" /\ Busy(s)
    BY <1>6 DEF mcp!ExitEvent, mcp!Register, mcp!NoStart, McpInv, Busy
  <2>2. new \in StartType /\ new.of = starts[s].of /\ new.child = "reaped"
        /\ new.at = IF mcp!Handshaking(s) THEN "failed" ELSE starts[s].at
    BY <2>1 DEF StartType, ChildStates
  <2> HIDE DEF new
  <2>4. /\ starts' \in [ServerStart -> StartType] /\ starts'[s] = new /\ \A t \in ServerStart : t # s => starts'[t] = starts[t]
        /\ running' \in [Server -> ServerStart \cup {0}] /\ starts[s].of \in Server
        /\ \A k \in Server : k # starts[s].of => running'[k] = running[k]
    BY <2>1, <2>2 DEF McpInv
  <2>5. \A t \in ServerStart : Busy(t)' => Busy(t)
    BY <2>1, <2>2, <2>4 DEF Busy, mcp!Starting, mcp!Handshaking
  <2>6. ASSUME NEW t \in ServerStart, starts'[t].child = "alive", careful, ~down'
        PROVE  ~down /\ starts[t].child = "alive" /\ running'[starts[t].of] = running[starts[t].of]
    <3>1. t # s /\ starts[t].child = "alive" /\ Busy(t) /\ starts[t].of \in Server
      BY <2>2, <2>4, <2>6 DEF Busy, McpInv
    <3>2. starts[t].of # starts[s].of
      BY <2>1, <2>6, <3>1 DEF McpInv
    <3> QED
      BY <2>1, <2>4, <2>6, <3>1, <3>2
  <2>7. \A t \in ServerStart : /\ starts'[t].of = starts[t].of /\ (starts'[t].at = "idle" <=> starts[t].at = "idle")
                               /\ starts'[t].at = "install" => starts[t].at = "install"
                               /\ starts[t].child = "none" => starts'[t].child = "none"
    BY <2>1, <2>2, <2>4
  <2> QED
    BY <2>1, <2>4, <2>5, <2>6, <2>7, McpMoves
<1>7. ASSUME NEW s \in ServerStart, mcp!SpawnError(s)
      PROVE  McpInv'
  <2> DEFINE id == starts[s].of
             r == running[id]
             own == [starts[s] EXCEPT !.child = "reaped", !.at = "failed"]
             new(t) == IF t = s THEN own ELSE IF t = r THEN mcp!Kill(t) ELSE starts[t]
  <2>1. starts[s] \in StartType /\ starts[s].child = "alive" /\ starts' = [t \in ServerStart |-> new(t)]
        /\ running' = [running EXCEPT ![id] = 0] /\ careful' = careful /\ down' = down
        /\ starts[s].at # "idle" /\ Busy(s) /\ id \in Server
    BY <1>7 DEF mcp!SpawnError, mcp!Register, mcp!NoStart, McpInv, Busy
  <2>2. own \in StartType /\ own.of = id /\ own.child = "reaped" /\ own.at = "failed"
    BY <2>1 DEF StartType, ChildStates
  <2> HIDE DEF own
  <2>3. ASSUME NEW t \in ServerStart
        PROVE  /\ new(t) \in StartType /\ new(t).of = starts[t].of
               /\ new(t).at = IF t = s THEN "failed" ELSE starts[t].at
               /\ starts[t].child = "none" => new(t).child = "none"
               /\ new(t).child = "alive" => starts[t].child = "alive" /\ t # s
               /\ new(t).child \in {"killed", "gone"} => starts[t].child \in {"alive", "killed", "gone"}
    BY <2>1, <2>2, KilledStart DEF McpInv
  <2> HIDE DEF new
  <2>4. /\ starts' \in [ServerStart -> StartType] /\ running' \in [Server -> ServerStart \cup {0}]
        /\ \A k \in Server : k # id => running'[k] = running[k]
    BY <2>1, <2>3 DEF McpInv
  <2>5. \A t \in ServerStart : Busy(t)' => Busy(t)
    BY <2>1, <2>3 DEF Busy, mcp!Starting, mcp!Handshaking
  <2>6. ASSUME NEW t \in ServerStart, starts'[t].child = "alive", careful, ~down'
        PROVE  ~down /\ starts[t].child = "alive" /\ running'[starts[t].of] = running[starts[t].of]
    <3>1. t # s /\ starts[t].child = "alive" /\ Busy(t) /\ starts[t].of \in Server
      BY <2>1, <2>3, <2>6 DEF Busy, McpInv
    <3>2. starts[t].of # id
      BY <2>1, <2>6, <3>1 DEF McpInv
    <3> QED
      BY <2>1, <2>4, <2>6, <3>1, <3>2
  <2>7. \A t \in ServerStart : /\ starts'[t].of = starts[t].of /\ (starts'[t].at = "idle" <=> starts[t].at = "idle")
                               /\ starts'[t].at = "install" => starts[t].at = "install"
                               /\ starts[t].child = "none" => starts'[t].child = "none"
    BY <2>1, <2>3
  <2> QED
    BY <2>1, <2>4, <2>5, <2>6, <2>7, McpMoves
\* stopping what is registered under an id, or under any
<1>8. ASSUME NEW stops \in SUBSET Server, careful' = careful, down => down',
             running' = [id \in Server |-> IF id \in stops THEN 0 ELSE running[id]],
             starts' = [s \in ServerStart |-> IF \E id \in stops : running[id] = s THEN mcp!Kill(s) ELSE starts[s]]
      PROVE  McpInv'
  <2> DEFINE new(t) == IF \E id \in stops : running[id] = t THEN mcp!Kill(t) ELSE starts[t]
  <2>1. starts' = [t \in ServerStart |-> new(t)]
    BY <1>8
  <2>2. ASSUME NEW t \in ServerStart
        PROVE  /\ new(t) \in StartType /\ new(t).of = starts[t].of /\ new(t).at = starts[t].at
               /\ starts[t].child = "none" => new(t).child = "none"
               /\ new(t).child = "alive" => starts[t].child = "alive" /\ \A id \in stops : running[id] # t
               /\ new(t).child \in {"killed", "gone"} => starts[t].child \in {"alive", "killed", "gone"}
    BY KilledStart DEF McpInv
  <2> HIDE DEF new
  <2>3. \A t \in ServerStart : Busy(t)' => Busy(t)
    BY <2>1, <2>2 DEF Busy, mcp!Starting, mcp!Handshaking
  <2>4. ASSUME NEW t \in ServerStart, starts'[t].child = "alive", careful, ~down'
        PROVE  ~down /\ starts[t].child = "alive" /\ running'[starts[t].of] = running[starts[t].of]
    <3>1. starts[t].child = "alive" /\ ~down /\ starts[t].of \in Server /\ \A id \in stops : running[id] # t
      BY <1>8, <2>1, <2>2, <2>4 DEF McpInv
    <3>2. running[starts[t].of] = t
      BY <2>4, <3>1 DEF McpInv, mcp!RunsKnown
    <3> QED
      BY <1>8, <3>1, <3>2
  <2>5. starts' \in [ServerStart -> StartType] /\ running' \in [Server -> ServerStart \cup {0}]
    BY <1>8, <2>1, <2>2 DEF McpInv
  <2>6. \A t \in ServerStart : /\ starts'[t].of = starts[t].of /\ starts'[t].at = starts[t].at
                               /\ starts[t].child = "none" => starts'[t].child = "none"
    BY <2>1, <2>2
  <2> QED
    BY <1>8, <2>3, <2>4, <2>5, <2>6, McpMoves
<1>9. ASSUME NEW id \in Server, mcp!stopServer(id)
      PROVE  McpInv'
  <2>1. /\ running[id] \in ServerStart /\ careful' = careful /\ down' = down
        /\ running' = [running EXCEPT ![id] = 0] /\ starts' = [starts EXCEPT ![running[id]] = mcp!Kill(running[id])]
    BY <1>9 DEF mcp!stopServer, mcp!Register, mcp!NoStart, McpInv
  <2>2. /\ running' = [k \in Server |-> IF k \in {id} THEN 0 ELSE running[k]]
        /\ starts' = [s \in ServerStart |-> IF \E k \in {id} : running[k] = s THEN mcp!Kill(s) ELSE starts[s]]
    BY <2>1 DEF McpInv
  <2>3. PICK stops \in SUBSET Server : stops = {id}
    OBVIOUS
  <2>4. /\ running' = [k \in Server |-> IF k \in stops THEN 0 ELSE running[k]]
        /\ starts' = [s \in ServerStart |-> IF \E k \in stops : running[k] = s THEN mcp!Kill(s) ELSE starts[s]]
    BY <2>2, <2>3
  <2> QED
    BY <1>8, <2>1, <2>4
<1>10. CASE mcp!Shutdown
  <2>1. /\ running' = [id \in Server |-> IF id \in Server THEN 0 ELSE running[id]] /\ careful' = careful /\ down' = TRUE
        /\ starts' = [s \in ServerStart |-> IF \E id \in Server : running[id] = s THEN mcp!Kill(s) ELSE starts[s]]
    BY <1>10 DEF mcp!Shutdown, mcp!NoStart
  <2> QED
    BY <1>8, <2>1
<1>11. ASSUME NEW c \in Call, mcp!CallAnswered(c) \/ mcp!CallFails(c) \/ \E id \in Server : mcp!callTool(c, id)
       PROVE  UNCHANGED <<running, starts, down, careful>>
  BY <1>11 DEF mcp!CallAnswered, mcp!CallFails, mcp!callTool
<1>12. CASE UNCHANGED <<running, starts, down, careful>>
  BY <1>12 DEF McpInv, Busy, mcp!Starting, mcp!Handshaking, mcp!RunsKnown
<1> QED
  BY <1>1, <1>2, <1>3, <1>4, <1>5, <1>6, <1>7, <1>9, <1>10, <1>11, <1>12 DEF mcp!Works, mcpVars

\* What is registered runs, and nobody waits for what has been seen to end.
CallStates == {"idle", "call", "widget", "answered", "failed"}
McpLive ==
  /\ calls \in [Call -> [at : CallStates, to : ServerStart \cup {0}]]
  /\ \A id \in Server : running[id] # 0 => starts[running[id]].of = id /\ starts[running[id]].at # "idle"
  /\ mcp!RegisteredRuns /\ mcp!ExitSettles

LEMMA McpLiveStarts ==
  ASSUME mcp!Init
  PROVE  McpLive
BY DEF mcp!Init, mcp!NotStarted, mcp!NotCalled, mcp!NoStart, McpLive, CallStates, mcp!RegisteredRuns, mcp!ExitSettles,
       mcp!Waiting, mcp!Handshaking

\* Starts go on, without being seen to end, and ids are only taken away.
LEMMA LiveMoves ==
  ASSUME McpInv, McpLive, calls' = calls, running' \in [Server -> ServerStart \cup {0}],
         \A id \in Server : running'[id] \in {0, running[id]},
         \A t \in ServerStart :
           /\ starts'[t].of = starts[t].of /\ (starts[t].at # "idle" => starts'[t].at # "idle")
           /\ starts'[t].child = "reaped" => starts[t].child = "reaped"
           /\ mcp!Handshaking(t)' => mcp!Handshaking(t)
  PROVE  McpLive'
<1>1. \A c \in Call : mcp!Waiting(c)' <=> mcp!Waiting(c)
  BY DEF mcp!Waiting
<1>2. mcp!ExitSettles'
  BY <1>1 DEF McpLive, mcp!ExitSettles
<1>3. mcp!RegisteredRuns' /\ \A id \in Server : running'[id] # 0 => starts'[running'[id]].of = id /\ starts'[running'[id]].at # "idle"
  BY DEF McpInv, McpLive, mcp!RegisteredRuns, mcp!NoStart
<1> QED
  BY <1>2, <1>3 DEF McpLive

\* An end that is heard of settles what waits for it.
LEMMA ReapedSettles ==
  ASSUME BoundsAssumption, McpInv, McpLive, NEW s \in ServerStart, starts[s].of \in Server,
         calls' = mcp!Rejected(s), running' = [running EXCEPT ![starts[s].of] = 0],
         \A t \in ServerStart :
           /\ starts'[t].of = starts[t].of /\ (starts[t].at # "idle" => starts'[t].at # "idle")
           /\ t # s => (starts'[t].child = "reaped" => starts[t].child = "reaped")
           /\ mcp!Handshaking(t)' => t # s /\ mcp!Handshaking(t)
  PROVE  McpLive'
<1>1. /\ calls' \in [Call -> [at : CallStates, to : ServerStart \cup {0}]]
      /\ \A c \in Call : calls'[c].to = calls[c].to /\ (mcp!Waiting(c)' => mcp!Waiting(c) /\ calls[c].to # s)
  <2>1. \A c \in Call : LET new == [calls[c] EXCEPT !.at = IF @ = "widget" THEN "answered" ELSE "failed"]
                        IN  /\ new \in [at : CallStates, to : ServerStart \cup {0}]
                            /\ new.to = calls[c].to /\ new.at \in {"answered", "failed"}
    BY DEF McpLive, CallStates
  <2> QED
    BY <2>1 DEF McpLive, mcp!Rejected, mcp!Waiting
<1>2. mcp!ExitSettles'
  BY <1>1 DEF McpLive, mcp!ExitSettles
<1>3. ASSUME NEW id \in Server, running'[id] # 0
      PROVE  running'[id] = running[id] /\ running[id] # s
  <2>1. running' = [k \in Server |-> IF k = starts[s].of THEN 0 ELSE running[k]]
    BY DEF McpInv
  <2>2. running'[id] = running[id] /\ id # starts[s].of
    BY <1>3, <2>1
  <2>3. starts[running[id]].of = id
    BY <1>3, <2>2 DEF McpLive
  <2> QED
    BY <2>2, <2>3
<1>4. ASSUME NEW id \in Server, running'[id] # 0
      PROVE  /\ starts'[running'[id]].of = id /\ starts'[running'[id]].at # "idle"
             /\ running'[id] \in ServerStart /\ starts'[running'[id]].child # "reaped"
  <2>1. running[id] \in ServerStart /\ running[id] # 0
    BY <1>3, <1>4 DEF McpInv
  <2>2. starts[running[id]].of = id /\ starts[running[id]].at # "idle" /\ starts[running[id]].child # "reaped"
    BY <2>1 DEF McpLive, mcp!RegisteredRuns, mcp!NoStart
  <2> QED
    BY <1>3, <1>4, <2>1, <2>2
<1>5. mcp!RegisteredRuns'
  BY <1>4 DEF mcp!RegisteredRuns, mcp!NoStart
<1> QED
  BY <1>1, <1>2, <1>4, <1>5 DEF McpLive

LEMMA McpLiveKeeps ==
  ASSUME BoundsAssumption, McpInv, McpLive, McpInv',
         (mcp!Works /\ down' = down) \/ mcp!Shutdown \/ UNCHANGED <<mcpVars, down>>
  PROVE  McpLive'
<1>0. 0 \notin ServerStart /\ mcp!NoStart = 0 /\ running' \in [Server -> ServerStart \cup {0}]
      /\ \A t \in ServerStart : starts[t] \in StartType
  BY DEF BoundsAssumption, mcp!NoStart, McpInv
\* one start changes, and may get an id
<1>1. ASSUME NEW s \in ServerStart, NEW new, starts' = [starts EXCEPT ![s] = new], calls' = calls,
             NEW id \in Server, running' \in {running, [running EXCEPT ![id] = s]},
             new.of = id, new.at # "idle", new.child # "reaped", starts[s].at = "idle" \/ starts[s].of = id
      PROVE  McpLive'
  <2>1. starts'[s] = new /\ \A t \in ServerStart : t # s => starts'[t] = starts[t]
    BY <1>1 DEF McpInv
  <2>2. \A k \in Server : running'[k] = running[k] \/ (k = id /\ running'[k] = s)
    BY <1>1 DEF McpInv
  <2>3. mcp!RegisteredRuns' /\ \A k \in Server : running'[k] # 0 => starts'[running'[k]].of = k /\ starts'[running'[k]].at # "idle"
    BY <1>0, <1>1, <2>1, <2>2 DEF McpInv, McpLive, mcp!RegisteredRuns
  <2>4. mcp!ExitSettles'
    BY <1>1, <2>1 DEF McpLive, mcp!ExitSettles, mcp!Waiting, mcp!Handshaking
  <2> QED
    BY <1>1, <2>3, <2>4 DEF McpLive
<1>2. ASSUME NEW s \in ServerStart, NEW id \in Server, mcp!startServer(id, s)
      PROVE  McpLive'
  <2> DEFINE new == [of |-> id, at |-> IF id \in Remote THEN "initialize" ELSE "install", child |-> "none"]
  <2>1. starts' = [starts EXCEPT ![s] = new] /\ calls' = calls /\ running' \in {running, [running EXCEPT ![id] = s]}
        /\ starts[s].at = "idle"
    BY <1>2 DEF mcp!startServer, mcp!Register
  <2>2. new.of = id /\ new.at # "idle" /\ new.child # "reaped"
    OBVIOUS
  <2> HIDE DEF new
  <2> QED
    BY <1>1, <2>1, <2>2
<1>3. ASSUME NEW s \in ServerStart, mcp!Provided(s)
      PROVE  McpLive'
  <2>1. starts[s].at = "install" /\ calls' = calls /\ starts[s].of \in Server
    BY <1>3 DEF mcp!Provided, McpInv
  <2>2. CASE /\ starts' = [starts EXCEPT ![s].at = "initialize", ![s].child = "alive"]
             /\ mcp!Register(starts[s].of, s)
    <3> DEFINE new == [starts[s] EXCEPT !.at = "initialize", !.child = "alive"]
    <3>1. new.of = starts[s].of /\ new.at = "initialize" /\ new.child = "alive"
      BY <1>0 DEF StartType
    <3>2. starts' = [starts EXCEPT ![s] = new] /\ running' = [running EXCEPT ![starts[s].of] = s]
      BY <2>2 DEF mcp!Register
    <3> HIDE DEF new
    <3> QED
      BY <1>1, <2>1, <3>1, <3>2
  <2>3. CASE starts' = [starts EXCEPT ![s].at = "failed"] /\ UNCHANGED running
    <3>1. \A t \in ServerStart : /\ starts'[t].of = starts[t].of /\ starts'[t].child = starts[t].child
                                 /\ starts'[t].at = IF t = s THEN "failed" ELSE starts[t].at
      BY <1>0, <2>3 DEF StartType, McpInv
    <3> QED
      BY <1>0, <2>1, <2>3, <3>1, LiveMoves DEF mcp!Handshaking
  <2> QED
    BY <1>3, <2>2, <2>3 DEF mcp!Provided
<1>4. ASSUME NEW s \in ServerStart, mcp!Handshaking(s), mcp!Failed(s), calls' = calls
      PROVE  McpLive'
  <2> DEFINE id == starts[s].of
             old(t) == IF t = running[id] /\ ~mcp!Remotely(s) THEN mcp!Kill(t) ELSE starts[t]
  <2>1. id \in Server /\ running' = [running EXCEPT ![id] = 0]
    BY <1>4 DEF McpInv, mcp!Handshaking, mcp!Failed, mcp!Register, mcp!NoStart
  <2>2. ASSUME NEW t \in ServerStart
        PROVE  /\ old(t) \in StartType /\ old(t).of = starts[t].of /\ old(t).at = starts[t].at
               /\ old(t).child = "reaped" => starts[t].child = "reaped"
    BY <1>0 DEF mcp!Kill, StartType, ChildStates
  <2>3. \A t \in ServerStart : starts'[t] = [old(t) EXCEPT !.at = IF t = s THEN "failed" ELSE @]
    BY <1>4 DEF mcp!Failed
  <2> HIDE DEF old
  <2>4. ASSUME NEW t \in ServerStart
        PROVE  /\ starts'[t].of = starts[t].of /\ starts'[t].child = old(t).child
               /\ starts'[t].at = IF t = s THEN "failed" ELSE starts[t].at
    <3>1. PICK o \in StartType : o = old(t)
      BY <2>2
    <3>2. starts'[t] = [o EXCEPT !.at = IF t = s THEN "failed" ELSE o.at]
      BY <2>3, <3>1
    <3>3. /\ starts'[t].of = o.of /\ starts'[t].child = o.child
          /\ starts'[t].at = IF t = s THEN "failed" ELSE o.at
      BY <3>2 DEF StartType
    <3> QED
      BY <2>2, <3>1, <3>3
  <2>5. \A k \in Server : running'[k] \in {0, running[k]}
    BY <2>1 DEF McpInv
  <2> QED
    BY <1>0, <1>4, <2>2, <2>4, <2>5, LiveMoves DEF mcp!Handshaking
<1>5. ASSUME NEW s \in ServerStart, mcp!Answered(s)
      PROVE  McpLive'
  <2>1. mcp!Handshaking(s) /\ calls' = calls
    BY <1>5 DEF mcp!Answered
  <2>2. ASSUME NEW at \in {"initialized", "list", "ready"}, starts' = [starts EXCEPT ![s].at = at], running' = running
        PROVE  McpLive'
    <3>1. \A t \in ServerStart : /\ starts'[t].of = starts[t].of /\ starts'[t].child = starts[t].child
                                 /\ starts'[t].at = IF t = s THEN at ELSE starts[t].at
      BY <1>0, <2>2 DEF StartType, McpInv
    <3> QED
      BY <1>0, <2>1, <2>2, <3>1, LiveMoves DEF mcp!Handshaking
  <2> QED
    BY <1>4, <1>5, <2>1, <2>2 DEF mcp!Answered, mcp!Handshaking
<1>6. ASSUME NEW s \in ServerStart, mcp!Refused(s)
      PROVE  McpLive'
  BY <1>4, <1>6 DEF mcp!Refused
<1>7. ASSUME calls' = calls, \A id \in Server : running'[id] \in {0, running[id]},
             \A t \in ServerStart : starts'[t] \in {starts[t], mcp!Kill(t)}
      PROVE  McpLive'
  <2>1. \A t \in ServerStart : /\ mcp!Kill(t).of = starts[t].of /\ mcp!Kill(t).at = starts[t].at
                               /\ mcp!Kill(t).child = "reaped" => starts[t].child = "reaped"
    BY <1>0 DEF mcp!Kill, StartType, ChildStates
  <2> QED
    BY <1>0, <1>7, <2>1, LiveMoves DEF mcp!Handshaking
<1>8. ASSUME (\E id \in Server : mcp!stopServer(id)) \/ mcp!Shutdown
      PROVE  McpLive'
  <2>1. calls' = calls /\ \A id \in Server : running'[id] \in {0, running[id]}
    BY <1>0, <1>8 DEF mcp!stopServer, mcp!Shutdown, mcp!Register, McpInv
  <2>2. \A t \in ServerStart : starts'[t] \in {starts[t], mcp!Kill(t)}
    BY <1>0, <1>8 DEF mcp!stopServer, mcp!Shutdown, McpInv
  <2> QED
    BY <1>7, <2>1, <2>2
<1>9. ASSUME NEW s \in ServerStart, mcp!Ends(s)
      PROVE  McpLive'
  <2>1. \A t \in ServerStart : /\ starts'[t].of = starts[t].of /\ starts'[t].at = starts[t].at
                               /\ starts'[t].child = IF t = s THEN "gone" ELSE starts[t].child
    BY <1>0, <1>9 DEF mcp!Ends, StartType, McpInv
  <2> QED
    BY <1>0, <1>9, <2>1, LiveMoves DEF mcp!Ends, mcp!Handshaking
<1>10. ASSUME NEW s \in ServerStart, mcp!ExitEvent(s)
       PROVE  McpLive'
  <2>1. starts[s].of \in Server /\ calls' = mcp!Rejected(s) /\ running' = [running EXCEPT ![starts[s].of] = 0]
    BY <1>0, <1>10 DEF mcp!ExitEvent, mcp!Register, McpInv
  <2>2. \A t \in ServerStart : /\ starts'[t].of = starts[t].of
                               /\ starts'[t].child = IF t = s THEN "reaped" ELSE starts[t].child
                               /\ starts'[t].at = IF t = s /\ mcp!Handshaking(s) THEN "failed" ELSE starts[t].at
    BY <1>0, <1>10 DEF mcp!ExitEvent, StartType, McpInv
  <2> QED
    BY <2>1, <2>2, ReapedSettles DEF mcp!Handshaking
<1>11. ASSUME NEW s \in ServerStart, mcp!SpawnError(s)
       PROVE  McpLive'
  <2>1. starts[s].of \in Server /\ calls' = mcp!Rejected(s) /\ running' = [running EXCEPT ![starts[s].of] = 0]
    BY <1>0, <1>11 DEF mcp!SpawnError, mcp!Register, McpInv, mcp!Handshaking
  <2>2. \A t \in ServerStart : /\ mcp!Kill(t).of = starts[t].of /\ mcp!Kill(t).at = starts[t].at
                               /\ mcp!Kill(t).child = "reaped" => starts[t].child = "reaped"
    BY <1>0 DEF mcp!Kill, StartType, ChildStates
  <2>3. /\ \A t \in ServerStart : t # s => starts'[t] \in {starts[t], mcp!Kill(t)}
        /\ starts'[s] = [starts[s] EXCEPT !.child = "reaped", !.at = "failed"]
    BY <1>11 DEF mcp!SpawnError
  <2>4. starts'[s].of = starts[s].of /\ starts'[s].at = "failed"
    BY <1>0, <2>3 DEF StartType
  <2>5. \A t \in ServerStart :
          /\ starts'[t].of = starts[t].of /\ (starts[t].at # "idle" => starts'[t].at # "idle")
          /\ t # s => (starts'[t].child = "reaped" => starts[t].child = "reaped")
          /\ mcp!Handshaking(t)' => t # s /\ mcp!Handshaking(t)
    BY <2>2, <2>3, <2>4 DEF mcp!Handshaking
  <2> QED
    BY <2>1, <2>5, ReapedSettles
<1>12. ASSUME NEW c \in Call, mcp!CallAnswered(c) \/ mcp!CallFails(c) \/ \E id \in Server : mcp!callTool(c, id)
       PROVE  McpLive'
  <2>1. UNCHANGED <<running, starts>>
    BY <1>12 DEF mcp!CallAnswered, mcp!CallFails, mcp!callTool
  <2> DEFINE Kept == calls' \in [Call -> [at : CallStates, to : ServerStart \cup {0}]]
             WaitsOn == \A d \in Call : mcp!Waiting(d)' =>
                          \/ mcp!Waiting(d) /\ calls'[d].to = calls[d].to
                          \/ \E id \in Server : running[id] \in ServerStart /\ calls'[d].to = running[id]
  <2>2. Kept /\ WaitsOn
    <3>1. CASE mcp!CallAnswered(c) \/ mcp!CallFails(c)
      <4>1. PICK at \in CallStates : calls' = [calls EXCEPT ![c].at = at]
        BY <3>1 DEF mcp!CallAnswered, mcp!CallFails, McpLive, CallStates
      <4>2. mcp!Waiting(c)
        BY <3>1 DEF mcp!CallAnswered, mcp!CallFails
      <4>3. /\ calls' \in [Call -> [at : CallStates, to : ServerStart \cup {0}]]
            /\ \A d \in Call : calls'[d].to = calls[d].to /\ (d # c => calls'[d] = calls[d])
        BY <4>1 DEF McpLive
      <4> QED
        BY <4>2, <4>3 DEF mcp!Waiting
    <3>2. ASSUME NEW id \in Server, mcp!callTool(c, id)
          PROVE  Kept /\ WaitsOn
      <4>1. running[id] \in ServerStart /\ calls' = [calls EXCEPT ![c] = [at |-> IF mcp!Writable(running[id]) THEN "call" ELSE "failed",
                                    to |-> running[id]]]
        BY <1>0, <3>2 DEF mcp!callTool, McpInv
      <4> QED
        BY <4>1 DEF McpLive, CallStates, mcp!Waiting
    <3> QED
      BY <1>12, <3>1, <3>2
  <2>3. mcp!ExitSettles' /\ mcp!RegisteredRuns'
    BY <1>0, <2>1, <2>2 DEF McpLive, mcp!ExitSettles, mcp!RegisteredRuns, mcp!Handshaking
  <2> QED
    BY <2>1, <2>2, <2>3 DEF McpLive
<1>13. CASE UNCHANGED <<mcpVars, down>>
  BY <1>13 DEF mcpVars, McpLive, mcp!ExitSettles, mcp!RegisteredRuns, mcp!Handshaking, mcp!Waiting
<1> QED
  BY <1>2, <1>3, <1>5, <1>6, <1>8, <1>9, <1>10, <1>11, <1>12, <1>13 DEF mcp!Works

-----------------------------------------------------------------------------
(* All of them.                                                            *)

ReachInv == McpInv /\ EmbedInv /\ CommandInv /\ ShellInv /\ ColibriInv

THEOREM Invariance == Spec => []ReachInv
<1>1. Init => ReachInv
  BY McpStarts, EmbedStarts, CommandsStart, ShellStarts, ColibriStarts, BoundsAssumption DEF Init, ReachInv
<1>2. ReachInv /\ [Next]_vars => ReachInv'
  BY OneAtWork, McpKeeps, EmbedKeeps, CommandsKeep, ShellKeeps, ColibriKeeps, BoundsAssumption DEF ReachInv
<1> QED
  BY <1>1, <1>2, PTL DEF Spec

\* A process that nobody has told to end can be reached by what would stop it, with any
\* number of extensions, requests, commands, terminals, windows and starts.
THEOREM NothingIsLost == Spec => []ChildrenReachable
<1>1. ReachInv => ChildrenReachable
  BY DEF ReachInv, McpInv, EmbedInv, CommandInv, ShellInv, ColibriInv, ChildrenReachable
<1> QED
  BY <1>1, Invariance, PTL

\* What is true of ends and of waits needs more, on top of what keeps processes known.
TruthInv ==
  /\ ReachInv
  /\ McpLive /\ EmbedOwn /\ CommandsTrue /\ colibri!ChildKnown /\ ChatInv

\* The invariants of the components, together, for every number of each of the things
\* the components deal with.
THEOREM TruthInvariance == Spec => []TruthInv
<1>1. Init => TruthInv
  <2>1. SUFFICES ASSUME Init
                 PROVE  TruthInv
    OBVIOUS
  <2>2. mcp!Init /\ embedServer!Init /\ commands!Init /\ shellHost!Init /\ llamaProcess!Init /\ colibri!CInit
    BY <2>1 DEF Init
  <2>3. ReachInv
    BY <2>2, McpStarts, EmbedStarts, CommandsStart, ShellStarts, ColibriStarts, BoundsAssumption DEF ReachInv
  <2>4. McpLive /\ EmbedOwn /\ CommandsTrue /\ ChatInv
    BY <2>2, McpLiveStarts, EmbedOwnStarts, CommandsTrueStart, ChatStarts, BoundsAssumption, ChatAssumption
  <2>5. colibri!ChildKnown
    BY <2>2 DEF colibri!CInit, colibri!ChildKnown
  <2> QED
    BY <2>3, <2>4, <2>5 DEF TruthInv
<1>2. TruthInv /\ [Next]_vars => TruthInv'
  <2>1. SUFFICES ASSUME TruthInv, [Next]_vars
                 PROVE  TruthInv'
    OBVIOUS
  <2>2. /\ McpInv /\ EmbedInv /\ CommandInv /\ ColibriInv /\ ReachInv
        /\ McpLive /\ EmbedOwn /\ CommandsTrue /\ colibri!ChildKnown /\ ChatInv
    BY <2>1 DEF TruthInv, ReachInv
  <2>3. ReachInv'
    BY <2>1, <2>2, OneAtWork, McpKeeps, EmbedKeeps, CommandsKeep, ShellKeeps, ColibriKeeps, BoundsAssumption
       DEF ReachInv
  <2>4. McpInv' /\ EmbedInv' /\ CommandInv'
    BY <2>3 DEF ReachInv
  <2>5. McpLive'
    BY <2>1, <2>2, <2>4, OneAtWork, McpLiveKeeps, BoundsAssumption
  <2>6. EmbedOwn'
    BY <2>1, <2>2, <2>4, OneAtWork, EmbedOwnKeeps, BoundsAssumption
  <2>7. CommandsTrue'
    BY <2>1, <2>2, <2>4, OneAtWork, CommandsTrueKeep, BoundsAssumption
  <2>8. colibri!ChildKnown' /\ ChatInv'
    BY <2>1, <2>2, OneAtWork, GatewayKnown, ChatKeeps, BoundsAssumption, ChatAssumption
  <2> QED
    BY <2>3, <2>5, <2>6, <2>7, <2>8 DEF TruthInv
<1> QED
  BY <1>1, <1>2, PTL DEF Spec

\* What counts as running has not been seen to end, what was reported as ended has ended,
\* the end of a task is reported once, and a chat has at most MAX_RUNNING_PER_CHAT tasks.
THEOREM EndsWereTrue == Spec => []EndsAreTrue
<1>1. TruthInv => EndsAreTrue
  <2>1. ASSUME TruthInv
        PROVE  /\ mcp!RegisteredRuns /\ colibri!ChildKnown /\ llamaProcess!ActiveKnown
               /\ CommandInv /\ CommandsTrue
    BY <2>1 DEF TruthInv, ReachInv, McpLive, ChatInv
  <2> QED
    BY <2>1, CommandsTrueShow, BoundsAssumption DEF EndsAreTrue
<1> QED
  BY <1>1, TruthInvariance, PTL

\* Whoever waits, for the start of an extension or of an engine, for a task or for an
\* answer, waits for something under way, and is served by a server of the right model.
THEOREM WaitsWereAlive == Spec => []WaitsAreAlive
<1>1. TruthInv => WaitsAreAlive
  <2>1. ASSUME TruthInv
        PROVE  /\ mcp!ExitSettles /\ llamaProcess!JoinedInFlight
               /\ EmbedInv /\ EmbedOwn /\ CommandInv /\ CommandsTrue
    BY <2>1 DEF TruthInv, ReachInv, McpLive, ChatInv, ChatJoins, llamaProcess!JoinedInFlight
  <2> QED
    BY <2>1, CommandsTrueShow, EmbedOwnShows, BoundsAssumption DEF WaitsAreAlive
<1> QED
  BY <1>1, TruthInvariance, PTL

\* A start of the engine for large models that reports success owns the engine.
THEOREM SuccessOwns == Spec => LoadedIsOwned
<1> DEFINE Owned == \A s \in Attempt : largeStarts[s] # "loaded" /\ largeStarts'[s] = "loaded" => largeChild = s
<1>1. ReachInv /\ [Next]_vars => [Owned]_colibriVars
  BY OneAtWork, LoadedOwns, BoundsAssumption DEF ReachInv
<1>2. Spec => [][Owned]_colibriVars
  <2> HIDE DEF Owned
  <2>1. ReachInv /\ [Next]_vars => [Owned]_colibriVars
    BY <1>1
  <2> QED
    BY <2>1, Invariance, PTL DEF Spec
<1> QED
  BY <1>2 DEF LoadedIsOwned, colibri!LoadedIsOwned, colibri!cvars, colibriVars

\* A window hears of the ends of its terminals that it did not ask for, and of no others.
THEOREM OwnEndsHeard == Spec => ToldOfOwnEnds
<1> DEFINE Heard == \A t \in Terminal :
       /\ t \in told' \ told => t \in shellHost!Open /\ sessions[t].owner \in windows
       /\ t \in shellHost!Open /\ sessions'[t].child = "reaped" => t \in told' /\ t \notin shellHost!Open'
<1>1. ReachInv /\ [Next]_vars => Heard
  BY OneAtWork, EndsHeard DEF ReachInv
<1>2. Spec => [][Heard]_<<sessions, windows, told, down>>
  <2>1. ReachInv /\ [Next]_vars => [Heard]_<<sessions, windows, told, down>>
    BY <1>1
  <2> HIDE DEF Heard
  <2> QED
    BY <2>1, Invariance, PTL DEF Spec
<1> QED
  BY <1>2 DEF ToldOfOwnEnds, shellHost!ToldOfOwnEnds, shellHost!vars
=============================================================================
