----------------------------- MODULE McpServers -----------------------------
(***************************************************************************)
(* Extensions: win/electron/mcp.cjs, which runs an MCP server as a child   *)
(* process (or reaches it over HTTP), shakes hands with it and calls its   *)
(* tools, and the mcp:* handlers of win/electron/main.cjs.  startServer is *)
(* an async function, and an action is what it does between two awaits;    *)
(* the server process and node's events about it are the environment.     *)
(***************************************************************************)
EXTENDS Integers, FiniteSets

CONSTANTS
  Server,  \* the extensions, by catalogue id
  Remote,  \* those reached over HTTP
  Start,   \* the starts of a behaviour, numbered (a bound)
  Call     \* the tool calls of a behaviour (a bound)

NoStart == 0

VARIABLES
  running, \* running[id]: the start whose entry is registered under the id
  starts,  \* starts[s]: where startServer is, and the child it spawned
  calls,   \* calls[c]: where a tool call is, and the entry it goes to
  down,    \* shutdown() has run
  careful  \* nobody starts a server that is starting or not quite gone, or stops one that is starting

vars == <<running, starts, calls, down, careful>>

NotStarted == [of |-> "none", at |-> "idle", child |-> "none"]
NotCalled == [at |-> "idle", to |-> NoStart]

\* "gone" is a process whose exit node has not reported yet
TypeOK ==
  /\ running \in [Server -> Start \cup {NoStart}]
  /\ starts \in [Start -> [of : Server \cup {"none"},
       at : {"idle", "install", "initialize", "initialized", "list", "ready", "failed"},
       child : {"none", "alive", "killed", "gone", "reaped"}]]
  /\ calls \in [Call -> [at : {"idle", "call", "widget", "answered", "failed"},
                         to : Start \cup {NoStart}]]
  /\ \A id \in Server : running[id] # NoStart => starts[running[id]].of = id
  /\ down \in BOOLEAN /\ careful \in BOOLEAN

Init ==
  /\ running = [id \in Server |-> NoStart]
  /\ starts = [s \in Start |-> NotStarted]
  /\ calls = [c \in Call |-> NotCalled]
  /\ down = FALSE /\ careful \in BOOLEAN

Remotely(s) == starts[s].of \in Remote
Handshaking(s) == starts[s].at \in {"initialize", "initialized", "list"}
Starting(s) == starts[s].at = "install" \/ Handshaking(s)
Waiting(c) == calls[c].at \in {"call", "widget"}
\* child.stdin.writable: a stopped server still runs, but nothing can be asked of it
Writable(s) == Remotely(s) \/ starts[s].child = "alive"

Register(id, s) == running' = [running EXCEPT ![id] = s]
\* the end of a server, of which nobody is told but by its exit
Kill(s) == [starts[s] EXCEPT !.child = IF @ = "alive" THEN "killed" ELSE @]

-----------------------------------------------------------------------------
(* Starting a server.                                                      *)

\* startServer up to its first await; one that is registered is only described
startServer(id, s) ==
  /\ ~down /\ starts[s].at = "idle" /\ (\A r \in Start : r < s => starts[r].at # "idle")
  /\ running[id] = NoStart
  /\ careful => \A r \in Start : starts[r].of = id =>
                  ~Starting(r) /\ starts[r].child \notin {"killed", "gone"}
  /\ starts' = [starts EXCEPT ![s] = [of |-> id, at |-> IF id \in Remote THEN "initialize" ELSE "install",
                                      child |-> "none"]]
  /\ IF id \in Remote THEN Register(id, s) ELSE UNCHANGED running
  /\ UNCHANGED <<calls, down, careful>>

\* provideServer comes back, the program is spawned and asked to initialize
Provided(s) ==
  /\ starts[s].at = "install"
  /\ \/ /\ starts' = [starts EXCEPT ![s].at = "initialize", ![s].child = "alive"]
        /\ Register(starts[s].of, s)
     \/ starts' = [starts EXCEPT ![s].at = "failed"] /\ UNCHANGED running
  /\ UNCHANGED <<calls, down, careful>>

\* the catch of startServer stops whatever runs under its id; that of startRemote
\* only takes the id away
Failed(s) ==
  LET id == starts[s].of
      r == running[id]
  IN /\ Register(id, NoStart)
     /\ starts' = [t \in Start |->
          [(IF t = r /\ ~Remotely(s) THEN Kill(t) ELSE starts[t])
             EXCEPT !.at = IF t = s THEN "failed" ELSE @]]

\* the server answers initialize, then (over HTTP) takes the notification, then
\* answers tools/list; nothing more can be sent to one that was stopped meanwhile
Answered(s) ==
  /\ Handshaking(s) /\ (Remotely(s) \/ starts[s].child \in {"alive", "killed"})
  /\ CASE starts[s].at = "initialize" /\ Remotely(s) ->
            starts' = [starts EXCEPT ![s].at = "initialized"] /\ UNCHANGED running
       [] starts[s].at = "initialize" /\ ~Writable(s) -> Failed(s)
       [] starts[s].at = "initialized" \/ (starts[s].at = "initialize" /\ Writable(s) /\ ~Remotely(s)) ->
            starts' = [starts EXCEPT ![s].at = "list"] /\ UNCHANGED running
       [] starts[s].at = "list" -> starts' = [starts EXCEPT ![s].at = "ready"] /\ UNCHANGED running
  /\ UNCHANGED <<calls, down, careful>>

\* it answers with an error, or not in time
Refused(s) == Handshaking(s) /\ Failed(s) /\ UNCHANGED <<calls, down, careful>>

-----------------------------------------------------------------------------
(* Stopping.                                                               *)

stopServer(id) ==
  /\ ~down /\ running[id] # NoStart
  /\ careful => ~Starting(running[id])
  /\ Register(id, NoStart)
  /\ starts' = [starts EXCEPT ![running[id]] = Kill(running[id])]
  /\ UNCHANGED <<calls, down, careful>>

\* before-quit: stopAll; what was under way goes on until the program is gone
Shutdown ==
  /\ ~down /\ down' = TRUE
  /\ running' = [id \in Server |-> NoStart]
  /\ starts' = [s \in Start |-> IF \E id \in Server : running[id] = s THEN Kill(s) ELSE starts[s]]
  /\ UNCHANGED <<calls, careful>>

-----------------------------------------------------------------------------
(* Calling a tool.                                                         *)

\* callTool of a server that is registered, in whatever state it is
callTool(c, id) ==
  /\ calls[c].at = "idle" /\ running[id] # NoStart
  /\ calls' = [calls EXCEPT ![c] = [at |-> IF Writable(running[id]) THEN "call" ELSE "failed",
                                    to |-> running[id]]]
  /\ UNCHANGED <<running, starts, down, careful>>

\* the reply, with a widget to fetch or without; a widget that cannot be asked for
\* any more is left out
CallAnswered(c) ==
  /\ Waiting(c) /\ (Remotely(calls[c].to) \/ starts[calls[c].to].child \in {"alive", "killed"})
  /\ \/ calls' = [calls EXCEPT ![c].at = "answered"]
     \/ /\ calls[c].at = "call" /\ Writable(calls[c].to)
        /\ calls' = [calls EXCEPT ![c].at = "widget"]
  /\ UNCHANGED <<running, starts, down, careful>>

\* an error, or no reply in time; a widget that fails is only left out
CallFails(c) ==
  /\ Waiting(c)
  /\ calls' = [calls EXCEPT ![c].at = IF @ = "widget" THEN "answered" ELSE "failed"]
  /\ UNCHANGED <<running, starts, down, careful>>

-----------------------------------------------------------------------------
(* The child process.                                                      *)

\* it ends by itself, or of the kill, or never came up (an `error' and no exit)
Ends(s) ==
  /\ starts[s].child \in {"alive", "killed"}
  /\ starts' = [starts EXCEPT ![s].child = "gone"]
  /\ UNCHANGED <<running, calls, down, careful>>

Rejected(s) ==
  [c \in Call |-> IF Waiting(c) /\ calls[c].to = s
                  THEN [calls[c] EXCEPT !.at = IF @ = "widget" THEN "answered" ELSE "failed"]
                  ELSE calls[c]]

ExitEventKeepsEntry(s) ==
  /\ starts[s].child = "gone"
  /\ calls' = Rejected(s)
  /\ starts' = [starts EXCEPT ![s].child = "reaped", ![s].at = IF Handshaking(s) THEN "failed" ELSE @]
  /\ UNCHANGED <<running, down, careful>>

ExitEventUnsettled(s) ==
  /\ starts[s].child = "gone"
  /\ Register(starts[s].of, NoStart)
  /\ starts' = [starts EXCEPT ![s].child = "reaped", ![s].at = IF Handshaking(s) THEN "failed" ELSE @]
  /\ UNCHANGED <<calls, down, careful>>

\* the exit listener takes the id away, whose entry it may not be, and settles
\* what waits for the process, its own handshake included
ExitEvent(s) ==
  /\ starts[s].child = "gone"
  /\ Register(starts[s].of, NoStart)
  /\ calls' = Rejected(s)
  /\ starts' = [starts EXCEPT ![s].child = "reaped", ![s].at = IF Handshaking(s) THEN "failed" ELSE @]
  /\ UNCHANGED <<down, careful>>

\* the error listener of a program that could not be started: the entry stays until
\* the handshake's own catch, which comes at once
SpawnError(s) ==
  /\ starts[s].child = "alive" /\ Handshaking(s)
  /\ calls' = Rejected(s)
  /\ LET id == starts[s].of
         r == running[id]
     IN /\ Register(id, NoStart)
        /\ starts' = [t \in Start |->
             IF t = s THEN [starts[s] EXCEPT !.child = "reaped", !.at = "failed"]
             ELSE IF t = r THEN Kill(t) ELSE starts[t]]
  /\ UNCHANGED <<down, careful>>

-----------------------------------------------------------------------------
Works ==
  \/ \E id \in Server : stopServer(id) \/ \E s \in Start : startServer(id, s)
  \/ \E s \in Start :
       Provided(s) \/ Answered(s) \/ Refused(s) \/ Ends(s) \/ ExitEvent(s) \/ SpawnError(s)
  \/ \E c \in Call : CallAnswered(c) \/ CallFails(c) \/ \E id \in Server : callTool(c, id)

Next == Works \/ Shutdown

\* Installing, every request and every goodbye have a timeout; node reports an exit.
Handshakes(s) == Provided(s) \/ Answered(s) \/ Refused(s)
Fairness == \A s \in Start : WF_vars(Handshakes(s)) /\ WF_vars(ExitEvent(s))

Spec == Init /\ [][Next]_vars
FairSpec == Spec /\ Fairness

-----------------------------------------------------------------------------
(* Properties.                                                             *)

\* A server that runs can be stopped: by the switch and when Draggy quits.  Holds
\* when a start does not overlap another start, or the end, of the same server.
RunsKnown == careful => \A s \in Start : starts[s].child = "alive" /\ ~down => running[starts[s].of] = s

\* What is registered has not been reported as ended: a tool call never goes to a
\* server whose exit was seen, whatever overlaps.
RegisteredRuns ==
  \A id \in Server : running[id] # NoStart => starts[running[id]].child # "reaped"

\* An exit leaves no request of that server open: neither a call nor a handshake
\* waits for the timeout of a server that is gone.
ExitSettles ==
  \A s \in Start : starts[s].child = "reaped" =>
    ~Handshaking(s) /\ \A c \in Call : calls[c].to = s => ~Waiting(c)

\* "Servers and code runs are children of this process and would otherwise be left
\* running after the window is gone": after the quit's stopAll every server that ran
\* has been told to end.
StoppedByQuit ==
  [][down' /\ ~down => \A s \in Start : starts'[s].child # "alive"]_vars
=============================================================================
