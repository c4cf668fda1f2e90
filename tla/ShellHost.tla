----------------------------- MODULE ShellHost -----------------------------
(***************************************************************************)
(* The user's terminals: win/electron/shellHost.cjs, which keeps the       *)
(* shells by the window that opened them, and the shell:* handlers of      *)
(* win/electron/main.cjs.                                                  *)
(***************************************************************************)
EXTENDS Integers, FiniteSets

CONSTANTS
  Window,      \* the windows of a behaviour (a bound)
  Terminal,    \* the shells of a behaviour (a bound)
  MaxSessions  \* MAX_SESSIONS

VARIABLES
  sessions, \* sessions[t]: the window that owns the shell, whether it is in the map, its process
  windows,  \* windows not destroyed yet
  told,     \* terminals whose window was told that the shell has ended (an observer)
  down      \* shutdown() has run

vars == <<sessions, windows, told, down>>

Unopened == [owner |-> "none", at |-> "none", child |-> "none"]

TypeOK ==
  /\ sessions \in [Terminal -> [owner : Window \cup {"none"}, at : {"none", "open", "closed"},
                                child : {"none", "alive", "killed", "gone", "reaped"}]]
  /\ windows \in SUBSET Window /\ told \in SUBSET Terminal /\ down \in BOOLEAN
  /\ \A t \in Terminal : sessions[t].at = "open" <=> sessions[t].at # "closed" /\ sessions[t].owner \in Window

Init ==
  /\ sessions = [t \in Terminal |-> Unopened] /\ windows = Window /\ told = {} /\ down = FALSE

Open == {t \in Terminal : sessions[t].at = "open"}

\* the `closed' flag is set, the map lets go of the shell and its process is killed
Close(closing) ==
  sessions' = [t \in Terminal |->
    IF t \in closing
    THEN [sessions[t] EXCEPT !.at = "closed", !.child = IF @ = "alive" THEN "killed" ELSE @]
    ELSE sessions[t]]

open(t, w) ==
  /\ ~down /\ w \in windows /\ sessions[t].at = "none" /\ Cardinality(Open) < MaxSessions
  /\ sessions' = [sessions EXCEPT ![t] = [owner |-> w, at |-> "open", child |-> "alive"]]
  /\ UNCHANGED <<windows, told, down>>

\* a window closes a shell of its own
close(t) ==
  /\ ~down /\ t \in Open /\ Close({t}) /\ UNCHANGED <<windows, told, down>>

\* a window goes, and what it opened with it
Destroyed(w) ==
  /\ w \in windows /\ windows' = windows \ {w}
  /\ Close({t \in Open : sessions[t].owner = w}) /\ UNCHANGED <<told, down>>

Shutdown == ~down /\ down' = TRUE /\ Close(Open) /\ UNCHANGED <<windows, told>>

\* the shell ends, by itself or killed
Ends(t) ==
  /\ sessions[t].child \in {"alive", "killed"}
  /\ sessions' = [sessions EXCEPT ![t].child = "gone"] /\ UNCHANGED <<windows, told, down>>

\* terminal.onExit: the window is told, unless it closed the shell itself
onExitTells(t) ==
  /\ sessions[t].child = "gone"
  /\ sessions' = [sessions EXCEPT ![t].at = "closed", ![t].child = "reaped"]
  /\ told' = told \cup {t} /\ UNCHANGED <<windows, down>>
onExit(t) ==
  /\ sessions[t].child = "gone"
  /\ sessions' = [sessions EXCEPT ![t].at = "closed", ![t].child = "reaped"]
  /\ told' = told \cup (Open \cap {t}) /\ UNCHANGED <<windows, down>>

Works ==
  \/ \E t \in Terminal : close(t) \/ Ends(t) \/ onExit(t) \/ \E w \in Window : open(t, w)
  \/ \E w \in Window : Destroyed(w)

Next == Works \/ Shutdown

Spec == Init /\ [][Next]_vars

-----------------------------------------------------------------------------
(* Properties.                                                             *)

\* A shell runs only while a window that is there can write to it and close it.
TerminalsOwned ==
  \A t \in Terminal : sessions[t].child = "alive" => t \in Open /\ sessions[t].owner \in windows /\ ~down

\* A window hears of an end it did not ask for, and of no other: not of one it or
\* its own destruction caused.
ToldOfOwnEnds ==
  [][\A t \in Terminal :
       /\ t \in told' \ told => t \in Open /\ sessions[t].owner \in windows
       /\ t \in Open /\ sessions'[t].child = "reaped" => t \in told' /\ t \notin Open']_vars
=============================================================================
