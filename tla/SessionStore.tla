---------------------------- MODULE SessionStore ----------------------------
(***************************************************************************)
(* The conversations from React state to the database: useSessions.ts, the *)
(* debounced saves of storage.ts, the IPC between the window and the main  *)
(* process, storage.cjs, and the handshake of a quit.                      *)
(*                                                                         *)
(* A conversation is the set of the changes it contains, 0 for its         *)
(* creation; {} is no conversation.  A function given to setSessions runs  *)
(* at the next render (the first of an idle component at once), and        *)
(* sessionsRef is what the last effect left in it.  Nothing but a render   *)
(* changes what these functions start from, so what they will come to is   *)
(* known when they are given: `upcoming' and `saves'.                      *)
(***************************************************************************)
EXTENDS Integers, FiniteSets, SequencesExt

CONSTANTS
  Chat,     \* conversations
  MaxEdits, \* changes in a behaviour (a bound)
  MaxFails, \* saves the database refuses in a behaviour (a bound)
  MaxRuns,  \* starts of the application in a behaviour (a bound)
  SameTick  \* whether a turn may be laid out in the tick of another change

ASSUME StoreAssumption ==
  /\ IsFiniteSet(Chat) /\ {MaxEdits, MaxFails} \subseteq Nat /\ MaxRuns \in Nat \ {0}
  /\ SameTick \in BOOLEAN

Gone == {}

VARIABLES
  screen,  \* the sessions of the React state
  ref,     \* sessionsRef
  waits,   \* were functions given to setSessions that have not been rendered
  upcoming, saves,  \* the sessions after them, and the saves they will queue
  early,   \* chats whose save one of them queued already
  pending, \* the debounced saves
  written, \* what the window knows to be on disk
  wire,    \* from the window to the main process, in order
  replies, \* answers to saves on their way back, in order
  db,
  phase,   \* of the quit: "open", "asked", "flushing", "answered", "closed"
  owed,    \* what the window had when it was asked to flush
  deleted, \* chats the user deleted
  unsaved, \* chats whose last save failed and was not tried again
  edits, fails, runs

given == <<waits, upcoming, saves, early>>
window == <<screen, ref, given, pending>>
quit == <<phase, owed>>
counts == <<edits, fails, runs>>
storeVars == <<window, written, wire, replies, db, quit, deleted, unsaved, counts>>

Content == SUBSET (0..MaxEdits)
Version == {Gone} \cup {v \in Content : 0 \in v}
AllGone == [c \in Chat |-> Gone]
Message == [op : {"save", "delete", "flushed"}, chats : SUBSET Chat, content : Version,
            awaited : BOOLEAN]
AnswerToSave == [chat : Chat, content : Version, ok : BOOLEAN, awaited : BOOLEAN]

StoreTypeOK ==
  /\ {screen, ref, upcoming, saves, pending, written, db, owed} \subseteq [Chat -> Version]
  /\ waits \in BOOLEAN /\ early \subseteq Chat
  /\ wire \in Seq(Message) /\ replies \in Seq(AnswerToSave)
  /\ phase \in {"open", "asked", "flushing", "answered", "closed"}
  /\ deleted \subseteq Chat /\ unsaved \subseteq Chat
  /\ edits \in 0..MaxEdits /\ fails \in 0..MaxFails /\ runs \in 1..MaxRuns

StoreInit ==
  /\ screen = AllGone /\ ref = AllGone
  /\ waits = FALSE /\ upcoming = AllGone /\ saves = AllGone /\ early = {} /\ pending = AllGone
  /\ written = AllGone /\ wire = <<>> /\ replies = <<>> /\ db = AllGone
  /\ phase = "open" /\ owed = AllGone
  /\ deleted = {} /\ unsaved = {}
  /\ edits = 0 /\ fails = 0 /\ runs = 1

-----------------------------------------------------------------------------
(* The window.                                                             *)

\* updateSession with an edit, or with the messages of a turn, which go on from `base'
Edit(e) == [op |-> "edit", edit |-> e, base |-> Gone]
Laid(e, base) == [op |-> "lay", edit |-> e, base |-> base]

Result(u, old) ==
  IF old = Gone THEN Gone ELSE IF u.op = "edit" THEN old \cup {u.edit} ELSE u.base \cup {u.edit}

\* addSession
Added(old) == IF old = Gone THEN {0} ELSE old

\* Faulty variant: the update changes the conversation and queues no save.
LaterUnsaved(c, u, old) ==
  /\ waits' = TRUE /\ upcoming' = [upcoming EXCEPT ![c] = Result(u, old)]
  /\ UNCHANGED <<saves, early, pending>>

\* setSessions with an updater that waits for the render, finds `old' then, and queues
\* the save of what it makes of it; a conversation that is not there is not queued
Later(c, u, old) ==
  /\ waits' = TRUE /\ upcoming' = [upcoming EXCEPT ![c] = Result(u, old)]
  /\ saves' = IF old = Gone THEN saves ELSE [saves EXCEPT ![c] = Result(u, old)]
  /\ UNCHANGED <<early, pending>>

\* React runs an update at once when nothing waits
AtOnce(c, u) ==
  /\ ~waits /\ screen[c] # Gone
  /\ waits' = TRUE /\ upcoming' = [upcoming EXCEPT ![c] = Result(u, screen[c])]
  /\ pending' = [pending EXCEPT ![c] = Result(u, screen[c])]
  /\ early' = {c} /\ UNCHANGED saves

Set(c, u) == Later(c, u, upcoming[c]) \/ AtOnce(c, u)

\* What the updates came to is the state, and what they queue replaces what is queued.
Render ==
  /\ waits /\ waits' = FALSE
  /\ screen' = upcoming
  /\ pending' = [c \in Chat |-> IF saves[c] # Gone THEN saves[c] ELSE pending[c]]
  /\ saves' = AllGone /\ early' = {}
  /\ UNCHANGED <<ref, upcoming, written, wire, replies, db, quit, deleted, unsaved, counts>>

Effect ==
  /\ ref # screen /\ ref' = screen
  /\ UNCHANGED <<screen, given, pending, written, wire, replies, db, quit, deleted, unsaved, counts>>

Alive == phase # "closed"
Edits == Alive /\ edits < MaxEdits /\ edits' = edits + 1
OnlyUpdates == UNCHANGED <<screen, ref, written, wire, replies, db, quit, deleted, unsaved, fails, runs>>

\* updateSession, patchActiveMessage
Change(c) == Edits /\ Set(c, Edit(edits')) /\ OnlyUpdates

\* Faulty variant: a turn starts with a message of its own.
LayAlone(c) ==
  /\ Edits /\ c \notin deleted /\ ~waits /\ ref = screen
  /\ Later(c, Laid(edits', {0}), Added(upcoming[c]))
  /\ OnlyUpdates

\* deliver and scaffold: a turn's messages are those of getSession and the new
\* ones, and replace whatever the conversation holds when the updater runs
Lay(c) ==
  /\ Edits /\ c \notin deleted
  /\ (SameTick /\ ref[c] # Gone) \/ (~waits /\ ref = screen)
  /\ IF ref[c] = Gone THEN Later(c, Laid(edits', {0}), Added(upcoming[c]))
                      ELSE Set(c, Laid(edits', ref[c]))
  /\ OnlyUpdates

Save(c, content) == [op |-> "save", chats |-> {c}, content |-> content, awaited |-> FALSE]
Deletion(cs) == [op |-> "delete", chats |-> cs, content |-> Gone, awaited |-> FALSE]

\* handleDeleteChat: stop changes the conversation, more than once when a turn
\* runs, then deleteSession cancels the save; the update of stop runs before the
\* removal, and queues a save again if it waits for the render
Delete(c) ==
  /\ Edits /\ ref[c] # Gone
  /\ \/ /\ ~waits /\ early' = {c} /\ UNCHANGED saves
     \/ /\ saves' = IF upcoming[c] = Gone THEN saves
                    ELSE [saves EXCEPT ![c] = Result(Edit(edits'), upcoming[c])]
        /\ UNCHANGED early
  /\ waits' = TRUE /\ upcoming' = [upcoming EXCEPT ![c] = Gone]
  /\ pending' = [pending EXCEPT ![c] = Gone] /\ written' = [written EXCEPT ![c] = Gone]
  /\ wire' = Append(wire, Deletion({c})) /\ deleted' = deleted \cup {c}
  /\ UNCHANGED <<screen, ref, replies, db, quit, unsaved, fails, runs>>

\* clearSessions
Clear ==
  LET shown == {c \in Chat : ref[c] # Gone}
  IN /\ Edits /\ shown # {}
     /\ pending' = [c \in Chat |-> IF c \in shown THEN Gone ELSE pending[c]]
     /\ written' = [c \in Chat |-> IF c \in shown THEN Gone ELSE written[c]]
     /\ waits' = TRUE /\ upcoming' = AllGone
     /\ wire' = Append(wire, Deletion(Chat)) /\ deleted' = Chat
     /\ UNCHANGED <<screen, ref, saves, early, replies, db, quit, unsaved, fails, runs>>

\* The timer of queueSessionSave.  700 ms are enough for the conversation it saves
\* to be rendered and to reach the ref.
Fires(c) ==
  /\ Alive /\ pending[c] # Gone
  /\ ref[c] = screen[c] /\ c \notin early
  /\ pending' = [pending EXCEPT ![c] = Gone] /\ wire' = Append(wire, Save(c, pending[c]))
  /\ UNCHANGED <<screen, ref, given, written, replies, db, quit, deleted, unsaved, counts>>

\* writeSession's answer
Reply ==
  /\ Alive /\ replies # <<>>
  /\ LET r == Head(replies)
     IN /\ written' = IF r.ok THEN [written EXCEPT ![r.chat] = r.content] ELSE written
        /\ unsaved' = IF r.ok THEN unsaved \ {r.chat} ELSE unsaved \cup {r.chat}
  /\ replies' = Tail(replies)
  /\ UNCHANGED <<window, wire, db, quit, deleted, counts>>

-----------------------------------------------------------------------------
(* The main process.                                                       *)

\* The answer to a save, which the window awaits if it awaits the save
Answer(msg, c, ok) == [chat |-> c, content |-> msg.content, ok |-> ok, awaited |-> msg.awaited]

\* Faulty variant: saves are handled in any order, the last one first.
HandleLast ==
  /\ Alive /\ wire # <<>> /\ wire' = Front(wire) /\ Last(wire).op = "save"
  /\ \E c \in Last(wire).chats :
       /\ db' = [db EXCEPT ![c] = Last(wire).content]
       /\ replies' = Append(replies, Answer(Last(wire), c, TRUE))
  /\ UNCHANGED <<window, written, quit, deleted, unsaved, counts>>

\* db:save-chat, db:delete-chat and db:clear-chats, each in one go
Handle ==
  /\ Alive /\ wire # <<>> /\ wire' = Tail(wire)
  /\ LET msg == Head(wire)
     IN \/ /\ msg.op = "save"
           /\ \E c \in msg.chats, ok \in BOOLEAN :
                /\ ok \/ fails < MaxFails
                /\ db' = IF ok THEN [db EXCEPT ![c] = msg.content] ELSE db
                /\ fails' = IF ok THEN fails ELSE fails + 1
                /\ replies' = Append(replies, Answer(msg, c, ok))
           /\ UNCHANGED phase
        \/ /\ msg.op = "delete"
           /\ db' = [c \in Chat |-> IF c \in msg.chats THEN Gone ELSE db[c]]
           /\ UNCHANGED <<replies, phase, fails>>
        \/ /\ msg.op = "flushed" /\ phase' = "answered"
           /\ UNCHANGED <<db, replies, fails>>
  /\ UNCHANGED <<window, written, owed, deleted, unsaved, edits, runs>>

\* before-quit
Quit ==
  /\ phase = "open" /\ phase' = "asked"
  /\ UNCHANGED <<window, written, wire, replies, db, owed, deleted, unsaved, counts>>

SavesOf(c) == {i \in DOMAIN wire : wire[i].op = "save" /\ c \in wire[i].chats}
AnswersOf(c) == {i \in DOMAIN replies : replies[i].chat = c}

\* Is the last save of c that has no answer yet one of this version?
InFlight(c, version) ==
  IF SavesOf(c) # {}
  THEN \E i \in SavesOf(c) : wire[i].content = version /\ \A j \in SavesOf(c) : j <= i
  ELSE \E i \in AnswersOf(c) : replies[i].content = version /\ \A j \in AnswersOf(c) : j <= i

\* Faulty variant: only what is queued is due.
DueQueued(c) == pending[c]

\* flushSessionSaves: a queued save wins over the conversation in the ref
Due(c) ==
  IF pending[c] # Gone THEN pending[c]
  ELSE IF ref[c] = written[c] \/ InFlight(c, ref[c]) THEN Gone ELSE ref[c]

\* The saves of what is due go out, and all that have no answer yet are awaited.
Flush ==
  LET due == {c \in Chat : Due(c) # Gone}
      sent == wire \o SetToSeq({Save(c, Due(c)) : c \in due})
  IN /\ phase = "asked" /\ phase' = "flushing"
     /\ wire' = [i \in DOMAIN sent |-> [sent[i] EXCEPT !.awaited = (sent[i].op = "save")]]
     /\ replies' = [i \in DOMAIN replies |-> [replies[i] EXCEPT !.awaited = TRUE]]
     /\ pending' = AllGone
     /\ owed' = [c \in Chat |-> IF pending[c] # Gone THEN pending[c] ELSE ref[c]]
     /\ unsaved' = {}
     /\ UNCHANGED <<screen, ref, given, written, db, deleted, counts>>

\* the preload's answer
Flushed ==
  /\ phase = "flushing"
  /\ \A i \in DOMAIN wire : ~wire[i].awaited /\ wire[i].op # "flushed"
  /\ \A i \in DOMAIN replies : ~replies[i].awaited
  /\ wire' = Append(wire, [op |-> "flushed", chats |-> {}, content |-> Gone, awaited |-> FALSE])
  /\ UNCHANGED <<window, written, replies, db, quit, deleted, unsaved, counts>>

\* shutdown, after the answer or three seconds; `owed' is kept for what was answered
Shutdown ==
  /\ phase \in {"asked", "flushing", "answered"} /\ phase' = "closed"
  /\ owed' = IF phase = "answered" THEN owed ELSE AllGone
  /\ UNCHANGED <<window, written, wire, replies, db, deleted, unsaved, counts>>

\* a start after a quit, or after the application was killed at any point
Restart ==
  /\ runs < MaxRuns /\ runs' = runs + 1
  /\ screen' = db /\ ref' = db /\ upcoming' = db /\ written' = db
  /\ waits' = FALSE /\ saves' = AllGone /\ early' = {} /\ pending' = AllGone
  /\ wire' = <<>> /\ replies' = <<>>
  /\ phase' = "open" /\ owed' = AllGone
  /\ deleted' = deleted \ {c \in Chat : db[c] # Gone} /\ unsaved' = {}
  /\ UNCHANGED <<db, edits, fails>>

StoreNext ==
  \/ Render \/ Effect \/ Clear \/ Reply \/ Handle \/ Quit \/ Flush \/ Flushed \/ Shutdown \/ Restart
  \/ \E c \in Chat : Change(c) \/ Lay(c) \/ Delete(c) \/ Fires(c)

\* React renders and runs effects, timers fire, IPC is served.
StoreFairness ==
  /\ WF_storeVars(Render) /\ WF_storeVars(Effect) /\ WF_storeVars(Handle) /\ WF_storeVars(Reply)
  /\ \A c \in Chat : WF_storeVars(Fires(c))

StoreSpec == StoreInit /\ [][StoreNext]_storeVars
StoreFairSpec == StoreSpec /\ StoreFairness

-----------------------------------------------------------------------------
(* Properties.                                                             *)

Quiet == ~waits /\ wire = <<>> /\ replies = <<>> /\ pending = AllGone

\* A save never takes the database back to an older version of a conversation.
DiskOnlyForward == [][\A c \in Chat : db[c] \subseteq db'[c] \/ db'[c] = Gone]_storeVars

\* A quit whose window answered has on disk everything the window had when it was
\* asked, queued or only in the ref because an earlier save of it failed.
QuitKeeps ==
  phase = "closed" => \A c \in Chat \ (deleted \cup unsaved) : owed[c] \subseteq db[c]

\* What is on screen is on disk in the end, unless the application goes first.
DiskCatchesUp ==
  \A c \in Chat : db[c] # screen[c] ~> (db[c] = screen[c] \/ c \in deleted \cup unsaved \/ ~Alive)

\* No change to a conversation disappears from it: a turn that is laid out contains
\* everything written before it.
NothingOverwritten ==
  [][runs' = runs => \A c \in Chat : screen[c] \subseteq screen'[c] \/ screen'[c] = Gone]_storeVars

\* "A save still queued would write a removed session back": it is cancelled, so a
\* chat that was deleted is not on disk again.
DeletedStaysGone ==
  Quiet /\ phase = "open" => \A c \in deleted : db[c] = Gone
=============================================================================
