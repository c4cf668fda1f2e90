------------------------- MODULE VoiceConversation -------------------------
(***************************************************************************)
(* A spoken conversation: win/src/voice/conversation.ts with its gate      *)
(* (gate.ts), its speaker (speaker.ts), a voice (neuralVoice.ts, or        *)
(* cloudVoice.ts until it fails) and the answer's passes (reply.ts).       *)
(*                                                                         *)
(* The microphone's frames, the transcriptions, the model's text, the      *)
(* voice's worker and the audio that ends all come in any order.  What the *)
(* user says in one go is a burst of so many words, an answer has the      *)
(* number of the burst that asked for it, and its text comes in pieces:    *)
(* <<a, i>> is the i-th of answer a, and <<a, 0>> says that it is looked   *)
(* up.  A fragment is the set of pieces that are said in one go.           *)
(***************************************************************************)
EXTENDS Integers, Sequences, FiniteSets

CONSTANTS
  MaxBursts,  \* sounds the user makes (a bound)
  MaxWords,   \* words of a burst (a bound)
  MaxPieces,  \* pieces of an answer (a bound)
  MaxEvents,  \* these, mute, unmute, skip, and a failure of the cloud voice (a bound)
  Voice       \* voices it may open with: "local", "cloud"

ASSUME ConstantsAssumption ==
  /\ MaxBursts \in Nat /\ MaxWords \in Nat /\ MaxPieces \in Nat /\ MaxEvents \in Nat
  /\ Voice \subseteq {"local", "cloud"}

Burst == 1..MaxBursts
Piece == Burst \X (0..MaxPieces)
Fragment == SUBSET Piece
\* what a speculative pass has heard: a burst up to its n-th word
Heard == Burst \X (1..MaxWords)
Nothing == <<0, 0>>

VARIABLES
  gate,         \* the burst that is under way, and what the gate counts of it
  bursts,       \* bursts so far
  listening,    \* the event that last changed `listening'
  guess,        \* what `guess' has heard
  takes,        \* takes[b]: where takeTurn stands with burst b
  talk,         \* the answer in progress, the answers, and the turns that were filed
  speaker,      \* the speaker with its voice
  drop,         \* dropToLocal, and what the cloud voice left unsaid
  stage,        \* live, muted or closed
  events,       \* of MaxEvents
  aired,        \* pieces whose audio was scheduled (an observer)
  unread        \* did a failed reading leave the speaker suspended (an observer)

micVars == <<gate, bursts, guess>>
vars == <<micVars, listening, takes, talk, speaker, drop, stage, events, aired, unread>>

NoBurst == [burst |-> 0, words |-> 0, barged |-> FALSE]
Silent == [suspended |-> FALSE, held |-> <<>>, chunk |-> {},
           kind |-> "local", pending |-> <<>>, awaited |-> <<>>, inFlight |-> FALSE,
           stale |-> 0, sounding |-> FALSE, playing |-> <<>>, failed |-> FALSE]
Entry == [role : {"user", "assistant"}, of : Burst, cut : BOOLEAN]

TypeOK ==
  /\ gate \in [burst : 0..MaxBursts, words : 0..MaxWords, barged : BOOLEAN]
  /\ bursts \in 0..MaxBursts
  /\ listening \in {"nothing", "start", "turn", "stop"} \X (0..MaxBursts)
  /\ guess \in Heard \cup {Nothing}
  /\ takes \in [Burst -> {"none", "guess", "read", "over"}]
  /\ talk \in [answer : 0..MaxBursts, filed : Seq(Entry),
               answers : [Burst -> [at : {"none", "first", "search", "stream", "over", "failed",
                                          "aborted"},
                                    wrote : 0..MaxPieces]]]
  /\ speaker \in [suspended : BOOLEAN, held : Seq(Fragment), chunk : Fragment,
                  kind : {"local", "cloud"}, pending : Seq(Fragment), awaited : Seq(Fragment),
                  inFlight : BOOLEAN, stale : Nat, sounding : BOOLEAN,
                  playing : Seq(Fragment), failed : BOOLEAN]
  /\ drop \in [at : {"none", "making", "over"}, remaining : Seq(Fragment)]
  /\ stage \in {"live", "muted", "closed"}
  /\ events \in 0..MaxEvents
  /\ aired \subseteq Piece /\ unread \in BOOLEAN

Init ==
  /\ gate = NoBurst /\ bursts = 0 /\ listening = <<"nothing", 0>>
  /\ guess = Nothing
  /\ takes = [b \in Burst |-> "none"]
  /\ talk = [answer |-> 0, filed |-> <<>>,
             answers |-> [b \in Burst |-> [at |-> "none", wrote |-> 0]]]
  /\ \E v \in Voice : speaker = [Silent EXCEPT !.kind = v]
  /\ drop = [at |-> "none", remaining |-> <<>>]
  /\ stage = "live" /\ events = 0 /\ aired = {} /\ unread = FALSE

-----------------------------------------------------------------------------
(* The voice.  `awaited' is the fragment its worker (or the service) was    *)
(* given last and has not answered (awaitingId), `stale' counts the others *)
(* it works on: a worker goes on with what was cancelled.                  *)

\* `speaking', of the voice as of the conversation
Speaking(s) == s.inFlight \/ s.pending # <<>> \/ s.playing # <<>>

pump(s) ==
  IF s.inFlight \/ s.failed \/ s.pending = <<>> THEN s
  ELSE [s EXCEPT !.inFlight = TRUE, !.sounding = FALSE, !.stale = @ + Len(s.awaited),
                 !.awaited = <<Head(s.pending)>>, !.pending = Tail(@)]

\* enqueue, of one fragment after the other: the first is taken, if none is in the works
enqueue(s, fragments) ==
  IF s.failed \/ fragments = <<>> THEN s ELSE pump([s EXCEPT !.pending = @ \o fragments])

\* the voice's cancel
Hush(s) ==
  [s EXCEPT !.pending = <<>>, !.inFlight = FALSE, !.playing = <<>>, !.awaited = <<>>,
            !.stale = IF s.kind = "local" THEN @ + Len(s.awaited) ELSE @]

-----------------------------------------------------------------------------
(* The speaker.                                                            *)

emit(s, f) == IF s.suspended THEN [s EXCEPT !.held = Append(@, f)] ELSE enqueue(s, <<f>>)

\* push: the chunker keeps a piece until a fragment ends with it
push(s, p, ends) ==
  IF ends THEN emit([s EXCEPT !.chunk = {}], s.chunk \cup {p})
  ELSE [s EXCEPT !.chunk = @ \cup {p}]

flush(s) == IF s.chunk = {} THEN s ELSE emit([s EXCEPT !.chunk = {}], s.chunk)
say(s, f) == emit(s, f)

\* Faulty variant: what sounds and what waits is kept, so that resume starts over with it.
suspendKeepsAll(s) ==
  Hush([s EXCEPT !.suspended = TRUE, !.held = s.playing \o s.pending])
suspend(s) == Hush([s EXCEPT !.suspended = TRUE, !.held = <<>>])
resume(s) ==
  IF s.suspended THEN enqueue([s EXCEPT !.suspended = FALSE, !.held = <<>>], s.held) ELSE s

\* Faulty variant: what was held back survives.
cancelKeepsHeld(s) == Hush([s EXCEPT !.suspended = FALSE, !.chunk = {}])
cancel(s) == Hush([s EXCEPT !.suspended = FALSE, !.held = <<>>, !.chunk = {}])
dispose(s) == [Silent EXCEPT !.kind = s.kind, !.failed = s.failed]

-----------------------------------------------------------------------------
(* The answers.                                                            *)

File(t, role, a, cut) ==
  [t EXCEPT !.filed = Append(@, [role |-> role, of |-> a, cut |-> cut])]

Over(how) == [at |-> how, wrote |-> 0]

\* Faulty variant: only what the user cut off by voice is filed.
abandonFilesCut(t, interrupted) ==
  LET a == t.answer
      gone == [t EXCEPT !.answer = 0, !.answers[a] = Over("aborted")]
  IN IF a = 0 THEN t
     ELSE IF interrupted /\ t.answers[a].wrote > 0
     THEN File(gone, "assistant", a, interrupted) ELSE gone

abandon(t, interrupted) ==
  LET a == t.answer
      gone == [t EXCEPT !.answer = 0, !.answers[a] = Over("aborted")]
  IN IF a = 0 THEN t
     ELSE IF t.answers[a].wrote > 0 THEN File(gone, "assistant", a, interrupted) ELSE gone

\* respond, up to its await
Asks(t, b) == File([t EXCEPT !.answer = b, !.answers[b].at = "first"], "user", b, FALSE)

Mine(a) == talk.answer = a
Writes(a) == talk.answers[a].at \in {"first", "stream"}
KeepsTalking == UNCHANGED <<micVars, listening, takes, drop, stage, events, aired, unread>>

\* onSpeech; what an aborted answer has still read is not said
Speech(a, ends) ==
  /\ Writes(a) \/ talk.answers[a].at = "aborted"
  /\ talk.answers[a].wrote < MaxPieces
  /\ IF Mine(a)
     THEN LET n == talk.answers[a].wrote + 1
          IN /\ talk' = [talk EXCEPT !.answers[a] = [at |-> "stream", wrote |-> n]]
             /\ speaker' = push(speaker, <<a, n>>, ends)
     ELSE UNCHANGED <<talk, speaker>>
  /\ KeepsTalking

\* onSearch, before anything was said
Search(a) ==
  /\ talk.answers[a].at = "first"
  /\ talk' = [talk EXCEPT !.answers[a].at = "search"]
  /\ speaker' = say(speaker, {<<a, 0>>})
  /\ KeepsTalking

\* the search is back, and the second pass begins
Searched(a) ==
  /\ talk.answers[a].at = "search"
  /\ talk' = [talk EXCEPT !.answers[a].at = "stream"]
  /\ KeepsTalking /\ UNCHANGED speaker

\* generateReply is back
Written(a) ==
  /\ Writes(a)
  /\ speaker' = flush(speaker)
  /\ LET done == [talk EXCEPT !.answer = 0, !.answers[a] = Over("over")]
     IN talk' = IF talk.answers[a].wrote > 0 THEN File(done, "assistant", a, FALSE) ELSE done
  /\ KeepsTalking

\* generateReply throws
Fails(a) ==
  /\ Writes(a)
  /\ talk' = [talk EXCEPT !.answer = 0, !.answers[a] = Over("failed")]
  /\ KeepsTalking /\ UNCHANGED speaker

-----------------------------------------------------------------------------
(* The gate and its events.                                                *)

Event == events < MaxEvents /\ events' = events + 1

Hears == stage = "live"
Now == gate.burst
KeepsQuiet == UNCHANGED <<talk, drop, stage, aired>>

\* onSpeechStart
SpeechStarts ==
  /\ Hears /\ Now = 0 /\ bursts < MaxBursts /\ Event
  /\ bursts' = bursts + 1
  /\ gate' = [NoBurst EXCEPT !.burst = bursts + 1]
  /\ listening' = <<"start", bursts + 1>>
  /\ unread' = FALSE
  /\ KeepsQuiet /\ UNCHANGED <<guess, takes, speaker>>

\* The user goes on
Word ==
  /\ Hears /\ Now # 0 /\ gate.words < MaxWords
  /\ gate' = [gate EXCEPT !.words = @ + 1]
  /\ KeepsQuiet /\ UNCHANGED <<events, bursts, guess, listening, takes, speaker, unread>>

\* onBargeIn, which takes longer than the shortest burst
BargesIn ==
  /\ Hears /\ gate.words > 0 /\ ~gate.barged /\ Speaking(speaker)
  /\ gate' = [gate EXCEPT !.barged = TRUE]
  /\ speaker' = suspend(speaker)
  /\ KeepsQuiet /\ UNCHANGED <<events, bursts, guess, listening, takes, unread>>

\* onSpeculate, at a pause, unless another transcription is under way (a live one, or
\* that of an earlier pause)
Pause ==
  /\ Hears /\ gate.words > 0
  /\ guess' = <<Now, gate.words>>
  /\ KeepsQuiet /\ UNCHANGED <<events, gate, bursts, listening, takes, speaker, unread>>

\* The turn is at most a second longer than what `guess' has heard: it is if there was
\* no word since, and may be otherwise.
Close(b, words) == IF guess = <<b, words>> THEN {TRUE} ELSE {guess # Nothing, FALSE}

\* onSpeechEnd: takeTurn, up to readTurn's await
SpeechEnds ==
  /\ Hears /\ gate.words > 0
  /\ listening' = <<"turn", Now>>
  /\ gate' = NoBurst /\ guess' = Nothing
  /\ \E close \in Close(Now, gate.words) :
       takes' = [takes EXCEPT ![Now] = IF close THEN "guess" ELSE "read"]
  /\ KeepsQuiet /\ UNCHANGED <<events, bursts, speaker, unread>>

\* Faulty variant: a burst that came to nothing resumes only what it suspended itself.
DiscardsOwn ==
  /\ Hears /\ Now # 0 /\ gate.words = 0
  /\ gate' = NoBurst
  /\ speaker' = IF gate.barged THEN resume(speaker) ELSE speaker
  /\ KeepsQuiet /\ UNCHANGED <<events, bursts, guess, listening, takes, unread>>

\* onDiscard
Discards ==
  /\ Hears /\ Now # 0 /\ gate.words = 0
  /\ gate' = NoBurst
  /\ speaker' = resume(speaker)
  /\ KeepsQuiet /\ UNCHANGED <<events, bursts, guess, listening, takes, unread>>

-----------------------------------------------------------------------------
(* takeTurn, after the reading.                                            *)

Current(b) == listening = <<"turn", b>>
Ended(b) == takes' = [takes EXCEPT ![b] = "over"]
KeepsGate == UNCHANGED <<gate, bursts, listening, drop, stage, events, aired>>

\* The text is there: nothing to answer, or a question
Understood(b) ==
  /\ Ended(b) /\ UNCHANGED unread
  /\ IF ~Current(b) THEN UNCHANGED <<talk, speaker>>
     ELSE \/ speaker' = resume(speaker) /\ UNCHANGED talk
          \/ speaker' = cancel(speaker) /\ talk' = Asks(abandon(talk, TRUE), b)

\* The reading failed
Unreadable(b) ==
  /\ Ended(b) /\ UNCHANGED <<talk, speaker>>
  /\ unread' = IF Current(b) THEN speaker.suspended ELSE unread

ReadBack(b) ==
  /\ takes[b] = "read" /\ KeepsGate /\ UNCHANGED guess
  /\ Understood(b) \/ Unreadable(b)

\* the speculative pass is back, or has failed, and the turn is read again
GuessBack(b) ==
  /\ takes[b] = "guess" /\ KeepsGate
  /\ \/ Understood(b) /\ UNCHANGED guess
     \/ /\ takes' = [takes EXCEPT ![b] = "read"]
        /\ guess' = Nothing
        /\ UNCHANGED <<talk, speaker, unread>>

-----------------------------------------------------------------------------
(* The voice's worker, the service and the audio (external).               *)

KeepsSpeaking == UNCHANGED <<micVars, listening, takes, talk, stage, unread>>

\* The worker answers a job, with audio or an error.  Its jobs overlap, so that any may be
\* the first; audio that is not of the awaited one is dropped.
Generated ==
  /\ speaker.kind = "local" /\ KeepsSpeaking /\ UNCHANGED <<events, drop>>
  /\ \/ /\ speaker.awaited # <<>>
        /\ LET f == Head(speaker.awaited)
               next == [speaker EXCEPT !.awaited = <<>>, !.inFlight = FALSE]
           IN \/ /\ speaker' = pump([next EXCEPT !.playing = Append(@, f)])
                 /\ aired' = aired \cup f
              \/ speaker' = pump(next) /\ UNCHANGED aired
     \/ /\ speaker.stale > 0 /\ UNCHANGED aired
        /\ speaker' = pump([speaker EXCEPT !.stale = @ - 1, !.inFlight = FALSE])

\* The service sends audio, and the end of it
Frames ==
  /\ speaker.kind = "cloud" /\ speaker.inFlight /\ ~speaker.sounding
  /\ KeepsSpeaking /\ UNCHANGED <<events, drop>>
  /\ LET f == Head(speaker.awaited)
     IN /\ speaker' = [speaker EXCEPT !.sounding = TRUE, !.playing = Append(@, f)]
        /\ aired' = aired \cup f
Spoken ==
  /\ speaker.kind = "cloud" /\ speaker.inFlight /\ speaker.sounding
  /\ speaker' = pump([speaker EXCEPT !.awaited = <<>>, !.inFlight = FALSE])
  /\ KeepsSpeaking /\ UNCHANGED <<events, drop, aired>>

AudioEnds ==
  /\ speaker.playing # <<>> /\ KeepsSpeaking /\ UNCHANGED <<events, drop, aired>>
  /\ speaker' = [speaker EXCEPT !.playing = Tail(@)]

\* fail, for a stall or an error, and dropToLocal up to its await
Stalls ==
  /\ speaker.kind = "cloud" /\ speaker.inFlight /\ Event
  /\ drop' = [at |-> "making", remaining |-> speaker.awaited \o speaker.pending]
  /\ speaker' = [speaker EXCEPT !.pending = <<>>, !.awaited = <<>>, !.inFlight = FALSE,
                                !.failed = TRUE]
  /\ KeepsSpeaking /\ UNCHANGED aired

\* The local voice is there, or there is none
LocalMade ==
  /\ drop.at = "making" /\ drop' = [drop EXCEPT !.at = "over"]
  /\ \/ stage # "closed" /\ speaker' = enqueue(Silent, drop.remaining)
     \/ UNCHANGED speaker
  /\ KeepsSpeaking /\ UNCHANGED <<events, aired>>

-----------------------------------------------------------------------------
(* The controls.                                                           *)

KeepsReading == UNCHANGED <<bursts, guess, listening, takes, drop, aired, unread>>

\* setMuted
setMuted(muted) ==
  /\ Event /\ stage = (IF muted THEN "live" ELSE "muted")
  /\ stage' = (IF muted THEN "muted" ELSE "live")
  /\ gate' = NoBurst
  /\ IF muted THEN speaker' = cancel(speaker) /\ talk' = abandon(talk, FALSE)
     ELSE UNCHANGED <<speaker, talk>>
  /\ KeepsReading

skip ==
  /\ Event /\ stage # "closed"
  /\ speaker' = cancel(speaker) /\ talk' = abandon(talk, FALSE)
  /\ KeepsReading /\ UNCHANGED <<gate, stage>>

stop ==
  /\ stage # "closed" /\ stage' = "closed"
  /\ listening' = <<"stop", 0>>
  /\ talk' = abandon(talk, FALSE) /\ speaker' = dispose(speaker)
  /\ UNCHANGED <<gate, bursts, guess, takes, drop, events, aired, unread>>

Next ==
  \/ \E a \in Burst :
       \/ \E ends \in BOOLEAN : Speech(a, ends)
       \/ Search(a) \/ Searched(a) \/ Written(a) \/ Fails(a)
       \/ ReadBack(a) \/ GuessBack(a)
  \/ SpeechStarts \/ Word \/ BargesIn \/ Pause \/ SpeechEnds \/ Discards
  \/ Generated \/ Frames \/ Spoken \/ AudioEnds \/ Stalls \/ LocalMade
  \/ \E muted \in BOOLEAN : setMuted(muted)
  \/ skip \/ stop

\* Frames keep coming, so a burst ends, at the latest after MAX_SPEECH_MS; and
\* transcriptions come back.
Fairness ==
  /\ WF_vars(SpeechEnds \/ Discards)
  /\ \A b \in Burst : WF_vars(ReadBack(b) \/ GuessBack(b))

Spec == Init /\ [][Next]_vars /\ Fairness

-----------------------------------------------------------------------------
(* Properties.                                                             *)

\* What is still to be said, in its order
Unsaid ==
  LET s == speaker
  IN (IF s.sounding THEN <<>> ELSE s.awaited)
     \o s.pending \o s.held \o (IF s.chunk = {} THEN <<>> ELSE <<s.chunk>>)

Pieces(seq) == UNION {seq[i] : i \in DOMAIN seq}
\* what a cloud voice that failed left to the local one, and the announced search
Handed == IF drop.at = "over" THEN Pieces(drop.remaining) ELSE {}
Aside == {p \in Piece : p[2] = 0}
Before(p, q) == p[1] < q[1] \/ (p[1] = q[1] /\ p[2] < q[2])

\* What an answer that was cut off, by voice or by hand, had to say is not heard any
\* more, whatever of it was held back, in the worker or still being written; after stop
\* nothing is.  (What a cloud voice handed over is, section 5 of the README.)
NothingOfCut ==
  LET coming == Pieces(Unsaid) \cup Pieces(speaker.playing)
  IN /\ stage = "closed" => coming = {}
     /\ \A p \in coming \ Handed :
          /\ talk.answers[p[1]].at # "aborted"
          /\ \A a \in Burst : talk.answers[a].at # "none" => a <= p[1]

\* "resuming carries on from the text written since, with no repetition": what comes
\* is in the order of the text and after all that was heard.
NoRepetition ==
  LET said == Pieces(Unsaid) \ (Handed \cup Aside)
  IN /\ \A p \in said, q \in aired \ (Handed \cup Aside) : Before(q, p)
     /\ \A i, j \in DOMAIN Unsaid : i < j =>
          \A p \in Unsaid[i] \cap said, q \in Unsaid[j] \cap said : Before(p, q)

\* The model sees what the user heard: every answer that is over and was heard is in the
\* history, once, right after its question.  (One that failed is not.)
HistoryTrue ==
  LET f == talk.filed
      Answers(a) == {i \in DOMAIN f : f[i].role = "assistant" /\ f[i].of = a}
  IN /\ \A p \in aired \ Aside :
          p[1] # talk.answer /\ talk.answers[p[1]].at # "failed" => Answers(p[1]) # {}
     /\ \A a \in Burst : Cardinality(Answers(a)) <= 1
     /\ \A i \in DOMAIN f : f[i].role = "assistant" =>
          i > 1 /\ f[i - 1] = [role |-> "user", of |-> f[i].of, cut |-> FALSE]

\* A speaker that was interrupted speaks again, or is cancelled: no burst, turn or guess
\* leaves it waiting for a decision that nobody makes, but for a reading that failed.
SuspensionEnds == speaker.suspended ~> (~speaker.suspended \/ unread)

\* "The tail of a turn is silence, so a speculative pass that already covered every
\* voiced sample gives the same answer": a turn is read from what was said in it.
OwnWords ==
  [][\A b \in Burst : takes[b] = "none" /\ takes'[b] = "guess" => guess[1] = b]_vars

\* "Fragments are spoken in the order they arrive": the voice knows that a fragment is made
\* until it is, and has no other one made meanwhile, which would have its audio dropped.
OneAwaited == speaker.awaited # <<>> => speaker.inFlight
=============================================================================
