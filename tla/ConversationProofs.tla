------------------------- MODULE ConversationProofs -------------------------
(***************************************************************************)
(* A conversation keeps what was said in it.  First its versions, from the *)
(* screen to the disk (SessionStore): none is older than one before it,    *)
(* and a quit owes nothing.  Then a spoken one (VoiceConversation): what   *)
(* was cut off is not heard, nothing is heard twice, and the history has   *)
(* what was heard.                                                         *)
(***************************************************************************)
EXTENDS SessionStore, VoiceConversation, FiniteSetTheorems, SequenceTheorems, TLAPS

-----------------------------------------------------------------------------
(* The order of the saves of a conversation.                               *)

\* What a message does to c
Stores(m, c) == m.op = "save" /\ c \in m.chats
Erases(m, c) == m.op = "delete" /\ c \in m.chats

\* v is as new as the database, with d of c, and the saves of c on the wire w, but for
\* what a deletion is still to take away.
Covers(v, c, w, d) ==
  /\ d \subseteq v \/ \E k \in DOMAIN w : Erases(w[k], c)
  /\ \A i \in DOMAIN w :
       Stores(w[i], c) => w[i].content \subseteq v \/ \E k \in DOMAIN w : i < k /\ Erases(w[k], c)

\* The saves of c reach the database d in the order of their age.
Rising(c, w, d) ==
  /\ \A j \in DOMAIN w :
       Stores(w[j], c) => d \subseteq w[j].content \/ \E k \in DOMAIN w : k < j /\ Erases(w[k], c)
  /\ \A i, j \in DOMAIN w :
       i < j /\ Stores(w[i], c) /\ Stores(w[j], c) =>
         w[i].content \subseteq w[j].content \/ \E k \in DOMAIN w : i < k /\ k < j /\ Erases(w[k], c)

\* w2 begins with the messages of w, awaited or not.
Continues(w, w2) ==
  /\ Len(w) <= Len(w2)
  /\ \A i \in DOMAIN w :
       w2[i].op = w[i].op /\ w2[i].chats = w[i].chats /\ w2[i].content = w[i].content

\* What covers the others still does when it has more, when saves of what it has are
\* added, when a deletion is, and when the first message is handled.
LEMMA CoversMore ==
  ASSUME NEW u, NEW v, u \subseteq v, NEW c, NEW w, NEW d, Covers(u, c, w, d)
  PROVE  Covers(v, c, w, d)
BY DEF Covers

LEMMA CoversLonger ==
  ASSUME NEW w \in Seq(Message), NEW w2 \in Seq(Message), Continues(w, w2),
         NEW v, NEW c, NEW d, Covers(v, c, w, d),
         \A i \in DOMAIN w2 \ DOMAIN w : Stores(w2[i], c) => w2[i].content \subseteq v
  PROVE  Covers(v, c, w2, d)
<1>1. DOMAIN w = 1..Len(w) /\ DOMAIN w2 = 1..Len(w2) /\ DOMAIN w \subseteq DOMAIN w2
  BY DEF Continues
<1>2. \A k \in DOMAIN w : Erases(w[k], c) <=> Erases(w2[k], c)
  BY DEF Continues, Erases
<1>3. \A k \in DOMAIN w : /\ Stores(w[k], c) <=> Stores(w2[k], c)
                          /\ w2[k].content = w[k].content
  BY DEF Continues, Stores
<1> QED
  BY <1>1, <1>2, <1>3 DEF Covers

LEMMA CoversErased ==
  ASSUME NEW w \in Seq(Message), NEW m \in Message, NEW c, Erases(m, c), NEW v, NEW d
  PROVE  Covers(v, c, Append(w, m), d)
<1> DEFINE n == Len(w) + 1
<1>1. DOMAIN Append(w, m) = 1..n /\ Append(w, m)[n] = m
  OBVIOUS
<1>2. n \in 1..n /\ ~Stores(m, c) /\ \A i \in 1..n : i < n \/ i = n
  BY DEF Stores, Erases
<1> HIDE DEF n
<1> QED
  BY <1>1, <1>2 DEF Covers

\* What the database has of c after the first message.
Stored(m, c, d, d2) ==
  /\ d2 = d \/ d2 = {} \/ (Stores(m, c) /\ d2 = m.content)
  /\ Erases(m, c) => d2 = {}

LEMMA CoversHandled ==
  ASSUME NEW w \in Seq(Message), w # <<>>, NEW v, NEW c, NEW d, Covers(v, c, w, d),
         NEW d2, Stored(w[1], c, d, d2)
  PROVE  Covers(v, c, Tail(w), d2)
<1>1. DOMAIN w = 1..Len(w) /\ DOMAIN Tail(w) = 1..(Len(w) - 1) /\ Len(w) \in Nat /\ 1 \in DOMAIN w
  OBVIOUS
<1>2. \A i \in DOMAIN Tail(w) : Tail(w)[i] = w[i + 1] /\ i + 1 \in DOMAIN w
  OBVIOUS
<1>3. \A k \in DOMAIN w : k > 1 => k - 1 \in DOMAIN Tail(w) /\ Tail(w)[k - 1] = w[k]
  BY <1>1, <1>2
<1>4. d2 \subseteq v \/ \E k \in DOMAIN Tail(w) : Erases(Tail(w)[k], c)
  <2>1. CASE d2 = {}
    BY <2>1
  <2>2. CASE d2 = d /\ ~Erases(w[1], c)
    <3>1. ASSUME NEW k \in DOMAIN w, Erases(w[k], c)
          PROVE  k - 1 \in DOMAIN Tail(w) /\ Erases(Tail(w)[k - 1], c)
      BY <2>2, <3>1, <1>1, <1>3
    <3> QED
      BY <2>2, <3>1 DEF Covers
  <2>3. CASE Stores(w[1], c) /\ d2 = w[1].content
    <3>1. ASSUME NEW k \in DOMAIN w, k > 1, Erases(w[k], c)
          PROVE  k - 1 \in DOMAIN Tail(w) /\ Erases(Tail(w)[k - 1], c)
      BY <3>1, <1>3
    <3> QED
      BY <2>3, <3>1, <1>1 DEF Covers
  <2> QED
    BY <2>1, <2>2, <2>3 DEF Stored
<1>5. ASSUME NEW i \in DOMAIN Tail(w), Stores(Tail(w)[i], c)
      PROVE  \/ Tail(w)[i].content \subseteq v
             \/ \E k \in DOMAIN Tail(w) : i < k /\ Erases(Tail(w)[k], c)
  <2>1. Stores(w[i + 1], c) /\ Tail(w)[i].content = w[i + 1].content /\ i + 1 \in DOMAIN w
    BY <1>2, <1>5
  <2>2. CASE \E k \in DOMAIN w : i + 1 < k /\ Erases(w[k], c)
    <3>1. PICK k \in DOMAIN w : i + 1 < k /\ Erases(w[k], c)
      BY <2>2
    <3>2. k - 1 \in DOMAIN Tail(w) /\ i < k - 1 /\ Erases(Tail(w)[k - 1], c)
      BY <3>1, <1>1, <1>3
    <3> QED
      BY <3>2
  <2> QED
    BY <2>1, <2>2 DEF Covers
<1> QED
  BY <1>4, <1>5 DEF Covers

\* Saves stay in their order when newer ones are added, and when the first message is
\* handled.
LEMMA RisingLonger ==
  ASSUME NEW w \in Seq(Message), NEW w2 \in Seq(Message), Continues(w, w2),
         NEW c, NEW d, Rising(c, w, d), NEW u,
         \A i \in DOMAIN w2 \ DOMAIN w : Stores(w2[i], c) => w2[i].content = u /\ Covers(u, c, w, d)
  PROVE  Rising(c, w2, d)
<1>1. /\ DOMAIN w = 1..Len(w) /\ DOMAIN w2 = 1..Len(w2) /\ DOMAIN w \subseteq DOMAIN w2
      /\ Len(w) \in Nat /\ Len(w2) \in Nat
  BY DEF Continues
<1>2. \A k \in DOMAIN w : Erases(w[k], c) <=> Erases(w2[k], c)
  BY DEF Continues, Erases
<1>3. \A k \in DOMAIN w : /\ Stores(w[k], c) <=> Stores(w2[k], c)
                          /\ w2[k].content = w[k].content
  BY DEF Continues, Stores
<1>4. ASSUME NEW j \in DOMAIN w2, Stores(w2[j], c)
      PROVE  d \subseteq w2[j].content \/ \E k \in DOMAIN w2 : k < j /\ Erases(w2[k], c)
  <2>1. CASE j \in DOMAIN w
    BY <2>1, <1>4, <1>1, <1>2, <1>3 DEF Rising
  <2>2. CASE j \notin DOMAIN w
    <3>1. w2[j].content = u /\ Covers(u, c, w, d) /\ \A k \in DOMAIN w : k < j
      BY <2>2, <1>4, <1>1
    <3> QED
      BY <3>1, <1>1, <1>2 DEF Covers
  <2> QED
    BY <2>1, <2>2
<1>5. ASSUME NEW i \in DOMAIN w2, NEW j \in DOMAIN w2, i < j, Stores(w2[i], c), Stores(w2[j], c)
      PROVE  \/ w2[i].content \subseteq w2[j].content
             \/ \E k \in DOMAIN w2 : i < k /\ k < j /\ Erases(w2[k], c)
  <2>1. CASE j \in DOMAIN w
    <3>1. i \in DOMAIN w
      BY <2>1, <1>1, <1>5
    <3> QED
      BY <2>1, <3>1, <1>5, <1>1, <1>2, <1>3 DEF Rising
  <2>2. CASE j \notin DOMAIN w /\ i \in DOMAIN w
    <3>1. w2[j].content = u /\ Covers(u, c, w, d) /\ \A k \in DOMAIN w : k < j
      BY <2>2, <1>5, <1>1
    <3> QED
      BY <3>1, <2>2, <1>5, <1>1, <1>2, <1>3 DEF Covers
  <2>3. CASE j \notin DOMAIN w /\ i \notin DOMAIN w
    BY <2>3, <1>5
  <2> QED
    BY <2>1, <2>2, <2>3
<1> QED
  BY <1>4, <1>5 DEF Rising

LEMMA RisingHandled ==
  ASSUME NEW w \in Seq(Message), w # <<>>, NEW c, NEW d, Rising(c, w, d),
         NEW d2, Stored(w[1], c, d, d2)
  PROVE  Rising(c, Tail(w), d2)
<1>1. DOMAIN w = 1..Len(w) /\ DOMAIN Tail(w) = 1..(Len(w) - 1) /\ Len(w) \in Nat /\ 1 \in DOMAIN w
  OBVIOUS
<1>2. \A i \in DOMAIN Tail(w) : Tail(w)[i] = w[i + 1] /\ i + 1 \in DOMAIN w
  OBVIOUS
<1>3. \A k \in DOMAIN w : k > 1 => k - 1 \in DOMAIN Tail(w) /\ Tail(w)[k - 1] = w[k]
  BY <1>1, <1>2
<1>4. ASSUME NEW j \in DOMAIN Tail(w), Stores(Tail(w)[j], c)
      PROVE  \/ d2 \subseteq Tail(w)[j].content
             \/ \E k \in DOMAIN Tail(w) : k < j /\ Erases(Tail(w)[k], c)
  <2>1. Stores(w[j + 1], c) /\ Tail(w)[j].content = w[j + 1].content /\ j + 1 \in DOMAIN w
    BY <1>2, <1>4
  <2>2. CASE d2 = {}
    BY <2>2
  <2>3. CASE d2 = d /\ ~Erases(w[1], c)
    <3>1. d \subseteq w[j + 1].content \/ \E k \in DOMAIN w : k < j + 1 /\ Erases(w[k], c)
      BY <2>1 DEF Rising
    <3>2. ASSUME NEW k \in DOMAIN w, k < j + 1, Erases(w[k], c)
          PROVE  k - 1 \in DOMAIN Tail(w) /\ k - 1 < j /\ Erases(Tail(w)[k - 1], c)
      BY <3>2, <2>3, <1>1, <1>3
    <3> QED
      BY <3>1, <3>2, <2>1, <2>3
  <2>4. CASE Stores(w[1], c) /\ d2 = w[1].content
    <3>1. 1 < j + 1 /\ \/ d2 \subseteq w[j + 1].content
                       \/ \E k \in DOMAIN w : 1 < k /\ k < j + 1 /\ Erases(w[k], c)
      BY <2>1, <2>4, <1>1 DEF Rising
    <3>2. ASSUME NEW k \in DOMAIN w, 1 < k, k < j + 1, Erases(w[k], c)
          PROVE  k - 1 \in DOMAIN Tail(w) /\ k - 1 < j /\ Erases(Tail(w)[k - 1], c)
      BY <3>2, <1>1, <1>3
    <3> QED
      BY <3>1, <3>2, <2>1
  <2> QED
    BY <2>2, <2>3, <2>4 DEF Stored
<1>5. ASSUME NEW i \in DOMAIN Tail(w), NEW j \in DOMAIN Tail(w), i < j,
             Stores(Tail(w)[i], c), Stores(Tail(w)[j], c)
      PROVE  \/ Tail(w)[i].content \subseteq Tail(w)[j].content
             \/ \E k \in DOMAIN Tail(w) : i < k /\ k < j /\ Erases(Tail(w)[k], c)
  <2>1. /\ Stores(w[i + 1], c) /\ Tail(w)[i].content = w[i + 1].content /\ i + 1 \in DOMAIN w
        /\ Stores(w[j + 1], c) /\ Tail(w)[j].content = w[j + 1].content /\ j + 1 \in DOMAIN w
        /\ i + 1 < j + 1
    BY <1>1, <1>2, <1>5
  <2>2. \/ w[i + 1].content \subseteq w[j + 1].content
        \/ \E k \in DOMAIN w : i + 1 < k /\ k < j + 1 /\ Erases(w[k], c)
    BY <2>1 DEF Rising
  <2>3. ASSUME NEW k \in DOMAIN w, i + 1 < k, k < j + 1, Erases(w[k], c)
        PROVE  k - 1 \in DOMAIN Tail(w) /\ i < k - 1 /\ k - 1 < j /\ Erases(Tail(w)[k - 1], c)
    BY <2>3, <1>1, <1>3
  <2> QED
    BY <2>1, <2>2, <2>3
<1> QED
  BY <1>4, <1>5 DEF Rising

\* A finite set listed as a sequence has its elements, each at one place.
LEMMA Listed ==
  ASSUME NEW S, IsFiniteSet(S)
  PROVE  /\ SetToSeq(S) \in Seq(S)
         /\ \A x \in S : \E i \in DOMAIN SetToSeq(S) : SetToSeq(S)[i] = x
<1> DEFINE n == Cardinality(S)
<1>1. n \in Nat /\ ExistsBijection(1..n, S)
  BY FS_CardinalityType
<1>2. PICK g : g \in Bijection(1..n, S)
  BY <1>1 DEF ExistsBijection
<1>3. g \in [1..n -> S] /\ IsInjective(g)
  BY <1>2 DEF Bijection, Injection
<1>4. SetToSeq(S) \in [1..n -> S] /\ IsInjective(SetToSeq(S))
  BY <1>3 DEF SetToSeq
<1>5. SetToSeq(S) \in Surjection(1..n, S)
  <2>1. SetToSeq(S) \in Injection(1..n, S)
    BY <1>4 DEF Injection
  <2>2. Cardinality(1..n) = n
    BY <1>1, FS_Interval
  <2> QED
    BY <2>1, <2>2, FS_Injection
<1>6. SetToSeq(S) \in Seq(S)
  BY <1>1, <1>4, SeqDef
<1> QED
  BY <1>4, <1>5, <1>6 DEF Surjection

-----------------------------------------------------------------------------
(* Types.                                                                  *)

LEMMA Versions ==
  /\ Gone \in Version /\ AllGone \in [Chat -> Version]
  /\ \A v \in Version, e \in 0..MaxEdits : v # Gone => v \cup {e} \in Version /\ v \cup {e} # Gone
  /\ \A e \in 0..MaxEdits : {0} \cup {e} \in Version
  /\ \A v \in Version : Added(v) \in Version /\ Added(v) # Gone /\ v \subseteq Added(v)
<1>1. MaxEdits \in Nat
  BY StoreAssumption DEF StoreAssumption
<1> QED
  BY <1>1 DEF Version, Content, Gone, AllGone, Added

\* What a flush sends begins with what is on the wire, and adds a save of each
\* conversation that is due.
LEMMA Sent ==
  ASSUME StoreTypeOK, Flush
  PROVE  /\ wire' \in Seq(Message) /\ Continues(wire, wire')
         /\ \A i \in DOMAIN wire' : wire'[i].op = "save" => wire'[i].awaited = TRUE
         /\ \A i \in DOMAIN wire' \ DOMAIN wire : \E c \in Chat :
              /\ wire'[i].op = "save" /\ wire'[i].chats = {c}
              /\ wire'[i].content = Due(c) /\ Due(c) # Gone
         /\ \A c \in Chat : Due(c) # Gone =>
              \E i \in DOMAIN wire' \ DOMAIN wire : Stores(wire'[i], c) /\ wire'[i].content = Due(c)
<1> DEFINE due == {c \in Chat : Due(c) # Gone}
           new == {Save(c, Due(c)) : c \in due}
           list == SetToSeq(new)
           sent == wire \o list
<1>1. IsFiniteSet(new)
  <2>1. IsFiniteSet(due)
    BY FS_Subset, StoreAssumption DEF StoreAssumption
  <2> DEFINE f == [c \in due |-> Save(c, Due(c))]
  <2>2. f \in Surjection(due, new)
    BY DEF Surjection
  <2> QED
    BY <2>1, <2>2, FS_Surjection
<1>2. \A c \in Chat : Due(c) \in Version
  BY DEF StoreTypeOK, Due, Gone, Version, Content
<1>3. new \subseteq Message
  <2> SUFFICES ASSUME NEW c \in due PROVE Save(c, Due(c)) \in Message
    OBVIOUS
  <2>1. Due(c) \in Version /\ {c} \in SUBSET Chat
    BY <1>2
  <2> HIDE DEF due
  <2> QED
    BY <2>1 DEF Save, Message
<1>4. list \in Seq(new) /\ \A x \in new : \E i \in DOMAIN list : list[i] = x
  BY <1>1, Listed
<1>5. list \in Seq(Message)
  BY <1>3, <1>4, SeqMonotonic
<1>6. wire \in Seq(Message)
  BY DEF StoreTypeOK
<1> HIDE DEF list
<1>7. /\ sent \in Seq(Message) /\ Len(sent) = Len(wire) + Len(list)
      /\ \A i \in 1..Len(sent) : sent[i] = IF i <= Len(wire) THEN wire[i] ELSE list[i - Len(wire)]
  BY <1>5, <1>6, ConcatProperties
<1> HIDE DEF new, sent
<1>8. wire' = [i \in DOMAIN sent |-> [sent[i] EXCEPT !.awaited = (sent[i].op = "save")]]
  BY DEF Flush, list, new, sent
<1>9. /\ DOMAIN sent = 1..Len(sent) /\ Len(sent) \in Nat /\ Len(wire) \in Nat /\ Len(list) \in Nat
      /\ DOMAIN wire = 1..Len(wire) /\ DOMAIN list = 1..Len(list)
  BY <1>5, <1>6, <1>7
<1>10. \A i \in DOMAIN sent :
         /\ wire'[i] \in Message /\ wire'[i].op = sent[i].op /\ wire'[i].chats = sent[i].chats
         /\ wire'[i].content = sent[i].content /\ wire'[i].awaited = (wire'[i].op = "save")
  <2> SUFFICES ASSUME NEW i \in DOMAIN sent
               PROVE  /\ wire'[i] \in Message /\ wire'[i].op = sent[i].op
                      /\ wire'[i].chats = sent[i].chats
                      /\ wire'[i].content = sent[i].content
                      /\ wire'[i].awaited = (wire'[i].op = "save")
    OBVIOUS
  <2>1. sent[i] \in Message
    BY <1>7, <1>9
  <2>2. wire'[i] = [sent[i] EXCEPT !.awaited = (sent[i].op = "save")]
    BY <1>8
  <2> QED
    BY <2>1, <2>2 DEF Message
<1>11. wire' \in Seq(Message)
  <2>1. wire' \in [1..Len(sent) -> Message]
    BY <1>8, <1>9, <1>10
  <2> QED
    BY <2>1, <1>9, SeqDef
<1>12. DOMAIN wire' = 1..Len(sent) /\ Len(wire') = Len(sent)
  BY <1>8, <1>9, <1>11
<1>13. Continues(wire, wire')
  BY <1>7, <1>9, <1>10, <1>12 DEF Continues
<1>14. ASSUME NEW i \in DOMAIN wire' \ DOMAIN wire
       PROVE  \E c \in Chat : /\ wire'[i].op = "save" /\ wire'[i].chats = {c}
                              /\ wire'[i].content = Due(c) /\ Due(c) # Gone
  <2>1. i \in DOMAIN sent /\ sent[i] = list[i - Len(wire)] /\ i - Len(wire) \in DOMAIN list
    BY <1>14, <1>7, <1>9, <1>12
  <2>2. sent[i] \in new
    BY <2>1, <1>4
  <2>3. PICK c \in Chat : Due(c) # Gone /\ sent[i] = Save(c, Due(c))
    BY <2>2 DEF new
  <2> QED
    BY <2>1, <2>3, <1>10 DEF Save
<1>15. ASSUME NEW c \in Chat, Due(c) # Gone
       PROVE  \E i \in DOMAIN wire' \ DOMAIN wire :
                Stores(wire'[i], c) /\ wire'[i].content = Due(c)
  <2>1. Save(c, Due(c)) \in new
    BY <1>15 DEF new
  <2>2. PICK j \in DOMAIN list : list[j] = Save(c, Due(c))
    BY <2>1, <1>4
  <2>3. Len(wire) + j \in DOMAIN sent /\ sent[Len(wire) + j] = list[j]
        /\ Len(wire) + j \notin DOMAIN wire
    BY <1>7, <1>9
  <2>4. Stores(wire'[Len(wire) + j], c) /\ wire'[Len(wire) + j].content = Due(c)
    BY <2>2, <2>3, <1>10 DEF Save, Stores
  <2> QED
    BY <2>3, <2>4, <1>9, <1>12
<1>16. \A i \in DOMAIN wire' : wire'[i].op = "save" => wire'[i].awaited = TRUE
  BY <1>9, <1>10, <1>12
<1> QED
  BY <1>11, <1>13, <1>14, <1>15, <1>16

\* An update makes a conversation of a conversation.
Fits(u) == \A v \in Version : Result(u, v) \in Version

LEMMA UpdatesFit ==
  ASSUME NEW e \in 0..MaxEdits
  PROVE  Fits(Edit(e)) /\ \A v \in Version \cup {{0}} : v # Gone => Fits(Laid(e, v))
BY Versions DEF Fits, Result, Edit, Laid

GivenTyped ==
  /\ waits \in BOOLEAN /\ early \subseteq Chat
  /\ {upcoming, saves, pending} \subseteq [Chat -> Version]

LEMMA LaterTyped ==
  ASSUME StoreTypeOK, NEW c \in Chat, NEW u, Fits(u), NEW v \in Version, Later(c, u, v)
  PROVE  GivenTyped'
BY DEF StoreTypeOK, GivenTyped, Later, Fits

LEMMA SetTyped ==
  ASSUME StoreTypeOK, NEW c \in Chat, NEW u, Fits(u), Set(c, u)
  PROVE  GivenTyped'
<1>1. upcoming[c] \in Version /\ screen[c] \in Version
  BY DEF StoreTypeOK
<1>2. CASE Later(c, u, upcoming[c])
  BY <1>1, <1>2, LaterTyped
<1>3. CASE AtOnce(c, u)
  BY <1>1, <1>3 DEF StoreTypeOK, GivenTyped, AtOnce, Fits
<1> QED
  BY <1>2, <1>3 DEF Set

LEMMA StoreTypesStart ==
  ASSUME StoreInit
  PROVE  StoreTypeOK
<1>1. 0 \in 0..MaxEdits /\ 0 \in 0..MaxFails /\ 1 \in 1..MaxRuns
  BY StoreAssumption DEF StoreAssumption
<1> QED
  <2>1. {screen, ref, upcoming, saves, pending, written, db, owed} \subseteq [Chat -> Version]
    BY Versions DEF StoreInit
  <2>2. /\ runs \in 1..MaxRuns /\ deleted \subseteq Chat /\ unsaved \subseteq Chat
        /\ wire \in Seq(Message) /\ replies \in Seq(AnswerToSave) /\ phase = "open"
        /\ waits \in BOOLEAN /\ early \subseteq Chat /\ edits \in 0..MaxEdits /\ fails \in 0..MaxFails
    BY <1>1, EmptySeq DEF StoreInit
  <2> QED
    BY <2>1, <2>2 DEF StoreTypeOK

\* Every step keeps the types.
LEMMA StoreTypesKeep ==
  ASSUME StoreTypeOK, [StoreNext]_storeVars
  PROVE  StoreTypeOK'
<1>1. /\ {screen, ref, upcoming, saves, pending, written, db, owed} \subseteq [Chat -> Version]
      /\ waits \in BOOLEAN /\ early \subseteq Chat
      /\ wire \in Seq(Message) /\ replies \in Seq(AnswerToSave)
      /\ phase \in {"open", "asked", "flushing", "answered", "closed"}
      /\ deleted \subseteq Chat /\ unsaved \subseteq Chat
      /\ edits \in 0..MaxEdits /\ fails \in 0..MaxFails /\ runs \in 1..MaxRuns
      /\ MaxEdits \in Nat /\ MaxFails \in Nat /\ MaxRuns \in Nat
      /\ Gone \in Version /\ AllGone \in [Chat -> Version]
  BY StoreAssumption, Versions DEF StoreTypeOK, StoreAssumption
<1>2. CASE Render
  <2>1. {screen, ref, upcoming, saves, pending, written, db, owed}' \subseteq [Chat -> Version]
    BY <1>1, <1>2 DEF Render, quit
  <2> QED
    BY <1>1, <1>2, <2>1 DEF Render, StoreTypeOK, quit, counts
<1>3. CASE Effect
  BY <1>1, <1>3 DEF Effect, StoreTypeOK, given, quit, counts
<1>4. CASE Clear
  <2>1. /\ {pending', written', upcoming'} \subseteq [Chat -> Version] /\ waits' \in BOOLEAN
        /\ deleted' \subseteq Chat /\ edits' \in 0..MaxEdits
    BY <1>1, <1>4 DEF Clear, Edits
  <2>2. wire' \in Seq(Message)
    <3>1. Deletion(Chat) \in Message /\ wire' = Append(wire, Deletion(Chat))
      BY <1>1, <1>4 DEF Clear, Deletion, Message
    <3> QED
      BY <3>1, <1>1
  <2> QED
    BY <1>1, <1>4, <2>1, <2>2 DEF Clear, StoreTypeOK, quit
<1>5. CASE Reply
  <2>1. Head(replies) \in AnswerToSave /\ replies' \in Seq(AnswerToSave)
    BY <1>1, <1>5, HeadTailProperties DEF Reply
  <2>2. written' \in [Chat -> Version] /\ unsaved' \subseteq Chat
    BY <1>1, <1>5, <2>1 DEF Reply, AnswerToSave
  <2> QED
    BY <1>1, <1>5, <2>1, <2>2 DEF Reply, StoreTypeOK, window, given, quit, counts
<1>6. CASE Handle
  <2>1. Head(wire) \in Message /\ wire' \in Seq(Message)
    BY <1>1, <1>6, HeadTailProperties DEF Handle
  <2>2. db' \in [Chat -> Version] /\ phase' \in {"open", "asked", "flushing", "answered", "closed"}
        /\ replies' \in Seq(AnswerToSave) /\ fails' \in 0..MaxFails
    <3>1. CASE Head(wire).op = "save"
      <4>1. PICK c \in Head(wire).chats, ok \in BOOLEAN :
              /\ ok \/ fails < MaxFails
              /\ db' = IF ok THEN [db EXCEPT ![c] = Head(wire).content] ELSE db
              /\ fails' = IF ok THEN fails ELSE fails + 1
              /\ replies' = Append(replies, Answer(Head(wire), c, ok))
        BY <1>6, <3>1 DEF Handle
      <4>2. c \in Chat /\ Head(wire).content \in Version /\ Head(wire).awaited \in BOOLEAN
        BY <2>1 DEF Message
      <4>3. Answer(Head(wire), c, ok) \in AnswerToSave
        BY <4>2 DEF Answer, AnswerToSave
      <4> QED
        BY <1>1, <1>6, <3>1, <4>1, <4>2, <4>3 DEF Handle
    <3>2. CASE Head(wire).op # "save"
      BY <1>1, <1>6, <3>2 DEF Handle
    <3> QED
      BY <3>1, <3>2
  <2> QED
    BY <1>1, <1>6, <2>1, <2>2 DEF Handle, StoreTypeOK, window, given
<1>7. CASE Quit
  BY <1>1, <1>7 DEF Quit, StoreTypeOK, window, given, counts
<1>8. CASE Flush
  <2>1. wire' \in Seq(Message)
    BY <1>8, Sent
  <2>2. replies' \in Seq(AnswerToSave)
    <3>1. DOMAIN replies = 1..Len(replies) /\ Len(replies) \in Nat
      BY <1>1
    <3>2. replies' = [i \in DOMAIN replies |-> [replies[i] EXCEPT !.awaited = TRUE]]
      BY <1>8 DEF Flush
    <3>3. ASSUME NEW i \in DOMAIN replies
          PROVE  replies'[i] \in AnswerToSave
      <4>1. replies[i] \in AnswerToSave
        BY <1>1
      <4>2. replies'[i] = [replies[i] EXCEPT !.awaited = TRUE]
        BY <3>2
      <4> QED
        BY <4>1, <4>2 DEF AnswerToSave
    <3>4. replies' \in [1..Len(replies) -> AnswerToSave]
      BY <3>1, <3>2, <3>3
    <3> QED
      BY <3>1, <3>4, SeqDef
  <2>3. owed' \in [Chat -> Version]
    BY <1>1, <1>8 DEF Flush
  <2>4. {screen, ref, upcoming, saves, pending, written, db, owed}' \subseteq [Chat -> Version]
    BY <1>1, <1>8, <2>3 DEF Flush, given
  <2>5. /\ phase' = "flushing" /\ unsaved' \subseteq Chat /\ deleted' \subseteq Chat
        /\ waits' \in BOOLEAN /\ early' \subseteq Chat
        /\ edits' = edits /\ fails' = fails /\ runs' = runs
    BY <1>1, <1>8 DEF Flush, given, counts
  <2> QED
    BY <1>1, <2>1, <2>2, <2>4, <2>5 DEF StoreTypeOK
<1>9. CASE Flushed
  <2>1. [op |-> "flushed", chats |-> {}, content |-> Gone, awaited |-> FALSE] \in Message
    BY <1>1 DEF Message
  <2>2. wire' \in Seq(Message)
    BY <2>1, <1>1, <1>9 DEF Flushed
  <2> QED
    BY <1>1, <1>9, <2>2 DEF Flushed, StoreTypeOK, window, given, quit, counts
<1>10. CASE Shutdown
  BY <1>1, <1>10 DEF Shutdown, StoreTypeOK, window, given, counts
<1>11. CASE Restart
  <2>1. {screen, ref, upcoming, saves, pending, written, db, owed}' \subseteq [Chat -> Version]
    BY <1>1, <1>11, EmptySeq DEF Restart
  <2>2. runs' \in 1..MaxRuns /\ deleted' \subseteq Chat /\ unsaved' \subseteq Chat
    BY <1>1, <1>11 DEF Restart
  <2>3. /\ runs' \in 1..MaxRuns /\ deleted' \subseteq Chat /\ unsaved' \subseteq Chat
        /\ wire' \in Seq(Message) /\ replies' \in Seq(AnswerToSave) /\ phase' = "open"
        /\ waits' \in BOOLEAN /\ early' \subseteq Chat /\ edits' = edits /\ fails' = fails
    BY <1>1, <1>11, <2>2, EmptySeq DEF Restart
  <2> QED
    BY <1>1, <2>1, <2>3 DEF StoreTypeOK
<1>12. ASSUME NEW c \in Chat, Change(c)
       PROVE  StoreTypeOK'
  <2>1. edits' \in 0..MaxEdits
    BY <1>1, <1>12 DEF Change, Edits
  <2>2. GivenTyped'
    BY <2>1, <1>12, UpdatesFit, SetTyped DEF Change
  <2> QED
    BY <1>1, <1>12, <2>1, <2>2 DEF Change, GivenTyped, OnlyUpdates, StoreTypeOK, quit
<1>13. ASSUME NEW c \in Chat, Lay(c)
       PROVE  StoreTypeOK'
  <2>1. edits' \in 0..MaxEdits
    BY <1>1, <1>13 DEF Lay, Edits
  <2>2. CASE ref[c] = Gone
    <3>1. Later(c, Laid(edits', {0}), Added(upcoming[c]))
      BY <1>13, <2>2 DEF Lay
    <3>2. Fits(Laid(edits', {0})) /\ Added(upcoming[c]) \in Version
      BY <2>1, <1>1, UpdatesFit, Versions DEF Gone
    <3>3. GivenTyped'
      BY <3>1, <3>2, LaterTyped
    <3> QED
      BY <1>1, <1>13, <2>1, <3>3 DEF Lay, GivenTyped, OnlyUpdates, StoreTypeOK, quit
  <2>3. CASE ref[c] # Gone
    <3>1. Set(c, Laid(edits', ref[c]))
      BY <1>13, <2>3 DEF Lay
    <3>2. Fits(Laid(edits', ref[c]))
      BY <2>1, <2>3, <1>1, UpdatesFit
    <3>3. GivenTyped'
      BY <3>1, <3>2, SetTyped
    <3> QED
      BY <1>1, <1>13, <2>1, <3>3 DEF Lay, GivenTyped, OnlyUpdates, StoreTypeOK, quit
  <2> QED
    BY <2>2, <2>3
<1>14. ASSUME NEW c \in Chat, Delete(c)
       PROVE  StoreTypeOK'
  <2>1. edits' \in 0..MaxEdits
    BY <1>1, <1>14 DEF Delete, Edits
  <2>2. saves' \in [Chat -> Version] /\ early' \subseteq Chat
    <3>1. Result(Edit(edits'), upcoming[c]) \in Version
      BY <1>1, <2>1, UpdatesFit DEF Fits
    <3> QED
      BY <3>1, <1>1, <1>14 DEF Delete
  <2>3. wire' \in Seq(Message)
    <3>1. Deletion({c}) \in Message
      BY <1>1 DEF Deletion, Message
    <3> QED
      BY <3>1, <1>1, <1>14 DEF Delete
  <2> QED
    <3>1. {upcoming, pending, written}' \subseteq [Chat -> Version] /\ deleted' \subseteq Chat
      BY <1>1, <1>14 DEF Delete
    <3> QED
      BY <1>1, <1>14, <2>1, <2>2, <2>3, <3>1 DEF Delete, StoreTypeOK, quit
<1>15. ASSUME NEW c \in Chat, Fires(c)
       PROVE  StoreTypeOK'
  <2>1. Save(c, pending[c]) \in Message
    BY <1>1 DEF Save, Message
  <2>2. wire' \in Seq(Message)
    BY <2>1, <1>1, <1>15 DEF Fires
  <2> QED
    BY <1>1, <1>15, <2>2 DEF Fires, StoreTypeOK, given, quit, counts
<1>16. CASE UNCHANGED storeVars
  BY <1>1, <1>16 DEF StoreTypeOK, storeVars, window, given, quit, counts
<1> QED
  BY <1>2, <1>3, <1>4, <1>5, <1>6, <1>7, <1>8, <1>9, <1>10, <1>11, <1>12, <1>13, <1>14,
     <1>15, <1>16 DEF StoreNext

\* The window, the messages, the database and the quit keep their types, whatever is
\* edited, laid out, deleted, refused or killed (useSessions.ts, storage.ts, storage.cjs).
THEOREM StoreTypeCorrect == StoreSpec => []StoreTypeOK
BY StoreTypesStart, StoreTypesKeep, StoreAssumption, PTL DEF StoreSpec

-----------------------------------------------------------------------------
(* The order of the versions of a conversation, from the disk to the window. *)

Newest(v, c) == v # Gone => Covers(v, c, wire, db[c])

\* What is queued, or will be, is as new as all that was sent; until the window is asked
\* to flush, so is what it has.
Fresh(c) ==
  /\ Newest(pending[c], c) /\ Newest(saves[c], c) /\ Newest(upcoming[c], c)
  /\ phase \in {"open", "asked"} => Newest(screen[c], c) /\ Newest(ref[c], c)

\* A render only adds.
Above(c) ==
  /\ saves[c] # Gone => pending[c] \cup ref[c] \cup screen[c] \subseteq saves[c]
  /\ upcoming[c] # Gone => pending[c] \cup ref[c] \cup screen[c] \cup saves[c] \subseteq upcoming[c]
  /\ screen[c] # Gone => ref[c] \subseteq screen[c] /\ (pending[c] \subseteq screen[c] \/ c \in early)

\* A conversation that is gone was deleted, or never was.
Whereabouts(c) ==
  /\ c \in deleted => upcoming[c] = Gone
  /\ c \notin deleted /\ upcoming[c] = Gone =>
       /\ db[c] = Gone /\ screen[c] = Gone /\ ref[c] = Gone /\ pending[c] = Gone
       /\ saves[c] = Gone
       /\ \A i \in DOMAIN wire : ~Stores(wire[i], c)

\* A save is of one conversation, and a deletion of conversations that were deleted.
OnWire ==
  \A i \in DOMAIN wire :
    /\ wire[i].op = "save" => \E c \in Chat : wire[i].chats = {c}
    /\ wire[i].op = "delete" => wire[i].chats \subseteq deleted

\* When nothing waits for a render, nothing is to come.
Still == ~waits => upcoming = screen /\ saves = AllGone /\ early = {}

InOrder(c) == Rising(c, wire, db[c]) /\ Fresh(c) /\ Above(c) /\ Whereabouts(c)

StoreOrder == StoreTypeOK /\ OnWire /\ Still /\ \A c \in Chat : InOrder(c)

LEMMA StoreOrderStarts ==
  ASSUME StoreInit
  PROVE  StoreOrder
<1>1. ASSUME NEW c \in Chat PROVE InOrder(c)
  <2>1. wire = <<>> /\ DOMAIN <<>> = {}
    BY DEF StoreInit
  <2> QED
    BY <2>1 DEF StoreInit, InOrder, Rising, Fresh, Newest, Above, Whereabouts, AllGone
<1>2. OnWire /\ Still
  BY DEF StoreInit, OnWire, Still
<1> QED
  BY <1>1, <1>2, StoreTypesStart DEF StoreOrder

\* A step that leaves alone what there is of a conversation.
Alone(c) ==
  /\ pending'[c] = pending[c] /\ saves'[c] = saves[c] /\ upcoming'[c] = upcoming[c]
  /\ screen'[c] = screen[c] /\ ref'[c] = ref[c]
  /\ c \in early => c \in early'
  /\ c \in deleted <=> c \in deleted'
  /\ phase' \in {"open", "asked"} => phase \in {"open", "asked"}

\* A conversation that is left alone stays in order.
LEMMA AloneKeeps ==
  ASSUME NEW c \in Chat, InOrder(c), Alone(c), Rising(c, wire', db'[c]),
         \A v : Covers(v, c, wire, db[c]) => Covers(v, c, wire', db'[c]),
         /\ db[c] = Gone /\ (\A i \in DOMAIN wire : ~Stores(wire[i], c))
            => db'[c] = Gone /\ \A i \in DOMAIN wire' : ~Stores(wire'[i], c)
  PROVE  InOrder(c)'
<1>1. Fresh(c)'
  BY DEF InOrder, Fresh, Newest, Alone
<1>2. Above(c)'
  BY DEF InOrder, Above, Alone
<1>3. Whereabouts(c)'
  BY DEF InOrder, Whereabouts, Alone
<1> QED
  BY <1>1, <1>2, <1>3 DEF InOrder

LEMMA RenderKeepsOrder ==
  ASSUME StoreOrder, Render
  PROVE  OnWire' /\ Still' /\ \A c \in Chat : InOrder(c)'
<1>1. OnWire' /\ Still'
  BY DEF StoreOrder, OnWire, Still, Render
<1>2. ASSUME NEW c \in Chat PROVE InOrder(c)'
  <2>1. /\ screen'[c] = upcoming[c] /\ upcoming'[c] = upcoming[c] /\ saves'[c] = Gone
        /\ pending'[c] = IF saves[c] # Gone THEN saves[c] ELSE pending[c]
        /\ ref' = ref /\ wire' = wire /\ db' = db /\ deleted' = deleted /\ phase' = phase
    BY DEF Render, AllGone, quit
  <2>2. InOrder(c)
    BY DEF StoreOrder
  <2>3. Fresh(c)'
    BY <2>1, <2>2 DEF InOrder, Fresh, Newest
  <2>4. Above(c)'
    BY <2>1, <2>2 DEF InOrder, Above, Gone
  <2>5. Whereabouts(c)'
    BY <2>1, <2>2 DEF InOrder, Whereabouts
  <2> QED
    BY <2>1, <2>2, <2>3, <2>4, <2>5 DEF InOrder
<1> QED
  BY <1>1, <1>2

LEMMA EffectKeepsOrder ==
  ASSUME StoreOrder, Effect
  PROVE  OnWire' /\ Still' /\ \A c \in Chat : InOrder(c)'
<1>1. OnWire' /\ Still'
  BY DEF StoreOrder, OnWire, Still, Effect, given
<1>2. ASSUME NEW c \in Chat PROVE InOrder(c)'
  <2>1. /\ ref'[c] = screen[c] /\ screen' = screen /\ upcoming' = upcoming /\ saves' = saves
        /\ pending' = pending /\ early' = early
        /\ wire' = wire /\ db' = db /\ deleted' = deleted /\ phase' = phase
    BY DEF Effect, given, quit
  <2>2. InOrder(c)
    BY DEF StoreOrder
  <2>3. Fresh(c)'
    BY <2>1, <2>2 DEF InOrder, Fresh, Newest
  <2>4. Above(c)'
    BY <2>1, <2>2 DEF InOrder, Above, Gone
  <2>5. Whereabouts(c)'
    BY <2>1, <2>2 DEF InOrder, Whereabouts
  <2> QED
    BY <2>1, <2>2, <2>3, <2>4, <2>5 DEF InOrder
<1> QED
  BY <1>1, <1>2

\* Answers, the beginning and the end of a quit: nothing is sent or handled.
LEMMA QuietKeepsOrder ==
  ASSUME StoreOrder, Reply \/ Quit \/ Shutdown \/ UNCHANGED storeVars
  PROVE  OnWire' /\ Still' /\ \A c \in Chat : InOrder(c)'
<1>1. /\ UNCHANGED window /\ wire' = wire /\ db' = db /\ deleted' = deleted
      /\ phase' \in {"open", "asked"} => phase \in {"open", "asked"}
  BY DEF Reply, Quit, Shutdown, storeVars, quit
<1>2. OnWire' /\ Still'
  BY <1>1 DEF StoreOrder, OnWire, Still, window, given
<1>3. ASSUME NEW c \in Chat PROVE InOrder(c)'
  <2>1. Alone(c) /\ InOrder(c)
    BY <1>1 DEF Alone, window, given, StoreOrder
  <2> QED
    BY <2>1, <1>1, AloneKeeps DEF InOrder
<1> QED
  BY <1>2, <1>3

\* What a message does to the database is what its deletions and saves say.
LEMMA Handles ==
  ASSUME StoreTypeOK, OnWire, Handle
  PROVE  /\ wire # <<>> /\ wire' = Tail(wire) /\ UNCHANGED <<window, written, owed, deleted>>
         /\ phase' \in {"open", "asked"} => phase \in {"open", "asked"}
         /\ \A c \in Chat : Stored(wire[1], c, db[c], db'[c])
<1>1. /\ wire # <<>> /\ wire' = Tail(wire) /\ UNCHANGED <<window, written, owed, deleted>>
      /\ Head(wire) = wire[1] /\ wire[1] \in Message /\ 1 \in DOMAIN wire
  BY DEF Handle, StoreTypeOK
<1>2. CASE wire[1].op = "save"
  <2>1. PICK c \in wire[1].chats, ok \in BOOLEAN :
          db' = IF ok THEN [db EXCEPT ![c] = wire[1].content] ELSE db
    BY <1>1, <1>2 DEF Handle
  <2>2. c \in Chat /\ db \in [Chat -> Version] /\ phase' = phase
    BY <1>1, <1>2 DEF StoreTypeOK, Message, Handle
  <2>3. ASSUME NEW e \in Chat PROVE Stored(wire[1], e, db[e], db'[e])
    <3>1. ~Erases(wire[1], e)
      BY <1>2 DEF Erases
    <3>2. db'[e] = db[e] \/ (Stores(wire[1], e) /\ db'[e] = wire[1].content)
      <4>1. CASE ok
        BY <1>2, <2>1, <2>2, <4>1 DEF Stores
      <4>2. CASE ~ok
        BY <2>1, <4>2
      <4> QED
        BY <4>1, <4>2
    <3> QED
      BY <3>1, <3>2 DEF Stored
  <2> QED
    BY <1>1, <2>2, <2>3
<1>3. CASE wire[1].op = "delete"
  <2>1. db' = [c \in Chat |-> IF c \in wire[1].chats THEN Gone ELSE db[c]] /\ phase' = phase
    BY <1>1, <1>3 DEF Handle
  <2>2. ASSUME NEW e \in Chat PROVE Stored(wire[1], e, db[e], db'[e])
    BY <2>1 DEF Stored, Erases, Gone
  <2> QED
    BY <1>1, <2>1, <2>2
<1>4. CASE wire[1].op = "flushed"
  <2>1. db' = db /\ phase' = "answered"
    BY <1>1, <1>4 DEF Handle
  <2>2. ASSUME NEW e \in Chat PROVE Stored(wire[1], e, db[e], db'[e])
    BY <1>4, <2>1 DEF Stored, Erases
  <2> QED
    BY <1>1, <2>1, <2>2
<1> QED
  BY <1>1, <1>2, <1>3, <1>4 DEF Message

LEMMA HandleKeepsOrder ==
  ASSUME StoreOrder, Handle
  PROVE  OnWire' /\ Still' /\ \A c \in Chat : InOrder(c)'
<1>1. /\ wire # <<>> /\ wire' = Tail(wire) /\ UNCHANGED <<window, written, owed, deleted>>
      /\ phase' \in {"open", "asked"} => phase \in {"open", "asked"}
      /\ \A c \in Chat : Stored(wire[1], c, db[c], db'[c])
      /\ wire \in Seq(Message)
  BY Handles DEF StoreOrder, StoreTypeOK
<1>2. \A i \in DOMAIN wire' : i + 1 \in DOMAIN wire /\ wire'[i] = wire[i + 1]
  BY <1>1
<1>3. OnWire' /\ Still'
  BY <1>1, <1>2 DEF StoreOrder, OnWire, Still, window, given
<1>4. ASSUME NEW c \in Chat PROVE InOrder(c)'
  <2>1. Alone(c) /\ InOrder(c)
    BY <1>1 DEF Alone, window, given, StoreOrder
  <2>2. Rising(c, wire', db'[c])
    BY <2>1, <1>1, RisingHandled DEF InOrder
  <2>3. \A v : Covers(v, c, wire, db[c]) => Covers(v, c, wire', db'[c])
    BY <1>1, CoversHandled
  <2>4. ASSUME db[c] = Gone, \A i \in DOMAIN wire : ~Stores(wire[i], c)
        PROVE  db'[c] = Gone /\ \A i \in DOMAIN wire' : ~Stores(wire'[i], c)
    <3>1. 1 \in DOMAIN wire
      BY <1>1
    <3> QED
      BY <3>1, <2>4, <1>1, <1>2 DEF Stored, Gone
  <2> QED
    BY <2>1, <2>2, <2>3, <2>4, AloneKeeps
<1> QED
  BY <1>3, <1>4

\* A message is added.
LEMMA Appended ==
  ASSUME StoreTypeOK, NEW m \in Message, wire' = Append(wire, m)
  PROVE  /\ wire' \in Seq(Message) /\ Continues(wire, wire')
         /\ DOMAIN wire' \ DOMAIN wire = {Len(wire) + 1} /\ wire'[Len(wire) + 1] = m
         /\ DOMAIN wire \subseteq DOMAIN wire' /\ \A i \in DOMAIN wire : wire'[i] = wire[i]
<1>1. wire \in Seq(Message)
  BY DEF StoreTypeOK
<1>2. wire' \in Seq(Message) /\ Len(wire') = Len(wire) + 1
  BY <1>1
<1>3. DOMAIN wire = 1..Len(wire) /\ DOMAIN wire' = 1..(Len(wire) + 1) /\ Len(wire) \in Nat
  BY <1>1, <1>2
<1>4. wire'[Len(wire) + 1] = m /\ \A i \in DOMAIN wire : wire'[i] = wire[i]
  BY <1>1
<1> QED
  BY <1>2, <1>3, <1>4 DEF Continues

\* What goes out leaves alone what there is of the chats it is not about.
LEMMA OthersKeepOrder ==
  ASSUME StoreOrder, NEW m \in Message, wire' = Append(wire, m), db' = db,
         NEW c \in Chat, ~Stores(m, c), Alone(c)
  PROVE  InOrder(c)'
<1>1. InOrder(c) /\ wire \in Seq(Message)
  BY DEF StoreOrder, StoreTypeOK
<1>2. /\ wire' \in Seq(Message) /\ Continues(wire, wire') /\ DOMAIN wire \subseteq DOMAIN wire'
      /\ \A i \in DOMAIN wire : wire'[i] = wire[i]
      /\ \A i \in DOMAIN wire' \ DOMAIN wire : ~Stores(wire'[i], c)
  BY Appended DEF StoreOrder
<1>3. Rising(c, wire', db'[c])
  BY <1>1, <1>2, RisingLonger DEF InOrder
<1>4. \A v : Covers(v, c, wire, db[c]) => Covers(v, c, wire', db'[c])
  BY <1>1, <1>2, CoversLonger
<1> QED
  BY <1>1, <1>2, <1>3, <1>4, AloneKeeps

LEMMA FlushedKeepsOrder ==
  ASSUME StoreOrder, Flushed
  PROVE  OnWire' /\ Still' /\ \A c \in Chat : InOrder(c)'
<1> DEFINE m == [op |-> "flushed", chats |-> {}, content |-> Gone, awaited |-> FALSE]
<1>1. /\ wire' = Append(wire, m) /\ UNCHANGED <<window, written, replies, db, quit, deleted>>
      /\ m \in Message /\ m.op = "flushed"
  BY Versions DEF Flushed, Message
<1> HIDE DEF m
<1>2. OnWire' /\ Still'
  <2>1. \A i \in DOMAIN wire' : (i \in DOMAIN wire /\ wire'[i] = wire[i]) \/ wire'[i] = m
    BY <1>1, Appended DEF StoreOrder
  <2> QED
    BY <1>1, <2>1 DEF StoreOrder, OnWire, Still, window, given
<1>3. ASSUME NEW c \in Chat PROVE InOrder(c)'
  <2>1. Alone(c) /\ ~Stores(m, c)
    BY <1>1 DEF Alone, window, given, quit, Stores
  <2> QED
    BY <2>1, <1>1, OthersKeepOrder
<1> QED
  BY <1>2, <1>3

\* A conversation that is deleted is in order, whatever is left of it.
LEMMA DeletedInOrder ==
  ASSUME StoreOrder, NEW m \in Message, wire' = Append(wire, m), db' = db,
         NEW c \in Chat, Erases(m, c), c \in deleted', upcoming'[c] = Gone, Above(c)'
  PROVE  InOrder(c)'
<1>1. InOrder(c) /\ wire \in Seq(Message)
  BY DEF StoreOrder, StoreTypeOK
<1>2. /\ wire' \in Seq(Message) /\ Continues(wire, wire')
      /\ \A i \in DOMAIN wire' \ DOMAIN wire : ~Stores(wire'[i], c)
  BY Appended DEF StoreOrder, Stores, Erases
<1>3. Rising(c, wire', db'[c])
  BY <1>1, <1>2, RisingLonger DEF InOrder
<1>4. \A v : Covers(v, c, wire', db'[c])
  BY <1>1, CoversErased
<1>5. Fresh(c)'
  BY <1>4 DEF Fresh, Newest
<1>6. Whereabouts(c)'
  BY DEF Whereabouts
<1> QED
  BY <1>3, <1>5, <1>6 DEF InOrder

LEMMA ClearKeepsOrder ==
  ASSUME StoreOrder, Clear
  PROVE  OnWire' /\ Still' /\ \A c \in Chat : InOrder(c)'
<1> DEFINE m == Deletion(Chat)
<1>1. /\ wire' = Append(wire, m) /\ db' = db /\ deleted' = Chat /\ upcoming' = AllGone /\ waits' = TRUE
      /\ saves' = saves /\ screen' = screen /\ ref' = ref /\ early' = early
      /\ \A c \in Chat : pending'[c] = Gone \/ pending'[c] = pending[c]
      /\ m \in Message /\ m.op = "delete" /\ m.chats = Chat
  BY Versions DEF Clear, Deletion, Message
<1> HIDE DEF m
<1>2. OnWire' /\ Still'
  <2>1. \A i \in DOMAIN wire' : (i \in DOMAIN wire /\ wire'[i] = wire[i]) \/ wire'[i] = m
    BY <1>1, Appended DEF StoreOrder
  <2>2. deleted \subseteq Chat
    BY DEF StoreOrder, StoreTypeOK
  <2> QED
    BY <1>1, <2>1, <2>2 DEF StoreOrder, OnWire, Still
<1>3. ASSUME NEW c \in Chat PROVE InOrder(c)'
  <2>1. Erases(m, c) /\ upcoming'[c] = Gone
    BY <1>1 DEF Erases, AllGone
  <2>2. Above(c)'
    BY <1>1, <2>1 DEF StoreOrder, InOrder, Above, Gone
  <2> QED
    BY <2>1, <2>2, <1>1, DeletedInOrder
<1> QED
  BY <1>2, <1>3

LEMMA DeleteKeepsOrder ==
  ASSUME StoreOrder, NEW c \in Chat, Delete(c)
  PROVE  OnWire' /\ Still' /\ \A a \in Chat : InOrder(a)'
<1> DEFINE m == Deletion({c})
<1>1. /\ wire' = Append(wire, m) /\ db' = db /\ deleted' = deleted \cup {c} /\ waits' = TRUE
      /\ screen' = screen /\ ref' = ref /\ phase' = phase
      /\ m \in Message /\ m.op = "delete" /\ m.chats = {c}
  BY Versions DEF Delete, Deletion, Message, quit
<1>2. \A a \in Chat \ {c} : /\ upcoming'[a] = upcoming[a] /\ pending'[a] = pending[a]
                            /\ saves'[a] = saves[a] /\ (a \in early => a \in early')
  BY DEF Delete, StoreOrder, StoreTypeOK, Still
<1>3. /\ upcoming'[c] = Gone /\ pending'[c] = Gone
      /\ \/ saves'[c] = saves[c]
         \/ upcoming[c] # Gone /\ upcoming[c] \subseteq saves'[c]
  <2>1. {upcoming, pending, saves} \subseteq [Chat -> Version]
    BY DEF StoreOrder, StoreTypeOK
  <2>2. upcoming'[c] = Gone /\ pending'[c] = Gone
    BY <2>1 DEF Delete
  <2>3. \/ saves' = saves
        \/ upcoming[c] # Gone /\ saves' = [saves EXCEPT ![c] = Result(Edit(edits'), upcoming[c])]
    BY DEF Delete
  <2>4. upcoming[c] # Gone => upcoming[c] \subseteq Result(Edit(edits'), upcoming[c])
    BY DEF Result, Edit
  <2> QED
    BY <2>1, <2>2, <2>3, <2>4
<1> HIDE DEF m
<1>4. OnWire' /\ Still'
  <2>1. \A i \in DOMAIN wire' : (i \in DOMAIN wire /\ wire'[i] = wire[i]) \/ wire'[i] = m
    BY <1>1, Appended DEF StoreOrder
  <2> QED
    BY <1>1, <2>1 DEF StoreOrder, OnWire, Still
<1>5. InOrder(c)'
  <2>1. Above(c)'
    BY <1>1, <1>3 DEF StoreOrder, InOrder, Above, Gone
  <2> QED
    BY <1>1, <1>3, <2>1, DeletedInOrder DEF Erases
<1>6. ASSUME NEW a \in Chat \ {c} PROVE InOrder(a)'
  <2>1. Alone(a) /\ ~Stores(m, a)
    BY <1>1, <1>2 DEF Alone, Stores, Deletion
  <2> QED
    BY <2>1, <1>1, OthersKeepOrder
<1> QED
  BY <1>4, <1>5, <1>6

\* Saves of v go out.
LEMMA SentInOrder ==
  ASSUME StoreOrder, wire' \in Seq(Message), Continues(wire, wire'), db' = db,
         NEW c \in Chat, NEW v, Newest(v, c),
         \A i \in DOMAIN wire' \ DOMAIN wire :
           Stores(wire'[i], c) => v # Gone /\ wire'[i].content = v
  PROVE  /\ Rising(c, wire', db'[c])
         /\ \A u : Covers(u, c, wire, db[c]) /\ v \subseteq u => Covers(u, c, wire', db'[c])
<1>1. Rising(c, wire, db[c]) /\ wire \in Seq(Message)
  BY DEF StoreOrder, InOrder, StoreTypeOK
<1>2. \A i \in DOMAIN wire' \ DOMAIN wire :
        Stores(wire'[i], c) => wire'[i].content = v /\ Covers(v, c, wire, db[c])
  BY DEF Newest
<1>3. Rising(c, wire', db'[c])
  BY <1>1, <1>2, RisingLonger
<1>4. ASSUME NEW u, Covers(u, c, wire, db[c]), v \subseteq u
      PROVE  Covers(u, c, wire', db'[c])
  <2>1. \A i \in DOMAIN wire' \ DOMAIN wire : Stores(wire'[i], c) => wire'[i].content \subseteq u
    BY <1>4
  <2> QED
    BY <1>1, <1>4, <2>1, CoversLonger
<1> QED
  BY <1>3, <1>4

LEMMA FiresKeepsOrder ==
  ASSUME StoreOrder, NEW c \in Chat, Fires(c)
  PROVE  OnWire' /\ Still' /\ \A a \in Chat : InOrder(a)'
<1> DEFINE m == Save(c, pending[c])
<1>1. /\ wire' = Append(wire, m) /\ UNCHANGED <<screen, ref, given, db, phase, deleted>>
      /\ pending' = [pending EXCEPT ![c] = Gone] /\ pending \in [Chat -> Version]
      /\ pending[c] # Gone /\ ref[c] = screen[c] /\ c \notin early
  BY DEF Fires, StoreOrder, StoreTypeOK, quit
<1>2. m \in Message /\ m.op = "save" /\ m.chats = {c} /\ m.content = pending[c]
  BY <1>1 DEF Save, Message
<1> HIDE DEF m
<1>3. /\ wire' \in Seq(Message) /\ Continues(wire, wire')
      /\ \A i \in DOMAIN wire' \ DOMAIN wire : wire'[i] = m
      /\ \A i \in DOMAIN wire' : (i \in DOMAIN wire /\ wire'[i] = wire[i]) \/ wire'[i] = m
  BY <1>1, <1>2, Appended DEF StoreOrder
<1>4. OnWire' /\ Still'
  BY <1>1, <1>2, <1>3 DEF StoreOrder, OnWire, Still, given
<1>5. InOrder(c)'
  <2>1. InOrder(c)
    BY DEF StoreOrder
  <2>2. /\ Rising(c, wire', db'[c])
        /\ \A u : Covers(u, c, wire, db[c]) /\ pending[c] \subseteq u => Covers(u, c, wire', db'[c])
    BY <1>1, <1>2, <1>3, <2>1, SentInOrder DEF InOrder, Fresh
  <2>3. \A u : u # Gone /\ Newest(u, c) /\ pending[c] \subseteq u => Covers(u, c, wire', db'[c])
    BY <2>2 DEF Newest
  <2>4. pending'[c] = Gone
    BY <1>1
  <2>5. Fresh(c)'
    BY <1>1, <2>1, <2>3, <2>4 DEF InOrder, Fresh, Above, Newest, given
  <2>6. Above(c)'
    BY <1>1, <2>1, <2>4 DEF InOrder, Above, Gone, given
  <2>7. Whereabouts(c)'
    BY <1>1, <2>1 DEF InOrder, Whereabouts, given
  <2> QED
    BY <2>2, <2>5, <2>6, <2>7 DEF InOrder
<1>6. ASSUME NEW a \in Chat \ {c} PROVE InOrder(a)'
  <2>1. Alone(a) /\ ~Stores(m, a)
    BY <1>1, <1>2 DEF Alone, Stores, given
  <2> QED
    BY <2>1, <1>1, <1>2, OthersKeepOrder
<1> QED
  BY <1>4, <1>5, <1>6

LEMMA FlushKeepsOrder ==
  ASSUME StoreOrder, Flush
  PROVE  OnWire' /\ Still' /\ \A c \in Chat : InOrder(c)'
<1>1. /\ UNCHANGED <<screen, ref, given, db, deleted>> /\ pending' = AllGone
      /\ phase = "asked" /\ phase' = "flushing"
  BY DEF Flush
<1>2. /\ wire' \in Seq(Message) /\ Continues(wire, wire')
      /\ \A i \in DOMAIN wire' \ DOMAIN wire : \E c \in Chat :
           /\ wire'[i].op = "save" /\ wire'[i].chats = {c}
           /\ wire'[i].content = Due(c) /\ Due(c) # Gone
  BY Sent DEF StoreOrder
<1>3. OnWire' /\ Still'
  <2>1. ASSUME NEW i \in DOMAIN wire'
        PROVE  /\ wire'[i].op = "save" => \E c \in Chat : wire'[i].chats = {c}
               /\ wire'[i].op = "delete" => wire'[i].chats \subseteq deleted
    <3>1. CASE i \in DOMAIN wire
      BY <3>1, <1>2 DEF Continues, StoreOrder, OnWire
    <3>2. CASE i \notin DOMAIN wire
      BY <2>1, <3>2, <1>2
    <3> QED
      BY <3>1, <3>2
  <2> QED
    BY <1>1, <2>1 DEF StoreOrder, OnWire, Still, given
<1>4. ASSUME NEW c \in Chat PROVE InOrder(c)'
  <2>1. InOrder(c)
    BY DEF StoreOrder
  <2>2. Due(c) \in {pending[c], ref[c], Gone}
    BY DEF Due
  <2>3. Newest(Due(c), c)
    BY <2>1, <2>2, <1>1 DEF InOrder, Fresh, Newest
  <2>4. \A i \in DOMAIN wire' \ DOMAIN wire :
          Stores(wire'[i], c) => Due(c) # Gone /\ wire'[i].content = Due(c)
    BY <1>2 DEF Stores
  <2>5. /\ Rising(c, wire', db'[c])
        /\ \A u : Covers(u, c, wire, db[c]) /\ Due(c) \subseteq u => Covers(u, c, wire', db'[c])
    BY <1>1, <1>2, <2>3, <2>4, SentInOrder
  <2>6. \A u : u # Gone /\ Newest(u, c) /\ Due(c) \subseteq u => Covers(u, c, wire', db'[c])
    BY <2>5 DEF Newest
  <2>7. pending'[c] = Gone
    BY <1>1 DEF AllGone
  <2>8. /\ saves[c] # Gone => Due(c) \subseteq saves[c]
        /\ upcoming[c] # Gone => Due(c) \subseteq upcoming[c]
    BY <2>1, <2>2 DEF InOrder, Above, Gone
  <2>9. Fresh(c)'
    BY <1>1, <2>1, <2>6, <2>7, <2>8 DEF InOrder, Fresh, Newest, given
  <2>10. Above(c)'
    BY <1>1, <2>1, <2>7 DEF InOrder, Above, Gone, given
  <2>11. Whereabouts(c)'
    <3>1. ASSUME c \notin deleted, upcoming[c] = Gone, NEW i \in DOMAIN wire'
          PROVE  ~Stores(wire'[i], c)
      <4>1. Due(c) = Gone
        BY <2>1, <2>2, <3>1 DEF InOrder, Whereabouts
      <4>2. CASE i \in DOMAIN wire
        BY <4>2, <2>1, <3>1, <1>2 DEF InOrder, Whereabouts, Continues, Stores
      <4>3. CASE i \notin DOMAIN wire
        BY <4>1, <4>3, <2>4
      <4> QED
        BY <4>2, <4>3
    <3> QED
      BY <1>1, <2>1, <2>7, <3>1 DEF InOrder, Whereabouts, given
  <2> QED
    BY <2>5, <2>9, <2>10, <2>11 DEF InOrder
<1> QED
  BY <1>3, <1>4

LEMMA RestartKeepsOrder ==
  ASSUME StoreOrder, Restart
  PROVE  OnWire' /\ Still' /\ \A c \in Chat : InOrder(c)'
<1>1. /\ screen' = db /\ ref' = db /\ upcoming' = db /\ db' = db /\ wire' = <<>>
      /\ saves' = AllGone /\ early' = {} /\ pending' = AllGone
      /\ deleted' = deleted \ {c \in Chat : db[c] # Gone} /\ DOMAIN <<>> = {}
  BY DEF Restart
<1>2. OnWire' /\ Still'
  BY <1>1 DEF OnWire, Still
<1>3. ASSUME NEW c \in Chat PROVE InOrder(c)'
  <2>1. /\ pending'[c] = Gone /\ saves'[c] = Gone /\ \A i \in DOMAIN wire' : FALSE
        /\ c \in deleted' => db[c] = Gone
    BY <1>1 DEF AllGone
  <2>2. Rising(c, wire', db'[c]) /\ Covers(db[c], c, wire', db'[c])
    BY <1>1, <2>1 DEF Rising, Covers
  <2>3. Fresh(c)'
    BY <1>1, <2>1, <2>2 DEF Fresh, Newest
  <2>4. Above(c)'
    BY <1>1, <2>1 DEF Above, Gone
  <2>5. Whereabouts(c)'
    BY <1>1, <2>1 DEF Whereabouts
  <2> QED
    BY <2>2, <2>3, <2>4, <2>5 DEF InOrder
<1> QED
  BY <1>2, <1>3

\* What an update makes of a conversation contains all it is made of.
Adds(c, u, v) == v # Gone => Result(u, v) # Gone /\ upcoming[c] \subseteq Result(u, v)

LEMMA LaterKeepsOrder ==
  ASSUME StoreOrder, OnlyUpdates, NEW c \in Chat, NEW u, NEW v, Later(c, u, v), Adds(c, u, v),
         UNCHANGED <<phase, deleted>>,
         v = Gone => upcoming[c] = Gone, v # Gone /\ c \in deleted => upcoming[c] # Gone
  PROVE  OnWire' /\ Still' /\ \A a \in Chat : InOrder(a)'
<1> DEFINE r == Result(u, v)
<1>1. /\ UNCHANGED <<screen, ref, wire, db, deleted, phase, early, pending>> /\ waits' = TRUE
      /\ upcoming' = [upcoming EXCEPT ![c] = r]
      /\ saves' = IF v = Gone THEN saves ELSE [saves EXCEPT ![c] = r]
      /\ {upcoming, saves} \subseteq [Chat -> Version]
  BY DEF Later, OnlyUpdates, StoreOrder, StoreTypeOK
<1>2. v = Gone => r = Gone
  BY DEF Result
<1>3. v # Gone => r # Gone /\ upcoming[c] \subseteq r
  BY DEF Adds
<1> HIDE DEF r
<1>4. OnWire' /\ Still'
  BY <1>1 DEF StoreOrder, OnWire, Still
<1>5. ASSUME NEW a \in Chat, a # c \/ v = Gone PROVE InOrder(a)'
  <2>1. /\ upcoming'[a] = upcoming[a] /\ saves'[a] = saves[a] /\ pending'[a] = pending[a]
        /\ screen'[a] = screen[a] /\ ref'[a] = ref[a]
    BY <1>1, <1>2, <1>5
  <2>2. Alone(a) /\ InOrder(a)
    BY <1>1, <2>1 DEF Alone, StoreOrder
  <2> QED
    BY <1>1, <2>2, AloneKeeps DEF InOrder
<1>6. ASSUME v # Gone PROVE InOrder(c)'
  <2>1. InOrder(c)
    BY DEF StoreOrder
  <2>2. c \notin deleted /\ upcoming'[c] = r /\ saves'[c] = r /\ r # Gone /\ upcoming[c] \subseteq r
    BY <1>1, <1>3, <1>6, <2>1 DEF InOrder, Whereabouts
  <2>3. Covers(r, c, wire, db[c])
    <3>1. CASE upcoming[c] # Gone
      BY <2>1, <2>2, <3>1, CoversMore DEF InOrder, Fresh, Newest
    <3>2. CASE upcoming[c] = Gone
      BY <2>1, <2>2, <3>2 DEF InOrder, Whereabouts, Covers, Gone
    <3> QED
      BY <3>1, <3>2
  <2>4. pending[c] \cup ref[c] \cup screen[c] \subseteq r
    <3>1. CASE upcoming[c] # Gone
      BY <2>1, <2>2, <3>1 DEF InOrder, Above
    <3>2. CASE upcoming[c] = Gone
      BY <2>1, <2>2, <3>2 DEF InOrder, Whereabouts, Gone
    <3> QED
      BY <3>1, <3>2
  <2>5. Fresh(c)'
    BY <1>1, <2>1, <2>2, <2>3 DEF InOrder, Fresh, Newest
  <2>6. Above(c)'
    BY <1>1, <2>1, <2>2, <2>4 DEF InOrder, Above
  <2>7. Whereabouts(c)'
    BY <1>1, <2>2 DEF Whereabouts
  <2> QED
    BY <1>1, <2>1, <2>5, <2>6, <2>7 DEF InOrder
<1> QED
  BY <1>4, <1>5, <1>6

LEMMA AtOnceKeepsOrder ==
  ASSUME StoreOrder, OnlyUpdates, NEW c \in Chat, NEW u, AtOnce(c, u), Adds(c, u, screen[c]),
         UNCHANGED <<phase, deleted>>
  PROVE  OnWire' /\ Still' /\ \A a \in Chat : InOrder(a)'
<1> DEFINE r == Result(u, screen[c])
<1>1. /\ UNCHANGED <<screen, ref, wire, db, deleted, phase, saves>> /\ waits' = TRUE
      /\ upcoming' = [upcoming EXCEPT ![c] = r] /\ pending' = [pending EXCEPT ![c] = r]
      /\ {upcoming, pending} \subseteq [Chat -> Version] /\ early' = {c}
      /\ ~waits /\ screen[c] # Gone
  BY DEF AtOnce, OnlyUpdates, StoreOrder, StoreTypeOK
<1>2. upcoming = screen /\ saves = AllGone /\ early = {}
  BY <1>1 DEF StoreOrder, Still
<1>3. r # Gone /\ screen[c] \subseteq r
  BY <1>1, <1>2 DEF Adds
<1> HIDE DEF r
<1>4. OnWire' /\ Still'
  BY <1>1 DEF StoreOrder, OnWire, Still
<1>5. ASSUME NEW a \in Chat, a # c PROVE InOrder(a)'
  <2>1. /\ upcoming'[a] = upcoming[a] /\ saves'[a] = saves[a] /\ pending'[a] = pending[a]
        /\ screen'[a] = screen[a] /\ ref'[a] = ref[a]
    BY <1>1, <1>5
  <2>2. Alone(a) /\ InOrder(a)
    BY <1>1, <1>2, <2>1 DEF Alone, StoreOrder
  <2> QED
    BY <1>1, <2>2, AloneKeeps DEF InOrder
<1>6. InOrder(c)'
  <2>1. InOrder(c)
    BY DEF StoreOrder
  <2>2. c \notin deleted /\ upcoming'[c] = r /\ pending'[c] = r /\ saves'[c] = Gone /\ saves[c] = Gone
    BY <1>1, <1>2, <2>1 DEF InOrder, Whereabouts, AllGone
  <2>3. Covers(r, c, wire, db[c])
    BY <2>1, <1>1, <1>2, <1>3, CoversMore DEF InOrder, Fresh, Newest
  <2>4. ref[c] \subseteq screen[c]
    BY <2>1, <1>1 DEF InOrder, Above
  <2>5. Fresh(c)'
    BY <1>1, <2>1, <2>2, <2>3 DEF InOrder, Fresh, Newest
  <2>6. Above(c)'
    BY <1>1, <1>3, <2>2, <2>4 DEF Above, Gone
  <2>7. Whereabouts(c)'
    BY <1>1, <1>3, <2>2 DEF Whereabouts
  <2> QED
    BY <1>1, <2>1, <2>5, <2>6, <2>7 DEF InOrder
<1> QED
  BY <1>4, <1>5, <1>6

LEMMA SetKeepsOrder ==
  ASSUME StoreOrder, OnlyUpdates, NEW c \in Chat, NEW u, Set(c, u), Adds(c, u, upcoming[c]),
         UNCHANGED <<phase, deleted>>
  PROVE  OnWire' /\ Still' /\ \A a \in Chat : InOrder(a)'
<1>1. CASE Later(c, u, upcoming[c])
  BY <1>1, LaterKeepsOrder
<1>2. CASE AtOnce(c, u)
  <2>1. Adds(c, u, screen[c])
    BY <1>2 DEF AtOnce, StoreOrder, Still
  <2> QED
    BY <1>2, <2>1, AtOnceKeepsOrder
<1> QED
  BY <1>1, <1>2 DEF Set

LEMMA UpdatesKeepOrder ==
  ASSUME ~SameTick, StoreOrder, NEW c \in Chat, Change(c) \/ Lay(c)
  PROVE  OnWire' /\ Still' /\ \A a \in Chat : InOrder(a)'
<1>1. OnlyUpdates /\ UNCHANGED <<phase, deleted>>
  BY DEF Change, Lay, OnlyUpdates, quit
<1>2. CASE Change(c)
  <2>1. Set(c, Edit(edits')) /\ Adds(c, Edit(edits'), upcoming[c])
    BY <1>2 DEF Change, Adds, Result, Edit, Gone
  <2> QED
    BY <1>1, <2>1, SetKeepsOrder
<1>3. CASE Lay(c)
  <2>1. c \notin deleted /\ ~waits /\ ref = screen /\ upcoming = screen
    BY <1>3 DEF Lay, StoreOrder, Still
  <2>2. CASE ref[c] = Gone
    <3>1. Later(c, Laid(edits', {0}), Added(upcoming[c])) /\ Added(upcoming[c]) = {0}
      BY <1>3, <2>1, <2>2 DEF Lay, Added
    <3>2. Adds(c, Laid(edits', {0}), Added(upcoming[c]))
      BY <2>1, <2>2, <3>1 DEF Adds, Result, Laid, Gone
    <3> QED
      BY <1>1, <2>1, <2>2, <3>1, <3>2, LaterKeepsOrder DEF Gone
  <2>3. CASE ref[c] # Gone
    <3>1. Set(c, Laid(edits', ref[c]))
      BY <1>3, <2>3 DEF Lay
    <3>2. Adds(c, Laid(edits', ref[c]), upcoming[c])
      BY <2>1, <2>3 DEF Adds, Result, Laid, Gone
    <3> QED
      BY <1>1, <3>1, <3>2, SetKeepsOrder
  <2> QED
    BY <2>2, <2>3
<1> QED
  BY <1>2, <1>3

\* Every step keeps the order.
LEMMA StoreOrderKeeps ==
  ASSUME ~SameTick, StoreOrder, [StoreNext]_storeVars
  PROVE  StoreOrder'
<1>1. StoreTypeOK'
  BY StoreTypesKeep DEF StoreOrder
<1>2. CASE Reply \/ Quit \/ Shutdown \/ UNCHANGED storeVars
  BY <1>1, <1>2, QuietKeepsOrder DEF StoreOrder
<1>3. CASE Render \/ Effect \/ Handle \/ Flush \/ Flushed \/ Restart \/ Clear
  BY <1>1, <1>3, RenderKeepsOrder, EffectKeepsOrder, HandleKeepsOrder, FlushKeepsOrder,
     FlushedKeepsOrder, RestartKeepsOrder, ClearKeepsOrder DEF StoreOrder
<1>4. ASSUME NEW c \in Chat, Change(c) \/ Lay(c) \/ Delete(c) \/ Fires(c)
      PROVE  StoreOrder'
  BY <1>1, <1>4, UpdatesKeepOrder, DeleteKeepsOrder, FiresKeepsOrder DEF StoreOrder
<1> QED
  BY <1>2, <1>3, <1>4 DEF StoreNext

\* From the database over the wire and the queue to the screen, no version of a
\* conversation is older than one before it, if no turn is laid out in the tick of another
\* change (queueSessionSave and flushSessionSaves of storage.ts, useSessions.ts).
THEOREM StoreInOrder == ~SameTick /\ StoreSpec => []StoreOrder
<1> SUFFICES ASSUME ~SameTick PROVE StoreSpec => []StoreOrder
  OBVIOUS
<1>1. StoreOrder /\ [StoreNext]_storeVars => StoreOrder'
  BY StoreOrderKeeps
<1> QED
  BY <1>1, StoreOrderStarts, PTL DEF StoreSpec

\* A step never overwrites what a conversation on screen has.
LEMMA NothingLost ==
  ASSUME StoreOrder, [StoreNext]_storeVars, runs' = runs, NEW c \in Chat
  PROVE  screen[c] \subseteq screen'[c] \/ screen'[c] = Gone
<1>1. CASE Render
  BY <1>1 DEF Render, StoreOrder, InOrder, Above
<1>2. CASE ~Render
  <2>1. runs \in Nat
    BY StoreAssumption DEF StoreOrder, StoreTypeOK, StoreAssumption
  <2>2. ~Restart
    BY <2>1 DEF Restart
  <2>3. screen' = screen
    BY <1>2, <2>2 DEF StoreNext, storeVars, window, Effect, Clear, Reply, Handle, Quit, Flush,
       Flushed, Shutdown, Change, Lay, Delete, Fires, OnlyUpdates
  <2> QED
    BY <2>3
<1> QED
  BY <1>1, <1>2

\* A save that is handled adds to what is stored of its conversation.
LEMMA DiskGrows ==
  ASSUME StoreOrder, [StoreNext]_storeVars, NEW c \in Chat
  PROVE  db[c] \subseteq db'[c] \/ db'[c] = Gone
<1>1. CASE Handle
  <2>1. /\ wire # <<>> /\ wire \in Seq(Message) /\ Stored(wire[1], c, db[c], db'[c])
        /\ Rising(c, wire, db[c])
    BY <1>1, Handles DEF StoreOrder, StoreTypeOK, InOrder
  <2>2. 1 \in DOMAIN wire /\ \A k \in DOMAIN wire : ~(k < 1)
    BY <2>1
  <2> QED
    BY <2>1, <2>2 DEF Stored, Rising, Gone
<1>2. CASE ~Handle
  <2>1. db' = db
    BY <1>2 DEF StoreNext, storeVars, Render, Effect, Clear, Reply, Quit, Flush, Flushed, Restart,
       Shutdown, Change, Lay, Delete, Fires, OnlyUpdates
  <2> QED
    BY <2>1
<1> QED
  BY <1>1, <1>2

\* No change disappears from a conversation on screen (scaffold of taskManager.ts,
\* updateSession of useSessions.ts).
THEOREM EditsStay == ~SameTick /\ StoreSpec => NothingOverwritten
<1>1. StoreOrder /\ [StoreNext]_storeVars
        => [runs' = runs => \A c \in Chat : screen[c] \subseteq screen'[c] \/ screen'[c] = Gone]_storeVars
  BY NothingLost
<1> QED
  BY <1>1, StoreInOrder, PTL DEF StoreSpec, NothingOverwritten

\* A save never takes the database back to an older version (saveChat of storage.cjs
\* with the queue of storage.ts).
THEOREM DiskGoesForward == ~SameTick /\ StoreSpec => DiskOnlyForward
<1>1. StoreOrder /\ [StoreNext]_storeVars
        => [\A c \in Chat : db[c] \subseteq db'[c] \/ db'[c] = Gone]_storeVars
  BY DiskGrows
<1> QED
  BY <1>1, StoreInOrder, PTL DEF StoreSpec, DiskOnlyForward

-----------------------------------------------------------------------------
(* What a quit owes.                                                       *)

\* What the window knows to be on disk, or will be told, is there.
KnownThere(c) ==
  c \notin deleted =>
    /\ written[c] \subseteq db[c]
    /\ \A i \in DOMAIN replies :
         replies[i].chat = c /\ replies[i].ok => replies[i].content \subseteq db[c]

\* The next saves have at least what is owed.
Held(c) ==
  /\ owed[c] \subseteq upcoming[c]
  /\ saves[c] # Gone => owed[c] \subseteq saves[c]
  /\ pending[c] # Gone => owed[c] \subseteq pending[c]

OnItsWay(c) ==
  \E i \in DOMAIN wire : Stores(wire[i], c) /\ wire[i].awaited /\ owed[c] \subseteq wire[i].content

\* The last answer is, or the one the window has read was, that it could not be saved.
Refused(c) ==
  /\ \/ \E i \in DOMAIN replies :
          /\ replies[i].chat = c /\ replies[i].awaited
          /\ \A j \in DOMAIN replies : j >= i /\ replies[j].chat = c => ~replies[j].ok
     \/ /\ c \in unsaved
        /\ \A j \in DOMAIN replies : replies[j].chat = c => ~replies[j].ok
  /\ \A i \in DOMAIN wire : Stores(wire[i], c) => owed[c] \subseteq wire[i].content

Kept(c) == owed[c] \subseteq db[c] \/ OnItsWay(c) \/ Refused(c)

OwedKept(c) == phase \notin {"open", "asked"} /\ c \notin deleted => Held(c) /\ Kept(c)

NoneAwaited ==
  (\A i \in DOMAIN wire : ~wire[i].awaited) /\ \A i \in DOMAIN replies : ~replies[i].awaited

\* The window answers when nothing is awaited any more, and nothing is after that.
Told ==
  /\ \A i \in DOMAIN wire : wire[i].op = "flushed" => phase \notin {"open", "asked"} /\ NoneAwaited
  /\ phase = "answered" => NoneAwaited
  /\ phase = "closed" => NoneAwaited \/ owed = AllGone

StoreKept == StoreOrder /\ Told /\ \A c \in Chat : KnownThere(c) /\ OwedKept(c)

LEMMA StoreKeptStarts ==
  ASSUME StoreInit
  PROVE  StoreKept
<1>1. DOMAIN <<>> = {}
  OBVIOUS
<1> QED
  BY <1>1, StoreOrderStarts DEF StoreInit, StoreKept, Told, KnownThere, OwedKept, AllGone, Gone

LEMMA RenderKeepsOwed ==
  ASSUME StoreKept, Render
  PROVE  Told' /\ \A c \in Chat : KnownThere(c)' /\ OwedKept(c)'
<1>1. /\ UNCHANGED <<upcoming, written, wire, replies, db, phase, owed, deleted, unsaved>>
      /\ saves' = AllGone
      /\ pending' = [c \in Chat |-> IF saves[c] # Gone THEN saves[c] ELSE pending[c]]
  BY DEF Render, quit
<1>2. Told' /\ \A c \in Chat : KnownThere(c)'
  BY <1>1 DEF StoreKept, Told, NoneAwaited, KnownThere
<1>3. ASSUME NEW c \in Chat PROVE OwedKept(c)'
  <2>1. Kept(c)' <=> Kept(c)
    BY <1>1 DEF Kept, OnItsWay, Refused
  <2>2. Held(c) => Held(c)'
    BY <1>1 DEF Held, AllGone
  <2> QED
    BY <1>1, <2>1, <2>2 DEF StoreKept, OwedKept
<1> QED
  BY <1>2, <1>3

LEMMA EffectKeepsOwed ==
  ASSUME StoreKept, Effect \/ UNCHANGED storeVars
  PROVE  Told' /\ \A c \in Chat : KnownThere(c)' /\ OwedKept(c)'
<1>1. UNCHANGED <<given, pending, written, wire, replies, db, quit, deleted, unsaved>>
  BY DEF Effect, storeVars, window
<1>2. Told' /\ \A c \in Chat : KnownThere(c)'
  BY <1>1 DEF StoreKept, Told, NoneAwaited, KnownThere, quit
<1>3. ASSUME NEW c \in Chat PROVE OwedKept(c)'
  <2>1. Kept(c)' <=> Kept(c)
    BY <1>1 DEF Kept, OnItsWay, Refused, quit
  <2>2. Held(c) => Held(c)'
    BY <1>1 DEF Held, given, quit
  <2> QED
    BY <1>1, <2>1, <2>2 DEF StoreKept, OwedKept, quit
<1> QED
  BY <1>2, <1>3

\* An update adds to what a conversation will be.
LEMMA UpdatesAdd ==
  ASSUME ~SameTick, StoreOrder, NEW c \in Chat, Change(c) \/ Lay(c), NEW a \in Chat
  PROVE  /\ upcoming[a] \subseteq upcoming'[a]
         /\ saves'[a] = saves[a] \/ upcoming[a] \subseteq saves'[a]
         /\ pending'[a] = pending[a] \/ upcoming[a] \subseteq pending'[a]
<1>1. {upcoming, saves, pending} \subseteq [Chat -> Version] /\ (~waits => upcoming = screen)
  BY DEF StoreOrder, StoreTypeOK, Still
<1>2. CASE Change(c)
  <2>1. Set(c, Edit(edits'))
    BY <1>2 DEF Change
  <2>2. \A v : v \subseteq Result(Edit(edits'), v)
    BY DEF Result, Edit, Gone
  <2>3. CASE Later(c, Edit(edits'), upcoming[c])
    BY <1>1, <2>2, <2>3 DEF Later
  <2>4. CASE AtOnce(c, Edit(edits'))
    BY <1>1, <2>2, <2>4 DEF AtOnce
  <2> QED
    BY <2>1, <2>3, <2>4 DEF Set
<1>3. CASE Lay(c)
  <2>1. ~waits /\ ref = screen /\ upcoming = screen
    BY <1>1, <1>3 DEF Lay
  <2>2. CASE ref[c] = Gone
    <3>1. Later(c, Laid(edits', {0}), Added(upcoming[c]))
      BY <1>3, <2>2 DEF Lay
    <3>2. upcoming[c] = {}
      BY <2>1, <2>2 DEF Gone
    <3> QED
      BY <1>1, <3>1, <3>2 DEF Later
  <2>3. CASE ref[c] # Gone
    <3>1. Set(c, Laid(edits', ref[c]))
      BY <1>3, <2>3 DEF Lay
    <3>2. upcoming[c] \subseteq Result(Laid(edits', ref[c]), upcoming[c])
      BY <2>1, <2>3 DEF Result, Laid
    <3>3. CASE Later(c, Laid(edits', ref[c]), upcoming[c])
      BY <1>1, <3>2, <3>3 DEF Later
    <3>4. CASE AtOnce(c, Laid(edits', ref[c]))
      BY <1>1, <2>1, <3>2, <3>4 DEF AtOnce
    <3> QED
      BY <3>1, <3>3, <3>4 DEF Set
  <2> QED
    BY <2>2, <2>3
<1> QED
  BY <1>2, <1>3

LEMMA UpdatesKeepOwed ==
  ASSUME ~SameTick, StoreKept, NEW c \in Chat, Change(c) \/ Lay(c)
  PROVE  Told' /\ \A a \in Chat : KnownThere(a)' /\ OwedKept(a)'
<1>1. UNCHANGED <<written, wire, replies, db, quit, deleted, unsaved>>
  BY DEF Change, Lay, OnlyUpdates
<1>2. Told' /\ \A a \in Chat : KnownThere(a)'
  BY <1>1 DEF StoreKept, Told, NoneAwaited, KnownThere, quit
<1>3. ASSUME NEW a \in Chat PROVE OwedKept(a)'
  <2>1. Kept(a)' <=> Kept(a)
    BY <1>1 DEF Kept, OnItsWay, Refused, quit
  <2>2. /\ upcoming[a] \subseteq upcoming'[a]
        /\ saves'[a] = saves[a] \/ upcoming[a] \subseteq saves'[a]
        /\ pending'[a] = pending[a] \/ upcoming[a] \subseteq pending'[a]
    BY UpdatesAdd DEF StoreKept
  <2>3. Held(a) => Held(a)'
    BY <1>1, <2>2 DEF Held, quit
  <2> QED
    BY <1>1, <2>1, <2>3 DEF StoreKept, OwedKept, quit
<1> QED
  BY <1>2, <1>3

LEMMA AnswersKeepOwed ==
  ASSUME StoreKept, Reply
  PROVE  Told' /\ \A c \in Chat : KnownThere(c)' /\ OwedKept(c)'
<1> DEFINE r == Head(replies)
<1>1. /\ replies # <<>> /\ replies \in Seq(AnswerToSave) /\ replies' = Tail(replies)
      /\ written' = IF r.ok THEN [written EXCEPT ![r.chat] = r.content] ELSE written
      /\ unsaved' = IF r.ok THEN unsaved \ {r.chat} ELSE unsaved \cup {r.chat}
      /\ UNCHANGED <<window, wire, db, quit, deleted>> /\ written \in [Chat -> Version]
  BY DEF Reply, StoreKept, StoreOrder, StoreTypeOK
<1>2. r = replies[1] /\ 1 \in DOMAIN replies /\ r \in AnswerToSave
  BY <1>1
<1>3. \A i \in DOMAIN replies' : i + 1 \in DOMAIN replies /\ replies'[i] = replies[i + 1] /\ i \in Int
  BY <1>1
<1>4. \A k \in DOMAIN replies : k # 1 =>
        k \in Int /\ k - 1 \in DOMAIN replies' /\ replies'[k - 1] = replies[k]
  BY <1>1
<1> HIDE DEF r
<1>5. Told'
  BY <1>1, <1>3 DEF StoreKept, Told, NoneAwaited, quit
<1>6. ASSUME NEW c \in Chat PROVE KnownThere(c)'
  <2>1. c \notin deleted => written'[c] \subseteq db[c]
    BY <1>1, <1>2 DEF StoreKept, KnownThere
  <2> QED
    BY <1>1, <1>3, <2>1 DEF StoreKept, KnownThere
<1>7. ASSUME NEW c \in Chat PROVE OwedKept(c)'
  <2>1. Held(c) => Held(c)'
    BY <1>1 DEF Held, window, given, quit
  <2>2. OnItsWay(c) => OnItsWay(c)'
    BY <1>1 DEF OnItsWay, quit
  <2>3. ASSUME Refused(c) PROVE Refused(c)'
    <3>1. ASSUME NEW i \in DOMAIN replies, replies[i].chat = c, replies[i].awaited,
                 \A j \in DOMAIN replies : j >= i /\ replies[j].chat = c => ~replies[j].ok
          PROVE  Refused(c)'
      <4>1. CASE i = 1
        <5>1. ~r.ok /\ r.chat = c /\ c \in unsaved'
          BY <1>1, <1>2, <3>1, <4>1
        <5>2. \A j \in DOMAIN replies' : replies'[j].chat = c => ~replies'[j].ok
          BY <1>1, <1>3, <3>1, <4>1
        <5> QED
          BY <1>1, <2>3, <5>1, <5>2 DEF Refused, quit
      <4>2. CASE i # 1
        <5>1. /\ i - 1 \in DOMAIN replies' /\ replies'[i - 1].chat = c /\ replies'[i - 1].awaited
              /\ \A j \in DOMAIN replies' : j >= i - 1 /\ replies'[j].chat = c => ~replies'[j].ok
          BY <1>3, <1>4, <3>1, <4>2
        <5> QED
          BY <1>1, <2>3, <5>1 DEF Refused, quit
      <4> QED
        BY <4>1, <4>2
    <3>2. ASSUME c \in unsaved, \A j \in DOMAIN replies : replies[j].chat = c => ~replies[j].ok
          PROVE  Refused(c)'
      <4>1. c \in unsaved'
        BY <1>1, <1>2, <3>2
      <4>2. \A j \in DOMAIN replies' : replies'[j].chat = c => ~replies'[j].ok
        BY <1>3, <3>2
      <4> QED
        BY <1>1, <2>3, <4>1, <4>2 DEF Refused, quit
    <3> QED
      BY <2>3, <3>1, <3>2 DEF Refused
  <2> QED
    BY <1>1, <2>1, <2>2, <2>3 DEF StoreKept, OwedKept, Kept, quit
<1> QED
  BY <1>5, <1>6, <1>7

LEMMA EndsKeepOwed ==
  ASSUME StoreKept, Quit \/ Shutdown \/ Restart
  PROVE  Told' /\ \A c \in Chat : KnownThere(c)' /\ OwedKept(c)'
<1>1. CASE Quit
  BY <1>1 DEF Quit, StoreKept, Told, NoneAwaited, KnownThere, OwedKept
<1>2. CASE Shutdown
  <2>1. /\ UNCHANGED <<window, written, wire, replies, db, deleted, unsaved>> /\ phase' = "closed"
        /\ phase \in {"asked", "flushing", "answered"}
        /\ owed' = IF phase = "answered" THEN owed ELSE AllGone
    BY <1>2 DEF Shutdown
  <2>2. NoneAwaited' <=> NoneAwaited
    BY <2>1 DEF NoneAwaited
  <2>3. (\A i \in DOMAIN wire : wire[i].op = "flushed" => NoneAwaited)
        /\ (phase = "answered" => NoneAwaited)
    BY DEF StoreKept, Told
  <2>4. Told'
    BY <2>1, <2>2, <2>3 DEF Told
  <2>5. ASSUME NEW c \in Chat PROVE KnownThere(c)' /\ OwedKept(c)'
    <3>1. KnownThere(c)'
      BY <2>1 DEF StoreKept, KnownThere
    <3>2. CASE owed' = owed /\ phase = "answered"
      <4>1. Kept(c)' <=> Kept(c)
        BY <2>1, <3>2 DEF Kept, OnItsWay, Refused
      <4>2. Held(c)' <=> Held(c)
        BY <2>1, <3>2 DEF Held, window, given
      <4> QED
        BY <2>1, <3>1, <3>2, <4>1, <4>2 DEF StoreKept, OwedKept
    <3>3. CASE owed' = AllGone
      <4>1. owed'[c] = {}
        BY <3>3 DEF AllGone, Gone
      <4> QED
        BY <4>1, <3>1 DEF OwedKept, Held, Kept, Gone
    <3> QED
      BY <2>1, <3>1, <3>2, <3>3
  <2> QED
    BY <2>4, <2>5
<1>3. CASE Restart
  <2>1. wire' = <<>> /\ replies' = <<>> /\ written' = db /\ db' = db /\ phase' = "open" /\ DOMAIN <<>> = {}
    BY <1>3 DEF Restart
  <2> QED
    BY <2>1 DEF Told, KnownThere, OwedKept
<1> QED
  BY <1>1, <1>2, <1>3

\* What is sent is not awaited, and has what is owed of its conversation.
LEMMA SentKeepsOwed ==
  ASSUME StoreKept, NEW m \in Message, wire' = Append(wire, m), ~m.awaited,
         UNCHANGED <<written, replies, db, phase, owed, unsaved>>, deleted \subseteq deleted',
         m.op = "flushed" => phase \notin {"open", "asked"} /\ NoneAwaited,
         \A c \in Chat \ deleted' : Held(c) => Held(c)' /\ (Stores(m, c) => owed[c] \subseteq m.content)
  PROVE  Told' /\ \A c \in Chat : KnownThere(c)' /\ OwedKept(c)'
<1>1. /\ DOMAIN wire \subseteq DOMAIN wire' /\ \A i \in DOMAIN wire : wire'[i] = wire[i]
      /\ \A i \in DOMAIN wire' : (i \in DOMAIN wire /\ wire'[i] = wire[i]) \/ wire'[i] = m
  BY Appended DEF StoreKept, StoreOrder
<1>2. NoneAwaited' <=> NoneAwaited
  BY <1>1 DEF NoneAwaited
<1>3. Told'
  BY <1>1, <1>2 DEF StoreKept, Told
<1>4. ASSUME NEW c \in Chat PROVE KnownThere(c)' /\ OwedKept(c)'
  <2>1. KnownThere(c)'
    BY DEF StoreKept, KnownThere
  <2>2. ASSUME c \notin deleted', Held(c), Kept(c) PROVE Kept(c)'
    <3>1. OnItsWay(c) => OnItsWay(c)'
      BY <1>1 DEF OnItsWay
    <3>2. Refused(c) => Refused(c)'
      BY <1>1, <2>2 DEF Refused
    <3> QED
      BY <2>2, <3>1, <3>2 DEF Kept
  <2> QED
    BY <2>1, <2>2 DEF StoreKept, OwedKept
<1> QED
  BY <1>3, <1>4

LEMMA FiresKeepsOwed ==
  ASSUME StoreKept, NEW c \in Chat, Fires(c)
  PROVE  Told' /\ \A a \in Chat : KnownThere(a)' /\ OwedKept(a)'
<1> DEFINE m == Save(c, pending[c])
<1>1. /\ wire' = Append(wire, m) /\ UNCHANGED <<given, written, replies, db, phase, owed, unsaved, deleted>>
      /\ pending' = [pending EXCEPT ![c] = Gone] /\ pending \in [Chat -> Version] /\ pending[c] # Gone
  BY DEF Fires, StoreKept, StoreOrder, StoreTypeOK, quit
<1>2. /\ m \in Message /\ m.op = "save" /\ m.chats = {c} /\ m.content = pending[c] /\ ~m.awaited
  BY <1>1 DEF Save, Message
<1> HIDE DEF m
<1>3. ASSUME NEW a \in Chat, Held(a)
      PROVE  Held(a)' /\ (Stores(m, a) => owed[a] \subseteq m.content)
  BY <1>1, <1>2, <1>3 DEF Held, Stores, given
<1> QED
  BY <1>1, <1>2, <1>3, SentKeepsOwed

LEMMA FlushedKeepsOwed ==
  ASSUME StoreKept, Flushed
  PROVE  Told' /\ \A a \in Chat : KnownThere(a)' /\ OwedKept(a)'
<1> DEFINE m == [op |-> "flushed", chats |-> {}, content |-> Gone, awaited |-> FALSE]
<1>1. /\ wire' = Append(wire, m) /\ UNCHANGED <<window, written, replies, db, phase, owed, unsaved, deleted>>
      /\ phase = "flushing" /\ NoneAwaited
  BY DEF Flushed, quit, NoneAwaited
<1>2. m \in Message /\ m.op = "flushed" /\ ~m.awaited
  BY Versions DEF Message
<1> HIDE DEF m
<1>3. ASSUME NEW a \in Chat, Held(a)
      PROVE  Held(a)' /\ (Stores(m, a) => owed[a] \subseteq m.content)
  BY <1>1, <1>2, <1>3 DEF Held, Stores, window, given
<1> QED
  BY <1>1, <1>2, <1>3, SentKeepsOwed

LEMMA RemovalsKeepOwed ==
  ASSUME StoreKept, Clear \/ \E c \in Chat : Delete(c)
  PROVE  Told' /\ \A a \in Chat : KnownThere(a)' /\ OwedKept(a)'
<1>1. CASE Clear
  <2> DEFINE m == Deletion(Chat)
  <2>1. /\ wire' = Append(wire, m) /\ UNCHANGED <<replies, db, phase, owed, unsaved>> /\ deleted' = Chat
    BY <1>1 DEF Clear, quit
  <2>2. /\ m \in Message /\ m.op = "delete" /\ ~m.awaited
    BY Versions DEF Deletion, Message
  <2> HIDE DEF m
  <2>3. /\ DOMAIN wire' = 1..Len(wire')
        /\ \A i \in DOMAIN wire' : (i \in DOMAIN wire /\ wire'[i] = wire[i]) \/ wire'[i] = m
    BY <2>1, <2>2, Appended DEF StoreKept, StoreOrder
  <2>4. NoneAwaited => NoneAwaited'
    BY <2>1, <2>2, <2>3 DEF NoneAwaited
  <2>5. Told'
    BY <2>1, <2>2, <2>3, <2>4 DEF StoreKept, Told
  <2> QED
    BY <2>1, <2>5 DEF KnownThere, OwedKept
<1>2. ASSUME NEW c \in Chat, Delete(c)
      PROVE  Told' /\ \A a \in Chat : KnownThere(a)' /\ OwedKept(a)'
  <2> DEFINE m == Deletion({c})
  <2>1. /\ wire' = Append(wire, m) /\ UNCHANGED <<replies, db, phase, owed, unsaved>>
        /\ deleted' = deleted \cup {c}
    BY <1>2 DEF Delete, quit
  <2>2. m \in Message /\ m.op = "delete" /\ ~m.awaited
    BY Versions DEF Deletion, Message
  <2>3. \A a \in Chat \ {c} : /\ upcoming'[a] = upcoming[a] /\ pending'[a] = pending[a]
                              /\ saves'[a] = saves[a] /\ written'[a] = written[a]
    BY <1>2 DEF Delete, StoreKept, StoreOrder, StoreTypeOK
  <2> HIDE DEF m
  <2>4. /\ DOMAIN wire \subseteq DOMAIN wire' /\ \A i \in DOMAIN wire : wire'[i] = wire[i]
        /\ \A i \in DOMAIN wire' : (i \in DOMAIN wire /\ wire'[i] = wire[i]) \/ wire'[i] = m
    BY <2>1, <2>2, Appended DEF StoreKept, StoreOrder
  <2>5. NoneAwaited' <=> NoneAwaited
    BY <2>1, <2>2, <2>4 DEF NoneAwaited
  <2>6. Told'
    BY <2>1, <2>2, <2>4, <2>5 DEF StoreKept, Told
  <2>7. ASSUME NEW a \in Chat PROVE KnownThere(a)' /\ OwedKept(a)'
    <3>1. CASE a = c
      BY <2>1, <3>1 DEF KnownThere, OwedKept
    <3>2. CASE a # c
      <4>1. KnownThere(a)'
        BY <2>1, <2>3, <3>2 DEF StoreKept, KnownThere
      <4>2. Held(a) => Held(a)'
        BY <2>1, <2>3, <3>2 DEF Held
      <4>3. OnItsWay(a) => OnItsWay(a)'
        BY <2>1, <2>4 DEF OnItsWay
      <4>4. Refused(a) => Refused(a)'
        BY <2>1, <2>2, <2>4 DEF Refused, Stores
      <4> QED
        BY <2>1, <4>1, <4>2, <4>3, <4>4, <3>2 DEF StoreKept, OwedKept, Kept
    <3> QED
      BY <3>1, <3>2
  <2> QED
    BY <2>6, <2>7
<1> QED
  BY <1>1, <1>2

\* A flush awaits all that is under way, and sends what is not.
LEMMA FlushKeepsOwed ==
  ASSUME StoreKept, Flush
  PROVE  Told' /\ \A c \in Chat : KnownThere(c)' /\ OwedKept(c)'
<1>1. /\ UNCHANGED <<screen, ref, given, written, db, deleted>> /\ pending' = AllGone
      /\ phase = "asked" /\ phase' = "flushing"
      /\ owed' = [c \in Chat |-> IF pending[c] # Gone THEN pending[c] ELSE ref[c]]
      /\ replies' = [i \in DOMAIN replies |-> [replies[i] EXCEPT !.awaited = TRUE]]
  BY DEF Flush
<1>2. /\ wire' \in Seq(Message) /\ Continues(wire, wire')
      /\ \A i \in DOMAIN wire' : wire'[i].op = "save" => wire'[i].awaited = TRUE
      /\ \A i \in DOMAIN wire' \ DOMAIN wire : \E c \in Chat :
           /\ wire'[i].op = "save" /\ wire'[i].chats = {c}
           /\ wire'[i].content = Due(c) /\ Due(c) # Gone
      /\ \A c \in Chat : Due(c) # Gone =>
           \E i \in DOMAIN wire' \ DOMAIN wire : Stores(wire'[i], c) /\ wire'[i].content = Due(c)
  BY Sent DEF StoreKept, StoreOrder
<1>3. DOMAIN wire \subseteq DOMAIN wire'
  BY <1>2 DEF Continues, StoreKept, StoreOrder, StoreTypeOK
<1>4. DOMAIN replies' = DOMAIN replies
      /\ \A i \in DOMAIN replies : /\ replies'[i].chat = replies[i].chat /\ replies'[i].ok = replies[i].ok
                                  /\ replies'[i].content = replies[i].content /\ replies'[i].awaited
  <2>1. \A i \in DOMAIN replies : replies[i] \in AnswerToSave
    BY DEF StoreKept, StoreOrder, StoreTypeOK
  <2>2. \A i \in DOMAIN replies : replies'[i] = [replies[i] EXCEPT !.awaited = TRUE]
    BY <1>1
  <2>3. DOMAIN replies' = DOMAIN replies
    BY <1>1
  <2> QED
    BY <2>1, <2>2, <2>3 DEF AnswerToSave
<1>5. Told'
  <2>1. \A i \in DOMAIN wire' : wire'[i].op # "flushed"
    BY <1>1, <1>2 DEF Continues, StoreKept, Told
  <2> QED
    BY <1>1, <2>1 DEF Told
<1>6. ASSUME NEW c \in Chat PROVE KnownThere(c)'
  BY <1>1, <1>4 DEF StoreKept, KnownThere
<1>7. ASSUME NEW c \in Chat, c \notin deleted PROVE Held(c)' /\ Kept(c)'
  <2>1. /\ owed'[c] = IF pending[c] # Gone THEN pending[c] ELSE ref[c]
        /\ pending'[c] = Gone /\ InOrder(c)
    BY <1>1 DEF AllGone, StoreKept, StoreOrder
  <2>2. Held(c)'
    <3>1. owed'[c] \subseteq upcoming[c]
      BY <1>7, <2>1 DEF InOrder, Above, Whereabouts
    <3>2. saves[c] # Gone => owed'[c] \subseteq saves[c]
      BY <2>1 DEF InOrder, Above
    <3> QED
      BY <1>1, <2>1, <3>1, <3>2 DEF Held, given
  <2>3. CASE Due(c) # Gone
    <3>1. owed'[c] = Due(c)
      BY <2>1, <2>3 DEF Due
    <3>2. PICK i \in DOMAIN wire' : Stores(wire'[i], c) /\ wire'[i].content = Due(c)
      BY <1>2, <2>3
    <3>3. wire'[i].awaited = TRUE
      BY <1>2, <3>2 DEF Stores
    <3>4. OnItsWay(c)'
      BY <3>1, <3>2, <3>3 DEF OnItsWay
    <3> QED
      BY <2>2, <3>4 DEF Kept
  <2>4. CASE Due(c) = Gone
    <3>1. owed'[c] = ref[c] /\ (ref[c] = Gone \/ ref[c] = written[c] \/ InFlight(c, ref[c]))
      BY <2>1, <2>4 DEF Due
    <3>2. CASE ref[c] = Gone \/ ref[c] = written[c]
      BY <1>1, <1>7, <2>2, <3>1, <3>2 DEF Kept, StoreKept, KnownThere, Gone
    <3>3. CASE InFlight(c, ref[c]) /\ SavesOf(c) # {}
      <4>1. PICK i \in SavesOf(c) : wire[i].content = ref[c]
        BY <3>3 DEF InFlight
      <4>2. i \in DOMAIN wire' /\ Stores(wire'[i], c) /\ wire'[i].content = ref[c]
        BY <1>2, <1>3, <4>1 DEF SavesOf, Continues, Stores
      <4>3. wire'[i].awaited = TRUE
        BY <1>2, <4>2 DEF Stores
      <4> QED
        BY <2>2, <3>1, <4>2, <4>3 DEF Kept, OnItsWay
    <3>4. CASE InFlight(c, ref[c]) /\ SavesOf(c) = {}
      <4>1. PICK i \in AnswersOf(c) : replies[i].content = ref[c] /\ \A j \in AnswersOf(c) : j <= i
        BY <3>4 DEF InFlight
      <4>2. CASE replies[i].ok
        BY <1>1, <1>7, <2>2, <3>1, <4>1, <4>2 DEF Kept, StoreKept, KnownThere, AnswersOf
      <4>3. CASE ~replies[i].ok
        <5>1. ASSUME NEW j \in DOMAIN wire' PROVE ~Stores(wire'[j], c)
          <6>1. CASE j \in DOMAIN wire
            BY <1>2, <3>4, <6>1 DEF Continues, SavesOf, Stores
          <6>2. CASE j \notin DOMAIN wire
            BY <1>2, <2>4, <5>1, <6>2 DEF Stores
          <6> QED
            BY <6>1, <6>2
        <5>2. DOMAIN replies \subseteq Int
          BY DEF StoreKept, StoreOrder, StoreTypeOK
        <5>3. \A j \in DOMAIN replies : j >= i /\ replies[j].chat = c => j = i
          BY <4>1, <5>2 DEF AnswersOf
        <5> QED
          BY <1>4, <2>2, <4>1, <4>3, <5>1, <5>3 DEF Kept, Refused, AnswersOf
      <4> QED
        BY <4>2, <4>3
    <3> QED
      BY <3>1, <3>2, <3>3, <3>4
  <2> QED
    BY <2>3, <2>4
<1> QED
  BY <1>1, <1>5, <1>6, <1>7 DEF OwedKept

\* An answer is added.
LEMMA Answered ==
  ASSUME NEW rs \in Seq(AnswerToSave), NEW a \in AnswerToSave, NEW rs2, rs2 = Append(rs, a)
  PROVE  /\ DOMAIN rs \subseteq DOMAIN rs2 /\ DOMAIN rs2 \subseteq Int
         /\ \A i \in DOMAIN rs : rs2[i] = rs[i] /\ i < Len(rs) + 1
         /\ Len(rs) + 1 \in DOMAIN rs2 /\ rs2[Len(rs) + 1] = a
         /\ \A i \in DOMAIN rs2 : i \in DOMAIN rs \/ i = Len(rs) + 1
<1>1. rs2 \in Seq(AnswerToSave) /\ Len(rs2) = Len(rs) + 1
  OBVIOUS
<1> QED
  BY <1>1

\* A message that stores nothing of a conversation changes nothing of what is owed of it.
LEMMA ElsewhereKeepsOwed ==
  ASSUME StoreKept, NEW c \in Chat, c \notin deleted, wire # <<>>, wire' = Tail(wire),
         ~Stores(wire[1], c), db'[c] = db[c], UNCHANGED <<written, owed, deleted, unsaved>>,
         \/ replies' = replies
         \/ \E a \in AnswerToSave : a.chat # c /\ replies' = Append(replies, a)
  PROVE  KnownThere(c)' /\ (Kept(c) => Kept(c)')
<1>1. wire \in Seq(Message) /\ replies \in Seq(AnswerToSave)
  BY DEF StoreKept, StoreOrder, StoreTypeOK
<1>2. \A i \in DOMAIN wire' : i + 1 \in DOMAIN wire /\ wire'[i] = wire[i + 1]
  BY <1>1
<1>3. \A k \in DOMAIN wire : k # 1 => k - 1 \in DOMAIN wire' /\ wire'[k - 1] = wire[k]
  BY <1>1
<1>4. /\ DOMAIN replies \subseteq DOMAIN replies'
      /\ \A i \in DOMAIN replies : replies'[i] = replies[i]
      /\ \A i \in DOMAIN replies' : i \in DOMAIN replies \/ replies'[i].chat # c
  <2>1. CASE replies' = replies
    BY <2>1
  <2>2. ASSUME NEW a \in AnswerToSave, a.chat # c, replies' = Append(replies, a)
        PROVE  /\ DOMAIN replies \subseteq DOMAIN replies'
               /\ \A i \in DOMAIN replies : replies'[i] = replies[i]
               /\ \A i \in DOMAIN replies' : i \in DOMAIN replies \/ replies'[i].chat # c
    BY <1>1, <2>2, Answered
  <2> QED
    BY <2>1, <2>2
<1>5. KnownThere(c)'
  BY <1>4 DEF StoreKept, KnownThere
<1>6. OnItsWay(c) => OnItsWay(c)'
  BY <1>3 DEF OnItsWay
<1>7. Refused(c) => Refused(c)'
  BY <1>2, <1>4 DEF Refused
<1> QED
  BY <1>5, <1>6, <1>7 DEF Kept

\* A save that is handled stores what is owed, or is refused and answered so.
LEMMA SaveKeepsOwed ==
  ASSUME StoreKept, NEW c \in Chat, c \notin deleted, wire # <<>>, wire' = Tail(wire),
         Stores(wire[1], c), UNCHANGED <<written, owed, deleted, unsaved>>,
         NEW ok \in BOOLEAN,
         db'[c] = IF ok THEN wire[1].content ELSE db[c],
         replies' = Append(replies, Answer(wire[1], c, ok))
  PROVE  KnownThere(c)' /\ (Kept(c) => Kept(c)')
<1> DEFINE a == Answer(wire[1], c, ok)
           n == Len(replies) + 1
<1>1. wire \in Seq(Message) /\ replies \in Seq(AnswerToSave) /\ Rising(c, wire, db[c])
  BY DEF StoreKept, StoreOrder, StoreTypeOK, InOrder
<1>2. 1 \in DOMAIN wire /\ wire[1] \in Message /\ DOMAIN wire \subseteq Int /\ \A k \in DOMAIN wire : k >= 1
  BY <1>1
<1>3. \A i \in DOMAIN wire' : i + 1 \in DOMAIN wire /\ i + 1 > 1 /\ wire'[i] = wire[i + 1]
  BY <1>1
<1>4. \A k \in DOMAIN wire : k # 1 => k - 1 \in DOMAIN wire' /\ wire'[k - 1] = wire[k]
  BY <1>1
<1>5. a \in AnswerToSave /\ a.chat = c /\ a.content = wire[1].content /\ a.ok = ok
      /\ a.awaited = wire[1].awaited
  BY <1>2 DEF Answer, AnswerToSave, Message
<1> HIDE DEF a
<1>6. replies' = Append(replies, a)
  BY DEF a
<1>7. /\ DOMAIN replies \subseteq DOMAIN replies' /\ DOMAIN replies' \subseteq Int
      /\ \A i \in DOMAIN replies : replies'[i] = replies[i] /\ i < n
      /\ n \in DOMAIN replies' /\ replies'[n] = a
      /\ \A i \in DOMAIN replies' : i \in DOMAIN replies \/ i = n
  BY <1>1, <1>5, <1>6, Answered
<1> HIDE DEF n
<1>8. \A k \in DOMAIN wire : ~Erases(wire[k], c)
  BY DEF StoreKept, StoreOrder, OnWire, Erases
<1>9. db[c] \subseteq wire[1].content
  BY <1>1, <1>2, <1>8 DEF Rising
<1>10. \A i \in DOMAIN wire' : Stores(wire'[i], c) => wire[1].content \subseteq wire'[i].content
  BY <1>1, <1>2, <1>3, <1>8 DEF Rising
<1>11. KnownThere(c)'
  <2>1. db[c] \subseteq db'[c] /\ (ok => db'[c] = wire[1].content)
    BY <1>9
  <2>2. \A i \in DOMAIN replies' :
          replies'[i].chat = c /\ replies'[i].ok => replies'[i].content \subseteq db'[c]
    BY <1>5, <1>7, <2>1 DEF StoreKept, KnownThere
  <2> QED
    BY <2>1, <2>2 DEF StoreKept, KnownThere
<1>12. ASSUME owed[c] \subseteq db[c] PROVE Kept(c)'
  BY <1>9, <1>12 DEF Kept
<1>13. ASSUME OnItsWay(c) PROVE Kept(c)'
  <2>1. PICK i \in DOMAIN wire : Stores(wire[i], c) /\ wire[i].awaited /\ owed[c] \subseteq wire[i].content
    BY <1>13 DEF OnItsWay
  <2>2. CASE i # 1
    BY <1>4, <2>1, <2>2 DEF Kept, OnItsWay
  <2>3. CASE i = 1 /\ ok
    BY <2>1, <2>3 DEF Kept
  <2>4. CASE i = 1 /\ ~ok
    <3>1. /\ replies'[n].chat = c /\ replies'[n].awaited
          /\ \A j \in DOMAIN replies' : j >= n /\ replies'[j].chat = c => ~replies'[j].ok
      BY <1>5, <1>7, <2>1, <2>4
    <3>2. \A j \in DOMAIN wire' : Stores(wire'[j], c) => owed[c] \subseteq wire'[j].content
      BY <1>10, <2>1, <2>4
    <3> QED
      BY <1>7, <3>1, <3>2 DEF Kept, Refused
  <2> QED
    BY <2>2, <2>3, <2>4
<1>14. ASSUME Refused(c) PROVE Kept(c)'
  <2>1. CASE ok
    BY <1>2, <1>14, <2>1 DEF Kept, Refused
  <2>2. CASE ~ok
    <3>1. \A j \in DOMAIN wire' : Stores(wire'[j], c) => owed[c] \subseteq wire'[j].content
      BY <1>3, <1>14 DEF Refused
    <3>2. ASSUME NEW i \in DOMAIN replies, replies[i].chat = c, replies[i].awaited,
                 \A j \in DOMAIN replies : j >= i /\ replies[j].chat = c => ~replies[j].ok
          PROVE  Refused(c)'
      <4>1. /\ i \in DOMAIN replies' /\ replies'[i].chat = c /\ replies'[i].awaited
            /\ \A j \in DOMAIN replies' : j >= i /\ replies'[j].chat = c => ~replies'[j].ok
        BY <1>5, <1>7, <2>2, <3>2
      <4> QED
        BY <3>1, <4>1 DEF Refused
    <3>3. ASSUME c \in unsaved, \A j \in DOMAIN replies : replies[j].chat = c => ~replies[j].ok
          PROVE  Refused(c)'
      <4>1. \A j \in DOMAIN replies' : replies'[j].chat = c => ~replies'[j].ok
        BY <1>5, <1>7, <2>2, <3>3
      <4> QED
        BY <3>1, <3>3, <4>1 DEF Refused
    <3> QED
      BY <1>14, <3>2, <3>3 DEF Kept, Refused
  <2> QED
    BY <2>1, <2>2
<1> QED
  BY <1>11, <1>12, <1>13, <1>14 DEF Kept

LEMMA HandleKeepsOwed ==
  ASSUME StoreKept, Handle
  PROVE  Told' /\ \A c \in Chat : KnownThere(c)' /\ OwedKept(c)'
<1>1. /\ wire # <<>> /\ wire' = Tail(wire) /\ UNCHANGED <<window, written, owed, deleted, unsaved>>
      /\ wire \in Seq(Message) /\ replies \in Seq(AnswerToSave) /\ db \in [Chat -> Version]
      /\ Head(wire) = wire[1] /\ 1 \in DOMAIN wire /\ wire[1] \in Message
      /\ phase # "closed"
  BY DEF Handle, StoreKept, StoreOrder, StoreTypeOK, Alive
<1>2. \A i \in DOMAIN wire' : i + 1 \in DOMAIN wire /\ wire'[i] = wire[i + 1]
  BY <1>1
<1>3. ASSUME NEW c \in Chat PROVE Held(c) => Held(c)'
  BY <1>1 DEF Held, window, given
<1>4. CASE wire[1].op = "save"
  <2>1. PICK e \in wire[1].chats, ok \in BOOLEAN :
          /\ db' = IF ok THEN [db EXCEPT ![e] = wire[1].content] ELSE db
          /\ replies' = Append(replies, Answer(wire[1], e, ok)) /\ phase' = phase
    BY <1>1, <1>4 DEF Handle
  <2>2. wire[1].chats = {e} /\ e \in Chat
    BY <1>1, <1>4, <2>1 DEF StoreKept, StoreOrder, OnWire, Message
  <2>3. Answer(wire[1], e, ok) \in AnswerToSave /\ Answer(wire[1], e, ok).chat = e
        /\ Answer(wire[1], e, ok).awaited = wire[1].awaited
    BY <1>1, <2>2 DEF Answer, AnswerToSave, Message
  <2>4. NoneAwaited => NoneAwaited'
    <3>1. \A i \in DOMAIN replies' :
            (i \in DOMAIN replies /\ replies'[i] = replies[i]) \/ replies'[i] = Answer(wire[1], e, ok)
      BY <1>1, <2>1, <2>3, Answered
    <3> QED
      BY <1>1, <1>2, <2>3, <3>1 DEF NoneAwaited
  <2>5. Told'
    BY <1>1, <1>2, <2>1, <2>4 DEF StoreKept, Told
  <2>6. ASSUME NEW c \in Chat PROVE KnownThere(c)' /\ OwedKept(c)'
    <3>1. CASE c \in deleted
      BY <1>1, <3>1 DEF KnownThere, OwedKept
    <3>2. CASE c \notin deleted /\ c = e
      <4>1. Stores(wire[1], c) /\ db'[c] = IF ok THEN wire[1].content ELSE db[c]
        BY <1>1, <1>4, <2>1, <2>2, <3>2 DEF Stores
      <4>2. KnownThere(c)' /\ (Kept(c) => Kept(c)')
        BY <1>1, <2>1, <3>2, <4>1, SaveKeepsOwed
      <4> QED
        BY <1>1, <1>3, <2>1, <3>2, <4>2 DEF StoreKept, OwedKept
    <3>3. CASE c \notin deleted /\ c # e
      <4>1. ~Stores(wire[1], c) /\ db'[c] = db[c]
        BY <1>1, <2>1, <2>2, <3>3 DEF Stores
      <4>2. KnownThere(c)' /\ (Kept(c) => Kept(c)')
        BY <1>1, <2>1, <2>3, <3>3, <4>1, ElsewhereKeepsOwed
      <4> QED
        BY <1>1, <1>3, <2>1, <3>3, <4>2 DEF StoreKept, OwedKept
    <3> QED
      BY <3>1, <3>2, <3>3
  <2> QED
    BY <2>5, <2>6
<1>5. CASE wire[1].op # "save"
  <2>1. replies' = replies
    BY <1>1, <1>5 DEF Handle
  <2>2. \/ wire[1].op = "delete" /\ phase' = phase
        \/ wire[1].op = "flushed" /\ phase' = "answered"
    BY <1>1, <1>5 DEF Handle
  <2>3. ASSUME NEW c \in Chat, c \notin deleted PROVE db'[c] = db[c]
    <3>1. CASE wire[1].op = "delete"
      <4>1. c \notin wire[1].chats
        BY <1>1, <2>3, <3>1 DEF StoreKept, StoreOrder, OnWire
      <4> QED
        BY <1>1, <3>1, <4>1 DEF Handle
    <3>2. CASE wire[1].op = "flushed"
      BY <1>1, <3>2 DEF Handle
    <3> QED
      BY <2>2, <3>1, <3>2
  <2>4. NoneAwaited => NoneAwaited'
    BY <1>2, <2>1 DEF NoneAwaited
  <2>5. Told'
    <3>1. CASE wire[1].op = "delete" /\ phase' = phase
      BY <1>1, <1>2, <2>4, <3>1 DEF StoreKept, Told
    <3>2. CASE wire[1].op = "flushed" /\ phase' = "answered"
      BY <1>1, <1>2, <2>4, <3>2 DEF StoreKept, Told
    <3> QED
      BY <2>2, <3>1, <3>2
  <2>6. phase \in {"open", "asked"} \/ phase' \in {"open", "asked"} => phase' = phase
    BY <1>1, <2>2 DEF StoreKept, Told
  <2>7. ASSUME NEW c \in Chat PROVE KnownThere(c)' /\ OwedKept(c)'
    <3>1. CASE c \in deleted
      BY <1>1, <3>1 DEF KnownThere, OwedKept
    <3>2. CASE c \notin deleted
      <4>1. ~Stores(wire[1], c)
        BY <1>5 DEF Stores
      <4>2. KnownThere(c)' /\ (Kept(c) => Kept(c)')
        BY <1>1, <2>1, <2>3, <3>2, <4>1, ElsewhereKeepsOwed
      <4> QED
        BY <1>1, <1>3, <2>6, <3>2, <4>2 DEF StoreKept, OwedKept
    <3> QED
      BY <3>1, <3>2
  <2> QED
    BY <2>5, <2>7
<1> QED
  BY <1>4, <1>5

\* Every step keeps what is owed.
LEMMA StoreKeptKeeps ==
  ASSUME ~SameTick, StoreKept, [StoreNext]_storeVars
  PROVE  StoreKept'
<1>1. StoreOrder'
  BY StoreOrderKeeps DEF StoreKept
<1>2. CASE Render \/ Effect \/ UNCHANGED storeVars
  BY <1>1, <1>2, RenderKeepsOwed, EffectKeepsOwed DEF StoreKept
<1>3. CASE Reply \/ Handle \/ Quit \/ Flush \/ Flushed \/ Shutdown \/ Restart \/ Clear
  BY <1>1, <1>3, AnswersKeepOwed, HandleKeepsOwed, EndsKeepOwed, FlushKeepsOwed,
     FlushedKeepsOwed, RemovalsKeepOwed DEF StoreKept
<1>4. ASSUME NEW c \in Chat, Change(c) \/ Lay(c) \/ Delete(c) \/ Fires(c)
      PROVE  StoreKept'
  BY <1>1, <1>4, UpdatesKeepOwed, RemovalsKeepOwed, FiresKeepsOwed DEF StoreKept
<1> QED
  BY <1>2, <1>3, <1>4 DEF StoreNext

\* A quit that the window answered has on disk all that the window had when it was asked,
\* but for what was deleted or refused (flushSessionSaves of storage.ts, quitFlush.cjs).
THEOREM WhatAQuitOwes == ~SameTick /\ StoreSpec => []QuitKeeps
<1> SUFFICES ASSUME ~SameTick PROVE StoreSpec => []QuitKeeps
  OBVIOUS
<1>1. StoreKept /\ [StoreNext]_storeVars => StoreKept'
  BY StoreKeptKeeps
<1>2. StoreKept => QuitKeeps
  <2> SUFFICES ASSUME StoreKept, phase = "closed", NEW c \in Chat \ (deleted \cup unsaved)
               PROVE  owed[c] \subseteq db[c]
    BY DEF QuitKeeps
  <2>1. Kept(c) /\ (NoneAwaited \/ owed = AllGone)
    BY DEF StoreKept, Told, OwedKept
  <2>2. CASE owed = AllGone
    BY <2>2 DEF AllGone, Gone
  <2>3. CASE NoneAwaited
    BY <2>1, <2>3 DEF Kept, NoneAwaited, OnItsWay, Refused
  <2> QED
    BY <2>1, <2>2, <2>3
<1> QED
  BY <1>1, <1>2, StoreKeptStarts, PTL DEF StoreSpec

-----------------------------------------------------------------------------
(* The spoken conversation: what the speaker has.                          *)

Fragments == Seq(Fragment)

\* All that the speaker has, what of it was not yet given to the audio, and what the
\* worker makes.
Parts(s) ==
  Pieces(s.awaited) \cup Pieces(s.pending) \cup Pieces(s.held) \cup s.chunk \cup Pieces(s.playing)
ToMake(s) == IF s.sounding THEN {} ELSE Pieces(s.awaited)
Ahead(s) == ToMake(s) \cup Pieces(s.pending) \cup Pieces(s.held) \cup s.chunk

\* What of S is not of X comes before what of T is not.
Below(S, T, X) == \A p \in S \ X, q \in T \ X : Before(p, q)
Sorted(q, X) == \A i, j \in DOMAIN q : i < j => Below(q[i], q[j], X)

SpeakerType ==
  [suspended : BOOLEAN, held : Fragments, chunk : Fragment, kind : {"local", "cloud"},
   pending : Fragments, awaited : Fragments, inFlight : BOOLEAN, stale : Nat,
   sounding : BOOLEAN, playing : Fragments, failed : BOOLEAN]

\* How the parts of a speaker go together
Shaped(s) ==
  /\ s \in SpeakerType
  /\ s.failed => ~s.inFlight
  /\ s.kind = "local" => ~s.sounding
  /\ s.inFlight => s.awaited # <<>>
  /\ Len(s.awaited) <= 1
  /\ IF s.suspended THEN s.pending = <<>> ELSE s.held = <<>>

\* What a speaker is still to say is in the order of the text, but for X.
Ordered(s, X) ==
  /\ Sorted(s.pending, X) /\ Sorted(s.held, X)
  /\ Below(ToMake(s), Pieces(s.pending) \cup Pieces(s.held) \cup s.chunk, X)
  /\ Below(Pieces(s.pending), Pieces(s.held) \cup s.chunk, X)
  /\ Below(Pieces(s.held), s.chunk, X)

\* The pieces of sequences of fragments that are joined, added to or taken from
LEMMA PiecesJoined ==
  ASSUME NEW q \in Fragments, NEW r \in Fragments
  PROVE  /\ q \o r \in Fragments
         /\ Pieces(q \o r) = Pieces(q) \cup Pieces(r)
         /\ \A X : Sorted(q, X) /\ Sorted(r, X) /\ Below(Pieces(q), Pieces(r), X)
                     => Sorted(q \o r, X)
<1> DEFINE n == Len(q)
           m == Len(r)
           u == q \o r
<1>1. /\ n \in Nat /\ m \in Nat
      /\ DOMAIN q = 1..n /\ DOMAIN r = 1..m /\ DOMAIN u = 1..(n + m)
      /\ \A i \in 1..n : u[i] = q[i]
      /\ \A i \in 1..m : u[n + i] = r[i]
      /\ u \in Fragments
  BY DEF Fragments
<1>2. \A i \in 1..(n + m) : i \in 1..n \/ (i - n \in 1..m /\ i = n + (i - n))
  BY <1>1
<1>3. \A i \in 1..m : n + i \in 1..(n + m)
  BY <1>1
<1>4. 1..n \subseteq 1..(n + m)
  BY <1>1
<1> HIDE DEF n, m, u
<1>5. Pieces(u) = Pieces(q) \cup Pieces(r)
  <2>1. Pieces(u) \subseteq Pieces(q) \cup Pieces(r)
    <3> SUFFICES ASSUME NEW i \in 1..(n + m) PROVE u[i] \subseteq Pieces(q) \cup Pieces(r)
      BY <1>1 DEF Pieces
    <3>1. CASE i \in 1..n
      BY <3>1, <1>1 DEF Pieces
    <3>2. CASE i - n \in 1..m /\ i = n + (i - n)
      <4>1. u[i] = r[i - n]
        BY <3>2, <1>1
      <4> QED
        BY <4>1, <3>2, <1>1 DEF Pieces
    <3> QED
      BY <3>1, <3>2, <1>2
  <2>2. Pieces(q) \subseteq Pieces(u)
    BY <1>1, <1>4 DEF Pieces
  <2>3. Pieces(r) \subseteq Pieces(u)
    <3> SUFFICES ASSUME NEW i \in 1..m PROVE r[i] \subseteq Pieces(u)
      BY <1>1 DEF Pieces
    <3>1. r[i] = u[n + i] /\ n + i \in DOMAIN u
      BY <1>1, <1>3
    <3> QED
      BY <3>1 DEF Pieces
  <2> QED
    BY <2>1, <2>2, <2>3
<1>6. ASSUME NEW X, Sorted(q, X), Sorted(r, X), Below(Pieces(q), Pieces(r), X)
      PROVE  Sorted(u, X)
  <2> SUFFICES ASSUME NEW i \in 1..(n + m), NEW j \in 1..(n + m), i < j
               PROVE  Below(u[i], u[j], X)
    BY <1>1 DEF Sorted
  <2>1. CASE j \in 1..n
    <3>1. i \in 1..n
      BY <2>1, <1>1
    <3> QED
      BY <3>1, <2>1, <1>1, <1>6 DEF Sorted
  <2>2. CASE i \in 1..n /\ j - n \in 1..m /\ j = n + (j - n)
    <3>1. u[i] \subseteq Pieces(q) /\ u[j] \subseteq Pieces(r)
      <4>1. u[i] = q[i] /\ u[j] = r[j - n]
        BY <2>2, <1>1
      <4> QED
        BY <4>1, <2>2, <1>1 DEF Pieces
    <3> QED
      BY <3>1, <1>6 DEF Below
  <2>3. CASE i - n \in 1..m /\ i = n + (i - n) /\ j - n \in 1..m /\ j = n + (j - n)
    <3>1. u[i] = r[i - n] /\ u[j] = r[j - n]
      BY <2>3, <1>1
    <3>2. i - n < j - n
      BY <1>1
    <3> QED
      BY <3>1, <3>2, <2>3, <1>1, <1>6 DEF Sorted
  <2> QED
    BY <2>1, <2>2, <2>3, <1>2
<1> QED
  BY <1>1, <1>5, <1>6 DEF u

LEMMA PiecesEmpty == Pieces(<<>>) = {} /\ \A X : Sorted(<<>>, X)
<1>1. DOMAIN <<>> = {}
  OBVIOUS
<1> QED
  BY <1>1 DEF Pieces, Sorted

LEMMA PiecesOne ==
  ASSUME NEW f \in Fragment
  PROVE  <<f>> \in Fragments /\ Pieces(<<f>>) = f /\ \A X : Sorted(<<f>>, X)
<1>1. DOMAIN <<f>> = {1} /\ <<f>>[1] = f /\ <<f>> \in Seq(Fragment)
  OBVIOUS
<1> QED
  BY <1>1 DEF Pieces, Sorted, Fragments

LEMMA PiecesAppended ==
  ASSUME NEW q \in Fragments, NEW f \in Fragment
  PROVE  /\ Append(q, f) \in Fragments
         /\ Pieces(Append(q, f)) = Pieces(q) \cup f
         /\ \A X : Sorted(q, X) /\ Below(Pieces(q), f, X) => Sorted(Append(q, f), X)
<1>1. Append(q, f) = q \o <<f>>
  BY DEF Fragments
<1> QED
  BY <1>1, PiecesOne, PiecesJoined

LEMMA PiecesTaken ==
  ASSUME NEW q \in Fragments, q # <<>>
  PROVE  /\ Head(q) \in Fragment /\ Tail(q) \in Fragments
         /\ Pieces(q) = Head(q) \cup Pieces(Tail(q))
         /\ \A X : Sorted(q, X) => Sorted(Tail(q), X) /\ Below(Head(q), Pieces(Tail(q)), X)
<1> DEFINE n == Len(q)
           t == Tail(q)
<1>1. /\ n \in Nat \ {0} /\ DOMAIN q = 1..n /\ DOMAIN t = 1..(n - 1) /\ 1 \in 1..n
      /\ \A i \in 1..(n - 1) : t[i] = q[i + 1] /\ i + 1 \in 1..n
      /\ Head(q) = q[1] /\ t \in Fragments /\ Head(q) \in Fragment
  BY DEF Fragments
<1>2. \A i \in 1..n : i = 1 \/ (i - 1 \in 1..(n - 1) /\ i = (i - 1) + 1)
  BY <1>1
<1> HIDE DEF n, t
<1>3. Pieces(q) = q[1] \cup Pieces(t)
  <2>1. ASSUME NEW i \in 1..n PROVE q[i] \subseteq q[1] \cup Pieces(t)
    <3>1. CASE i - 1 \in 1..(n - 1) /\ i = (i - 1) + 1
      <4>1. q[i] = t[i - 1]
        BY <3>1, <1>1
      <4> QED
        BY <4>1, <3>1, <1>1 DEF Pieces
    <3> QED
      BY <3>1, <1>2
  <2>2. q[1] \subseteq Pieces(q)
    BY <1>1 DEF Pieces
  <2>3. ASSUME NEW i \in 1..(n - 1) PROVE t[i] \subseteq Pieces(q)
    <3>1. t[i] = q[i + 1] /\ i + 1 \in DOMAIN q
      BY <1>1
    <3> QED
      BY <3>1 DEF Pieces
  <2>4. Pieces(q) \subseteq q[1] \cup Pieces(t)
    BY <2>1, <1>1 DEF Pieces
  <2>5. Pieces(t) \subseteq Pieces(q)
    BY <2>3, <1>1 DEF Pieces
  <2> QED
    BY <2>2, <2>4, <2>5
<1>4. ASSUME NEW X, Sorted(q, X)
      PROVE  Sorted(t, X) /\ Below(q[1], Pieces(t), X)
  <2>1. ASSUME NEW i \in 1..(n - 1), NEW j \in 1..(n - 1), i < j
        PROVE  Below(t[i], t[j], X)
    <3>1. t[i] = q[i + 1] /\ t[j] = q[j + 1] /\ i + 1 \in DOMAIN q /\ j + 1 \in DOMAIN q
      BY <1>1
    <3>2. i + 1 < j + 1
      BY <2>1
    <3> QED
      BY <3>1, <3>2, <1>4 DEF Sorted
  <2>2. ASSUME NEW i \in 1..(n - 1) PROVE Below(q[1], t[i], X)
    <3>1. t[i] = q[i + 1] /\ i + 1 \in DOMAIN q /\ 1 \in DOMAIN q /\ 1 < i + 1
      BY <1>1
    <3> QED
      BY <3>1, <1>4 DEF Sorted
  <2>3. Sorted(t, X)
    BY <2>1, <1>1 DEF Sorted
  <2>4. Below(q[1], Pieces(t), X)
    BY <2>2, <1>1 DEF Below, Pieces
  <2> QED
    BY <2>3, <2>4
<1> QED
  BY <1>1, <1>3, <1>4 DEF t

\* s2 is a speaker with no more to say than s and F.
Within(s2, s, F) ==
  /\ Shaped(s2)
  /\ Parts(s2) \subseteq Parts(s) \cup F
  /\ Ahead(s2) \subseteq Ahead(s) \cup F
  /\ s2.kind = s.kind /\ s2.failed = s.failed

\* Every function of the speaker keeps its shape and the order, and adds no more than it
\* is given: first the voice's, then the speaker's own.
LEMMA Pumped ==
  ASSUME NEW s, Shaped(s)
  PROVE  /\ Within(pump(s), s, {})
         /\ \A X : Ordered(s, X) => Ordered(pump(s), X)
<1> DEFINE p == pump(s)
           f == Head(s.pending)
           r == Tail(s.pending)
<1>1. CASE s.inFlight \/ s.failed \/ s.pending = <<>>
  BY <1>1 DEF pump, Within
<1>2. CASE ~(s.inFlight \/ s.failed \/ s.pending = <<>>)
  <2>1. s \in SpeakerType /\ ~s.suspended /\ s.pending \in Fragments /\ s.awaited \in Fragments
    BY <1>2 DEF Shaped, SpeakerType
  <2>2. /\ f \in Fragment /\ r \in Fragments
        /\ Pieces(s.pending) = f \cup Pieces(r)
        /\ \A X : Sorted(s.pending, X) => Sorted(r, X) /\ Below(f, Pieces(r), X)
    BY <2>1, <1>2, PiecesTaken
  <2>3. /\ <<f>> \in Fragments /\ Pieces(<<f>>) = f /\ <<f>> # <<>> /\ Len(<<f>>) = 1
    BY <2>2, PiecesOne
  <2> DEFINE n == s.stale + Len(s.awaited)
  <2>4. n \in Nat
    BY <2>1 DEF Fragments, SpeakerType
  <2>5. p = [s EXCEPT !.inFlight = TRUE, !.sounding = FALSE, !.stale = n,
                      !.awaited = <<f>>, !.pending = r]
    BY <1>2 DEF pump
  <2> HIDE DEF p, f, r, n
  <2>6. /\ p \in SpeakerType /\ p.inFlight = TRUE /\ p.sounding = FALSE /\ p.awaited = <<f>>
        /\ p.pending = r /\ p.held = s.held /\ p.chunk = s.chunk /\ p.playing = s.playing
        /\ p.suspended = s.suspended /\ p.kind = s.kind /\ p.failed = s.failed
    BY <2>1, <2>2, <2>3, <2>4, <2>5 DEF SpeakerType
  <2>7. Shaped(p)
    BY <2>6, <2>3, <2>1, <1>2 DEF Shaped
  <2>8. Parts(p) \subseteq Parts(s) /\ Ahead(p) \subseteq Ahead(s)
    BY <2>6, <2>3, <2>2 DEF Parts, Ahead, ToMake
  <2>9. ASSUME NEW X, Ordered(s, X)
        PROVE  Ordered(p, X)
    <3>1. ToMake(p) = f
      BY <2>6, <2>3 DEF ToMake
    <3> QED
      BY <3>1, <2>9, <2>6, <2>2 DEF Ordered, Below
  <2> QED
    BY <2>6, <2>7, <2>8, <2>9 DEF Within, p
<1> QED
  BY <1>1, <1>2

\* enqueue: what is added comes after what waits.
LEMMA Enqueued ==
  ASSUME NEW s, Shaped(s), ~s.suspended, NEW q \in Fragments
  PROVE  /\ Within(enqueue(s, q), s, Pieces(q))
         /\ \A X : /\ Ordered(s, X) /\ Sorted(q, X)
                   /\ Below(ToMake(s) \cup Pieces(s.pending), Pieces(q), X)
                   /\ Below(Pieces(q), s.chunk, X)
                   => Ordered(enqueue(s, q), X)
<1> DEFINE t == [s EXCEPT !.pending = @ \o q]
<1>1. CASE s.failed \/ q = <<>>
  BY <1>1 DEF enqueue, Within
<1>2. CASE ~(s.failed \/ q = <<>>)
  <2>1. s \in SpeakerType /\ s.pending \in Fragments /\ s.held = <<>>
    BY DEF Shaped, SpeakerType
  <2>2. /\ s.pending \o q \in Fragments
        /\ Pieces(s.pending \o q) = Pieces(s.pending) \cup Pieces(q)
        /\ \A X : Sorted(s.pending, X) /\ Sorted(q, X) /\ Below(Pieces(s.pending), Pieces(q), X)
                    => Sorted(s.pending \o q, X)
    BY <2>1, PiecesJoined
  <2>3. enqueue(s, q) = pump(t)
    BY <1>2 DEF enqueue
  <2>4. /\ t \in SpeakerType /\ t.pending = s.pending \o q
        /\ t.inFlight = s.inFlight /\ t.sounding = s.sounding /\ t.awaited = s.awaited
        /\ t.held = s.held /\ t.chunk = s.chunk /\ t.playing = s.playing
        /\ t.suspended = s.suspended /\ t.kind = s.kind /\ t.failed = s.failed
    BY <2>1, <2>2 DEF SpeakerType
  <2> HIDE DEF t
  <2>5. Shaped(t)
    BY <2>4 DEF Shaped
  <2>6. Parts(t) \subseteq Parts(s) \cup Pieces(q) /\ Ahead(t) \subseteq Ahead(s) \cup Pieces(q)
    BY <2>4, <2>2 DEF Parts, Ahead, ToMake
  <2>7. ASSUME NEW X, Ordered(s, X), Sorted(q, X),
               Below(ToMake(s) \cup Pieces(s.pending), Pieces(q), X), Below(Pieces(q), s.chunk, X)
        PROVE  Ordered(t, X)
    <3>1. ToMake(t) = ToMake(s) /\ Pieces(s.held) = {} /\ Sorted(t.held, X)
      BY <2>4, <2>1, PiecesEmpty DEF ToMake
    <3>2. Sorted(s.pending \o q, X)
      BY <2>2, <2>7 DEF Ordered, Below
    <3>3. Below(ToMake(t), Pieces(t.pending) \cup Pieces(t.held) \cup t.chunk, X)
      BY <3>1, <2>7, <2>4, <2>2 DEF Ordered, Below
    <3>4. Below(Pieces(t.pending), Pieces(t.held) \cup t.chunk, X)
      BY <3>1, <2>7, <2>4, <2>2 DEF Ordered, Below
    <3>5. Below(Pieces(t.held), t.chunk, X)
      BY <3>1, <2>4 DEF Below
    <3> QED
      BY <3>1, <3>2, <3>3, <3>4, <3>5, <2>4 DEF Ordered
  <2>8. Within(pump(t), t, {}) /\ \A X : Ordered(t, X) => Ordered(pump(t), X)
    BY <2>5, Pumped
  <2> QED
    BY <2>3, <2>4, <2>6, <2>7, <2>8 DEF Within
<1> QED
  BY <1>1, <1>2

LEMMA Emitted ==
  ASSUME NEW s, Shaped(s), NEW f \in Fragment
  PROVE  /\ Within(emit(s, f), s, f)
         /\ \A X : Ordered(s, X) /\ Below(Ahead(s), f, X) /\ Below(f, s.chunk, X)
                     => Ordered(emit(s, f), X)
<1> DEFINE t == [s EXCEPT !.held = Append(@, f)]
<1>0. s \in SpeakerType /\ s.held \in Fragments
  BY DEF Shaped, SpeakerType
<1>1. CASE s.suspended
  <2>1. /\ Append(s.held, f) \in Fragments
        /\ Pieces(Append(s.held, f)) = Pieces(s.held) \cup f
        /\ \A X : Sorted(s.held, X) /\ Below(Pieces(s.held), f, X) => Sorted(Append(s.held, f), X)
    BY <1>0, PiecesAppended
  <2>2. emit(s, f) = t
    BY <1>1 DEF emit
  <2>3. /\ t \in SpeakerType /\ t.held = Append(s.held, f)
        /\ t.inFlight = s.inFlight /\ t.sounding = s.sounding /\ t.awaited = s.awaited
        /\ t.pending = s.pending /\ t.chunk = s.chunk /\ t.playing = s.playing
        /\ t.suspended = s.suspended /\ t.kind = s.kind /\ t.failed = s.failed
    BY <1>0, <2>1 DEF SpeakerType
  <2> HIDE DEF t
  <2>4. Shaped(t)
    BY <2>3, <1>1 DEF Shaped
  <2>5. Parts(t) \subseteq Parts(s) \cup f /\ Ahead(t) \subseteq Ahead(s) \cup f
    BY <2>3, <2>1 DEF Parts, Ahead, ToMake
  <2>6. ASSUME NEW X, Ordered(s, X), Below(Ahead(s), f, X), Below(f, s.chunk, X)
        PROVE  Ordered(t, X)
    <3>1. ToMake(t) = ToMake(s)
      BY <2>3 DEF ToMake
    <3>2. /\ Below(ToMake(s), f, X) /\ Below(Pieces(s.pending), f, X) /\ Below(Pieces(s.held), f, X)
      BY <2>6 DEF Ahead, Below
    <3> QED
      BY <3>1, <3>2, <2>6, <2>3, <2>1 DEF Ordered, Below
  <2> QED
    BY <2>2, <2>3, <2>4, <2>5, <2>6 DEF Within
<1>2. CASE ~s.suspended
  <2>1. emit(s, f) = enqueue(s, <<f>>)
    BY <1>2 DEF emit
  <2>2. <<f>> \in Fragments /\ Pieces(<<f>>) = f /\ \A X : Sorted(<<f>>, X)
    BY PiecesOne
  <2>3. \A X : Below(Ahead(s), f, X) => Below(ToMake(s) \cup Pieces(s.pending), f, X)
    BY DEF Ahead, Below
  <2> QED
    BY <2>1, <2>2, <2>3, <1>2, Enqueued
<1> QED
  BY <1>1, <1>2

LEMMA ChunkTaken ==
  ASSUME NEW s, Shaped(s), NEW d \in Fragment
  PROVE  LET t == [s EXCEPT !.chunk = d]
         IN /\ Within(t, s, d) /\ t.chunk = d
            /\ d = {} => Ahead(t) = ToMake(s) \cup Pieces(s.pending) \cup Pieces(s.held)
            /\ \A X : Ordered(s, X) /\ Below(Ahead(s), d \ s.chunk, X) => Ordered(t, X)
<1> DEFINE t == [s EXCEPT !.chunk = d]
<1>1. /\ t \in SpeakerType /\ t.chunk = d
      /\ t.inFlight = s.inFlight /\ t.sounding = s.sounding /\ t.awaited = s.awaited
      /\ t.pending = s.pending /\ t.held = s.held /\ t.playing = s.playing
      /\ t.suspended = s.suspended /\ t.kind = s.kind /\ t.failed = s.failed
  BY DEF Shaped, SpeakerType
<1> HIDE DEF t
<1>2. Shaped(t)
  BY <1>1 DEF Shaped
<1>3. ToMake(t) = ToMake(s)
  BY <1>1 DEF ToMake
<1>4. Parts(t) \subseteq Parts(s) \cup d /\ Ahead(t) \subseteq Ahead(s) \cup d
  BY <1>1, <1>3 DEF Parts, Ahead
<1>5. d = {} => Ahead(t) = ToMake(s) \cup Pieces(s.pending) \cup Pieces(s.held)
  BY <1>1, <1>3 DEF Ahead
<1>6. ASSUME NEW X, Ordered(s, X), Below(Ahead(s), d \ s.chunk, X)
      PROVE  Ordered(t, X)
  BY <1>1, <1>3, <1>6 DEF Ordered, Below, Ahead
<1> QED
  BY <1>1, <1>2, <1>4, <1>5, <1>6 DEF Within, t

LEMMA EmptyFragment == {} \in Fragment
BY DEF Fragment

LEMMA ChunkEmptied ==
  ASSUME NEW s, Shaped(s)
  PROVE  LET t == [s EXCEPT !.chunk = {}]
         IN /\ Within(t, s, {}) /\ t.chunk = {}
            /\ Ahead(t) = ToMake(s) \cup Pieces(s.pending) \cup Pieces(s.held)
            /\ \A X : Ordered(s, X) => Ordered(t, X)
<1> DEFINE t == [s EXCEPT !.chunk = {}]
           N == {} \ s.chunk
<1>1. N = {}
  OBVIOUS
<1>2. /\ Within(t, s, {}) /\ t.chunk = {}
      /\ {} = {} => Ahead(t) = ToMake(s) \cup Pieces(s.pending) \cup Pieces(s.held)
      /\ \A X : Ordered(s, X) /\ Below(Ahead(s), N, X) => Ordered(t, X)
  BY EmptyFragment, ChunkTaken, ZenonT(30)
<1> HIDE DEF t, N
<1>3. \A X : Below(Ahead(s), N, X)
  BY <1>1 DEF Below
<1> QED
  BY <1>2, <1>3 DEF t

LEMMA Pushed ==
  ASSUME NEW s, Shaped(s), NEW p \in Piece, NEW ends \in BOOLEAN
  PROVE  /\ Within(push(s, p, ends), s, {p})
         /\ \A X : Ordered(s, X) /\ Below(Ahead(s), {p}, X) => Ordered(push(s, p, ends), X)
<1> DEFINE t == [s EXCEPT !.chunk = {}]
           f == s.chunk \cup {p}
<1>1. s.chunk \in Fragment /\ f \in Fragment
  BY DEF Shaped, SpeakerType, Fragment
<1>2. CASE ends
  <2>1. push(s, p, ends) = emit(t, f)
    BY <1>2 DEF push
  <2>2. /\ Within(t, s, {}) /\ t.chunk = {}
        /\ Ahead(t) = ToMake(s) \cup Pieces(s.pending) \cup Pieces(s.held)
        /\ \A X : Ordered(s, X) => Ordered(t, X)
    BY ChunkEmptied
  <2> HIDE DEF t, f
  <2>3. /\ Within(emit(t, f), t, f)
        /\ \A X : Ordered(t, X) /\ Below(Ahead(t), f, X) /\ Below(f, t.chunk, X)
                    => Ordered(emit(t, f), X)
    BY <2>2, <1>1, Emitted DEF Within
  <2>4. ASSUME NEW X, Ordered(s, X), Below(Ahead(s), {p}, X)
        PROVE  Ordered(emit(t, f), X)
    <3>1. Ordered(t, X)
      BY <2>2, <2>4 DEF Below
    <3>2. Below(ToMake(s) \cup Pieces(s.pending) \cup Pieces(s.held), s.chunk, X)
      BY <2>4 DEF Ordered, Below
    <3>3. Below(Ahead(t), f, X)
      BY <3>2, <2>2, <2>4 DEF Below, Ahead, f
    <3>4. Below(f, t.chunk, X)
      BY <2>2 DEF Below
    <3> QED
      BY <3>1, <3>3, <3>4, <2>3
  <2>5. f \subseteq Parts(s) \cup {p} /\ f \subseteq Ahead(s) \cup {p}
    BY DEF f, Parts, Ahead
  <2>6. Within(emit(t, f), s, {p})
    BY <2>2, <2>3, <2>5 DEF Within
  <2> QED
    BY <2>1, <2>4, <2>6
<1>3. CASE ~ends
  <2>1. push(s, p, ends) = [s EXCEPT !.chunk = f]
    BY <1>3 DEF push
  <2>3. f \subseteq Parts(s) \cup {p} /\ f \subseteq Ahead(s) \cup {p}
    BY DEF Parts, Ahead
  <2>4. \A X : Below(Ahead(s), {p}, X) => Below(Ahead(s), f \ s.chunk, X)
    BY DEF Below
  <2> HIDE DEF f
  <2>2. /\ Within(push(s, p, ends), s, f)
        /\ \A X : Ordered(s, X) /\ Below(Ahead(s), f \ s.chunk, X) => Ordered(push(s, p, ends), X)
    BY <2>1, <1>1, ChunkTaken
  <2> QED
    BY <2>2, <2>3, <2>4 DEF Within
<1> QED
  BY <1>2, <1>3

LEMMA ChunkFlushed ==
  ASSUME NEW s, Shaped(s)
  PROVE  /\ Within(flush(s), s, {})
         /\ \A X : Ordered(s, X) => Ordered(flush(s), X)
<1> DEFINE t == [s EXCEPT !.chunk = {}]
           f == s.chunk
<1>1. f \in Fragment
  BY DEF Shaped, SpeakerType
<1>2. CASE f = {}
  BY <1>2 DEF flush, Within
<1>3. CASE f # {}
  <2>1. flush(s) = emit(t, f)
    BY <1>3 DEF flush
  <2>2. /\ Within(t, s, {}) /\ t.chunk = {}
        /\ Ahead(t) = ToMake(s) \cup Pieces(s.pending) \cup Pieces(s.held)
        /\ \A X : Ordered(s, X) => Ordered(t, X)
    BY ChunkEmptied
  <2> HIDE DEF t
  <2>3. /\ Within(emit(t, f), t, f)
        /\ \A X : Ordered(t, X) /\ Below(Ahead(t), f, X) /\ Below(f, t.chunk, X)
                    => Ordered(emit(t, f), X)
    BY <2>2, <1>1, Emitted DEF Within
  <2>4. ASSUME NEW X, Ordered(s, X)
        PROVE  Ordered(emit(t, f), X)
    <3>1. Ordered(t, X) /\ Below(f, t.chunk, X)
      BY <2>2, <2>4 DEF Below
    <3>2. Below(Ahead(t), f, X)
      BY <2>2, <2>4 DEF Ordered, Below
    <3> QED
      BY <3>1, <3>2, <2>3
  <2>5. f \subseteq Parts(s) /\ f \subseteq Ahead(s)
    BY DEF Parts, Ahead
  <2>6. Within(emit(t, f), s, {})
    BY <2>2, <2>3, <2>5 DEF Within
  <2> QED
    BY <2>1, <2>4, <2>6
<1> QED
  BY <1>2, <1>3

\* A speaker with nothing to say, of the voice of s
Quieted(s2, s) ==
  Shaped(s2) /\ Parts(s2) = {} /\ (\A X : Ordered(s2, X)) /\ s2.kind = s.kind /\ s2.failed = s.failed

\* Nothing is always in order.
LEMMA NothingToSay ==
  ASSUME NEW s, Shaped(s), s.pending = <<>>, s.held = <<>>, s.chunk = {}, s.awaited = <<>>,
         s.playing = <<>>
  PROVE  Parts(s) = {} /\ Ahead(s) = {} /\ \A X : Ordered(s, X)
<1>1. Parts(s) = {} /\ ToMake(s) = {} /\ Ahead(s) = {}
  BY PiecesEmpty DEF Parts, ToMake, Ahead
<1> QED
  BY <1>1, PiecesEmpty DEF Ordered, Below

LEMMA Hushed ==
  ASSUME NEW s, s \in SpeakerType, Len(s.awaited) <= 1, s.kind = "local" => ~s.sounding,
         s.suspended \/ s.held = <<>>
  PROVE  /\ Shaped(Hush(s)) /\ Hush(s).kind = s.kind /\ Hush(s).failed = s.failed
         /\ Hush(s).pending = <<>> /\ Hush(s).awaited = <<>> /\ Hush(s).playing = <<>>
         /\ Hush(s).held = s.held /\ Hush(s).chunk = s.chunk
<1> DEFINE n == IF s.kind = "local" THEN s.stale + Len(s.awaited) ELSE s.stale
           t == [s EXCEPT !.pending = <<>>, !.inFlight = FALSE, !.playing = <<>>, !.awaited = <<>>,
                          !.stale = n]
<1>1. <<>> \in Fragments /\ Len(<<>>) = 0
  BY DEF Fragments
<1>2. n \in Nat
  BY DEF Fragments, SpeakerType
<1>3. Hush(s) = t
  BY DEF Hush
<1> HIDE DEF n
<1>4. /\ t \in SpeakerType /\ t.kind = s.kind /\ t.failed = s.failed /\ t.inFlight = FALSE
      /\ t.pending = <<>> /\ t.awaited = <<>> /\ t.playing = <<>> /\ t.sounding = s.sounding
      /\ t.held = s.held /\ t.chunk = s.chunk /\ t.suspended = s.suspended
  BY <1>1, <1>2 DEF SpeakerType
<1> HIDE DEF t
<1>5. Shaped(t)
  BY <1>1, <1>4 DEF Shaped
<1> QED
  BY <1>3, <1>4, <1>5

LEMMA SpeakerSuspended ==
  ASSUME NEW s, Shaped(s)
  PROVE  /\ Within(suspend(s), s, {})
         /\ \A X : Ordered(s, X) => Ordered(suspend(s), X)
<1> DEFINE t == [s EXCEPT !.suspended = TRUE, !.held = <<>>]
           u == Hush(t)
<1>1. suspend(s) = u
  BY DEF suspend
<1>2. /\ t \in SpeakerType /\ t.kind = s.kind /\ t.failed = s.failed /\ t.suspended = TRUE
      /\ t.held = <<>> /\ t.chunk = s.chunk /\ t.awaited = s.awaited /\ t.sounding = s.sounding
  BY DEF Shaped, SpeakerType, Fragments
<1> HIDE DEF t
<1>3. /\ Shaped(u) /\ u.kind = s.kind /\ u.failed = s.failed
      /\ u.pending = <<>> /\ u.awaited = <<>> /\ u.playing = <<>> /\ u.held = <<>>
      /\ u.chunk = s.chunk
  BY <1>2, Hushed DEF Shaped
<1> HIDE DEF u
<1>4. Parts(u) = s.chunk /\ Ahead(u) = s.chunk /\ ToMake(u) = {}
  BY <1>3, PiecesEmpty DEF Parts, Ahead, ToMake
<1>5. \A X : Ordered(u, X)
  BY <1>3, <1>4, PiecesEmpty DEF Ordered, Below
<1>6. s.chunk \subseteq Parts(s) /\ s.chunk \subseteq Ahead(s)
  BY DEF Parts, Ahead
<1> QED
  BY <1>1, <1>3, <1>4, <1>5, <1>6 DEF Within

LEMMA SpeakerResumed ==
  ASSUME NEW s, Shaped(s)
  PROVE  /\ Within(resume(s), s, {})
         /\ \A X : Ordered(s, X) => Ordered(resume(s), X)
<1> DEFINE t == [s EXCEPT !.suspended = FALSE, !.held = <<>>]
           q == s.held
<1>1. CASE ~s.suspended
  BY <1>1 DEF resume, Within
<1>2. CASE s.suspended
  <2>1. resume(s) = enqueue(t, q)
    BY <1>2 DEF resume
  <2>2. /\ t \in SpeakerType /\ t.held = <<>> /\ t.suspended = FALSE
        /\ t.inFlight = s.inFlight /\ t.sounding = s.sounding /\ t.awaited = s.awaited
        /\ t.pending = s.pending /\ t.chunk = s.chunk /\ t.playing = s.playing
        /\ t.kind = s.kind /\ t.failed = s.failed /\ s.pending = <<>> /\ q \in Fragments
    BY <1>2 DEF Shaped, SpeakerType, Fragments
  <2> HIDE DEF t
  <2>3. Shaped(t) /\ ToMake(t) = ToMake(s)
    BY <2>2 DEF Shaped, ToMake
  <2>4. /\ Within(enqueue(t, q), t, Pieces(q))
        /\ \A X : /\ Ordered(t, X) /\ Sorted(q, X)
                  /\ Below(ToMake(t) \cup Pieces(t.pending), Pieces(q), X)
                  /\ Below(Pieces(q), t.chunk, X)
                  => Ordered(enqueue(t, q), X)
    BY <2>2, <2>3, Enqueued
  <2>5. /\ Parts(t) \cup Pieces(q) \subseteq Parts(s) /\ Ahead(t) \cup Pieces(q) \subseteq Ahead(s)
    BY <2>2, <2>3, PiecesEmpty DEF Parts, Ahead
  <2>6. ASSUME NEW X, Ordered(s, X)
        PROVE  Ordered(enqueue(t, q), X)
    <3>1. Pieces(t.held) = {} /\ Sorted(t.held, X)
      BY <2>2, PiecesEmpty
    <3>2. Ordered(t, X)
      BY <3>1, <2>2, <2>3, <2>6 DEF Ordered, Below
    <3>3. Sorted(q, X) /\ Below(Pieces(q), t.chunk, X)
      BY <2>2, <2>6 DEF Ordered
    <3>4. Below(ToMake(t) \cup Pieces(t.pending), Pieces(q), X)
      BY <2>2, <2>3, <2>6 DEF Ordered, Below
    <3> QED
      BY <3>2, <3>3, <3>4, <2>4
  <2> QED
    BY <2>1, <2>2, <2>4, <2>5, <2>6 DEF Within
<1> QED
  BY <1>1, <1>2

LEMMA SpeakerCancelled ==
  ASSUME NEW s, Shaped(s)
  PROVE  Quieted(cancel(s), s)
<1> DEFINE t == [s EXCEPT !.suspended = FALSE, !.held = <<>>, !.chunk = {}]
           u == Hush(t)
<1>1. cancel(s) = u
  BY DEF cancel
<1>2. /\ t \in SpeakerType /\ t.kind = s.kind /\ t.failed = s.failed
      /\ t.held = <<>> /\ t.chunk = {} /\ t.awaited = s.awaited /\ t.sounding = s.sounding
  BY EmptyFragment DEF Shaped, SpeakerType, Fragments
<1> HIDE DEF t
<1>3. /\ Shaped(u) /\ u.kind = s.kind /\ u.failed = s.failed
      /\ u.pending = <<>> /\ u.awaited = <<>> /\ u.playing = <<>> /\ u.held = <<>>
      /\ u.chunk = {}
  BY <1>2, Hushed DEF Shaped
<1> HIDE DEF u
<1> QED
  BY <1>1, <1>3, NothingToSay DEF Quieted

LEMMA SilentIsQuiet ==
  ASSUME NEW k \in {"local", "cloud"}, NEW f \in BOOLEAN
  PROVE  LET s == [Silent EXCEPT !.kind = k, !.failed = f]
         IN  /\ Shaped(s) /\ s.kind = k /\ s.failed = f /\ ~s.suspended /\ s.pending = <<>>
             /\ Parts(s) = {} /\ Ahead(s) = {} /\ s.chunk = {} /\ \A X : Ordered(s, X)
<1> DEFINE s == [Silent EXCEPT !.kind = k, !.failed = f]
<1>1. <<>> \in Fragments /\ Len(<<>>) = 0
  BY DEF Fragments
<1>2. /\ s \in SpeakerType /\ s.kind = k /\ s.failed = f /\ s.inFlight = FALSE
      /\ s.pending = <<>> /\ s.awaited = <<>> /\ s.playing = <<>> /\ s.held = <<>>
      /\ s.chunk = {} /\ s.suspended = FALSE /\ s.sounding = FALSE
  BY <1>1, EmptyFragment DEF Silent, SpeakerType
<1> HIDE DEF s
<1>3. Shaped(s)
  BY <1>1, <1>2 DEF Shaped
<1> QED
  BY <1>2, <1>3, NothingToSay DEF s

LEMMA SpeakerDisposed ==
  ASSUME NEW s, Shaped(s)
  PROVE  Quieted(dispose(s), s)
<1>1. s.kind \in {"local", "cloud"} /\ s.failed \in BOOLEAN
  BY DEF Shaped, SpeakerType
<1> QED
  BY <1>1, SilentIsQuiet DEF dispose, Quieted

\* The local voice that takes over
LEMMA TakesOver ==
  ASSUME NEW q \in Fragments
  PROVE  /\ Shaped(enqueue(Silent, q)) /\ Parts(enqueue(Silent, q)) \subseteq Pieces(q)
         /\ enqueue(Silent, q).kind = "local"
         /\ \A X : Pieces(q) \subseteq X => Ordered(enqueue(Silent, q), X)
<1>1. <<>> \in Fragments /\ Len(<<>>) = 0
  BY DEF Fragments
<1>2. /\ Shaped(Silent) /\ Silent.kind = "local" /\ ~Silent.suspended /\ Silent.pending = <<>>
      /\ Parts(Silent) = {} /\ Ahead(Silent) = {} /\ Silent.chunk = {}
      /\ \A X : Ordered(Silent, X)
  <2>1. Shaped(Silent)
    BY <1>1, EmptyFragment DEF Silent, Shaped, SpeakerType
  <2> QED
    BY <2>1, NothingToSay DEF Silent
<1>3. /\ Within(enqueue(Silent, q), Silent, Pieces(q))
      /\ \A X : /\ Ordered(Silent, X) /\ Sorted(q, X)
                /\ Below(ToMake(Silent) \cup Pieces(Silent.pending), Pieces(q), X)
                /\ Below(Pieces(q), Silent.chunk, X)
                => Ordered(enqueue(Silent, q), X)
  BY <1>2, Enqueued
<1>4. ASSUME NEW X, Pieces(q) \subseteq X
      PROVE  Sorted(q, X) /\ \A S : Below(S, Pieces(q), X) /\ Below(Pieces(q), S, X)
  BY <1>4 DEF Sorted, Below, Pieces
<1> QED
  BY <1>2, <1>3, <1>4 DEF Within

\* The fragment that was awaited is the whole of it.
LEMMA TheAwaited ==
  ASSUME NEW s, Shaped(s), s.awaited # <<>>
  PROVE  /\ Head(s.awaited) \in Fragment /\ Head(s.awaited) \subseteq Parts(s)
         /\ Pieces(s.awaited) = Head(s.awaited)
         /\ Append(s.playing, Head(s.awaited)) \in Fragments
         /\ Pieces(Append(s.playing, Head(s.awaited))) \subseteq Parts(s)
         /\ \A X : Ordered(s, X) /\ ~s.sounding =>
              Below(Head(s.awaited), Pieces(s.pending) \cup Pieces(s.held) \cup s.chunk, X)
<1> DEFINE f == Head(s.awaited)
<1>0. s.awaited \in Fragments /\ Len(s.awaited) <= 1 /\ s.playing \in Fragments
  BY DEF Shaped, SpeakerType
<1>1. Len(s.awaited) = 1
  <2>1. \A q \in Seq(Fragment) : q # <<>> => Len(q) \in Nat \ {0}
    BY EmptySeq
  <2>2. Len(s.awaited) \in Nat \ {0}
    BY <2>1, <1>0 DEF Fragments
  <2> DEFINE n == Len(s.awaited)
  <2>3. n \in Nat \ {0} /\ n <= 1
    BY <2>2, <1>0
  <2> HIDE DEF n
  <2>4. n = 1
    BY <2>3
  <2> QED
    BY <2>4 DEF n
<1>2. s.awaited = <<f>>
  <2>1. \A q \in Seq(Fragment) : Len(q) = 1 => q = <<Head(q)>>
    OBVIOUS
  <2> QED
    BY <2>1, <1>0, <1>1 DEF Fragments
<1>3. f \in Fragment
  BY <1>0, PiecesTaken
<1> HIDE DEF f
<1>4. Pieces(s.awaited) = f
  BY <1>2, <1>3, PiecesOne
<1>5. /\ Append(s.playing, f) \in Fragments
      /\ Pieces(Append(s.playing, f)) = Pieces(s.playing) \cup f
  BY <1>0, <1>3, PiecesAppended
<1>6. f \subseteq Parts(s) /\ Pieces(s.playing) \subseteq Parts(s)
  BY <1>4 DEF Parts
<1>7. \A X : Ordered(s, X) /\ ~s.sounding =>
         Below(f, Pieces(s.pending) \cup Pieces(s.held) \cup s.chunk, X)
  BY <1>4 DEF Ordered, ToMake
<1> QED
  BY <1>3, <1>4, <1>5, <1>6, <1>7 DEF f

\* The awaited fragment was made, and plays or not.
LEMMA Made ==
  ASSUME NEW s, Shaped(s), NEW q \in Fragments, Pieces(q) \subseteq Parts(s)
  PROVE  LET t == [s EXCEPT !.awaited = <<>>, !.inFlight = FALSE, !.playing = q]
         IN  /\ Within(pump(t), s, {})
             /\ Ahead(pump(t)) \subseteq Pieces(s.pending) \cup Pieces(s.held) \cup s.chunk
             /\ \A X : Ordered(s, X) => Ordered(pump(t), X)
<1> DEFINE t == [s EXCEPT !.awaited = <<>>, !.inFlight = FALSE, !.playing = q]
<1>1. <<>> \in Fragments /\ Len(<<>>) = 0
  BY DEF Fragments
<1>2. /\ t \in SpeakerType /\ t.inFlight = FALSE /\ t.sounding = s.sounding /\ t.awaited = <<>>
      /\ t.held = s.held /\ t.chunk = s.chunk /\ t.playing = q /\ t.pending = s.pending
      /\ t.suspended = s.suspended /\ t.kind = s.kind /\ t.failed = s.failed
  BY <1>1 DEF Shaped, SpeakerType
<1> HIDE DEF t
<1>3. Shaped(t)
  BY <1>1, <1>2 DEF Shaped
<1>4. ToMake(t) = {}
  BY <1>2, PiecesEmpty DEF ToMake
<1>5. /\ Parts(t) \subseteq Parts(s)
      /\ Ahead(t) = Pieces(s.pending) \cup Pieces(s.held) \cup s.chunk
      /\ Ahead(t) \subseteq Ahead(s)
  BY <1>2, <1>4, PiecesEmpty DEF Parts, Ahead
<1>6. \A X : Ordered(s, X) => Ordered(t, X)
  BY <1>2, <1>4 DEF Ordered, Below
<1>7. Within(pump(t), t, {}) /\ \A X : Ordered(t, X) => Ordered(pump(t), X)
  BY <1>3, Pumped
<1> QED
  BY <1>2, <1>5, <1>6, <1>7 DEF Within, t

\* Another job of the worker is over.
LEMMA StaleMade ==
  ASSUME NEW s, Shaped(s), s.stale > 0
  PROVE  LET t == [s EXCEPT !.stale = @ - 1, !.inFlight = FALSE]
         IN  Within(pump(t), s, {}) /\ \A X : Ordered(s, X) => Ordered(pump(t), X)
<1> DEFINE n == s.stale - 1
           t == [s EXCEPT !.stale = n, !.inFlight = FALSE]
<1>1. n \in Nat
  BY DEF Shaped, SpeakerType
<1> HIDE DEF n
<1>2. /\ t \in SpeakerType /\ t.inFlight = FALSE /\ t.sounding = s.sounding
      /\ t.awaited = s.awaited /\ t.held = s.held /\ t.chunk = s.chunk
      /\ t.playing = s.playing /\ t.pending = s.pending
      /\ t.suspended = s.suspended /\ t.kind = s.kind /\ t.failed = s.failed
  BY <1>1 DEF Shaped, SpeakerType
<1>3. t = [s EXCEPT !.stale = @ - 1, !.inFlight = FALSE]
  BY DEF n
<1> HIDE DEF t
<1>4. Shaped(t) /\ ToMake(t) = ToMake(s)
  BY <1>2 DEF Shaped, ToMake
<1>5. Parts(t) = Parts(s) /\ Ahead(t) = Ahead(s) /\ \A X : Ordered(s, X) => Ordered(t, X)
  BY <1>2, <1>4 DEF Parts, Ahead, Ordered
<1>6. Within(pump(t), t, {}) /\ \A X : Ordered(t, X) => Ordered(pump(t), X)
  BY <1>4, Pumped
<1> QED
  BY <1>2, <1>3, <1>5, <1>6 DEF Within

\* The service sends the audio of the fragment that is awaited.
LEMMA Sounds ==
  ASSUME NEW s, Shaped(s), s.kind = "cloud", s.awaited # <<>>
  PROVE  LET t == [s EXCEPT !.sounding = TRUE, !.playing = Append(@, Head(s.awaited))]
         IN  /\ Within(t, s, {})
             /\ Ahead(t) \subseteq Pieces(s.pending) \cup Pieces(s.held) \cup s.chunk
             /\ \A X : Ordered(s, X) => Ordered(t, X)
<1> DEFINE q == Append(s.playing, Head(s.awaited))
           t == [s EXCEPT !.sounding = TRUE, !.playing = q]
<1>1. q \in Fragments /\ Pieces(q) \subseteq Parts(s)
  BY TheAwaited
<1>2. t = [s EXCEPT !.sounding = TRUE, !.playing = Append(@, Head(s.awaited))]
  OBVIOUS
<1> HIDE DEF q
<1>3. /\ t \in SpeakerType /\ t.inFlight = s.inFlight /\ t.sounding = TRUE
      /\ t.awaited = s.awaited /\ t.held = s.held /\ t.chunk = s.chunk
      /\ t.playing = q /\ t.pending = s.pending
      /\ t.suspended = s.suspended /\ t.kind = s.kind /\ t.failed = s.failed
  BY <1>1 DEF Shaped, SpeakerType
<1> HIDE DEF t
<1>4. Shaped(t) /\ ToMake(t) = {}
  BY <1>3 DEF Shaped, ToMake
<1>5. /\ Parts(t) \subseteq Parts(s)
      /\ Ahead(t) = Pieces(s.pending) \cup Pieces(s.held) \cup s.chunk
      /\ Ahead(t) \subseteq Ahead(s)
  BY <1>1, <1>3, <1>4 DEF Parts, Ahead
<1>6. \A X : Ordered(s, X) => Ordered(t, X)
  BY <1>3, <1>4 DEF Ordered, Below
<1> QED
  BY <1>2, <1>3, <1>4, <1>5, <1>6 DEF Within

LEMMA AudioEnded ==
  ASSUME NEW s, Shaped(s), s.playing # <<>>
  PROVE  LET t == [s EXCEPT !.playing = Tail(@)]
         IN  Within(t, s, {}) /\ \A X : Ordered(s, X) => Ordered(t, X)
<1> DEFINE q == Tail(s.playing)
           t == [s EXCEPT !.playing = q]
<1>1. s.playing \in Fragments
  BY DEF Shaped, SpeakerType
<1>2. q \in Fragments /\ Pieces(q) \subseteq Pieces(s.playing)
  BY <1>1, PiecesTaken
<1>3. t = [s EXCEPT !.playing = Tail(@)]
  OBVIOUS
<1> HIDE DEF q
<1>4. /\ t \in SpeakerType /\ t.inFlight = s.inFlight /\ t.sounding = s.sounding
      /\ t.awaited = s.awaited /\ t.held = s.held /\ t.chunk = s.chunk
      /\ t.playing = q /\ t.pending = s.pending
      /\ t.suspended = s.suspended /\ t.kind = s.kind /\ t.failed = s.failed
  BY <1>2 DEF Shaped, SpeakerType
<1> HIDE DEF t
<1>5. Shaped(t) /\ ToMake(t) = ToMake(s)
  BY <1>4 DEF Shaped, ToMake
<1>6. /\ Parts(t) \subseteq Parts(s) /\ Ahead(t) = Ahead(s)
      /\ \A X : Ordered(s, X) => Ordered(t, X)
  BY <1>2, <1>4, <1>5 DEF Parts, Ahead, Ordered
<1> QED
  BY <1>3, <1>4, <1>5, <1>6 DEF Within

\* A cloud voice that fails says no more, and what it was to say is of its parts.
LEMMA Stalled ==
  ASSUME NEW s, Shaped(s)
  PROVE  LET t == [s EXCEPT !.pending = <<>>, !.awaited = <<>>, !.inFlight = FALSE,
                            !.failed = TRUE]
         IN  /\ Shaped(t) /\ Parts(t) \subseteq Parts(s) /\ Ahead(t) \subseteq Ahead(s)
             /\ t.failed = TRUE
             /\ s.awaited \o s.pending \in Fragments
             /\ Pieces(s.awaited \o s.pending) \subseteq Parts(s)
             /\ \A X : Ordered(s, X) => Ordered(t, X)
<1> DEFINE t == [s EXCEPT !.pending = <<>>, !.awaited = <<>>, !.inFlight = FALSE,
                          !.failed = TRUE]
<1>1. <<>> \in Fragments /\ Len(<<>>) = 0
  BY DEF Fragments
<1>2. s.awaited \in Fragments /\ s.pending \in Fragments
  BY DEF Shaped, SpeakerType
<1>3. /\ s.awaited \o s.pending \in Fragments
      /\ Pieces(s.awaited \o s.pending) \subseteq Parts(s)
  BY <1>2, PiecesJoined DEF Parts
<1>4. /\ t \in SpeakerType /\ t.inFlight = FALSE /\ t.sounding = s.sounding
      /\ t.awaited = <<>> /\ t.held = s.held /\ t.chunk = s.chunk
      /\ t.playing = s.playing /\ t.pending = <<>>
      /\ t.suspended = s.suspended /\ t.kind = s.kind /\ t.failed = TRUE
  BY <1>1 DEF Shaped, SpeakerType
<1> HIDE DEF t
<1>5. Shaped(t) /\ ToMake(t) = {}
  BY <1>1, <1>4, PiecesEmpty DEF Shaped, ToMake
<1>6. /\ Parts(t) \subseteq Parts(s) /\ Ahead(t) \subseteq Ahead(s)
      /\ \A X : Ordered(s, X) => Ordered(t, X)
  BY <1>4, <1>5, PiecesEmpty DEF Parts, Ahead, Ordered, Below
<1> QED
  BY <1>3, <1>4, <1>5, <1>6 DEF t

-----------------------------------------------------------------------------
(* The spoken conversation: the answers.                                   *)

\* The answers and the history
AnswerType ==
  [at : {"none", "first", "search", "stream", "over", "failed", "aborted"}, wrote : 0..MaxPieces]
TalkType == [answer : 0..MaxBursts, filed : Seq(Entry), answers : [Burst -> AnswerType]]

Active == {"first", "search", "stream"}
AskedOf(t, a) == t.answers[a].at # "none"
Question(a) == [role |-> "user", of |-> a, cut |-> FALSE]
FiledOf(t, a) == {i \in DOMAIN t.filed : t.filed[i].role = "assistant" /\ t.filed[i].of = a}

\* The answer that is being written is the last that was asked for, and it alone is not
\* filed; an answer is filed once, behind its question.
Talked(t) ==
  /\ t \in TalkType
  /\ \A a \in Burst : t.answers[a].at \in Active <=> t.answer = a
  /\ \A a, b \in Burst : t.answer = a /\ AskedOf(t, b) => b <= a
  /\ \A a \in Burst : t.answers[a].at \in Active \cup {"none"} => FiledOf(t, a) = {}
  /\ \A a \in Burst : \A i, j \in FiledOf(t, a) : i = j
  /\ t.answer # 0 => t.filed # <<>> /\ t.filed[Len(t.filed)] = Question(t.answer)
  /\ \A i \in DOMAIN t.filed :
       t.filed[i].role = "assistant" => i > 1 /\ t.filed[i - 1] = Question(t.filed[i].of)

\* p was written, and is in the history when its answer is over.
Known(t, p) ==
  /\ AskedOf(t, p[1])
  /\ p[1] = t.answer => p[2] <= t.answers[p[1]].wrote
  /\ p[2] # 0 /\ p[1] # t.answer /\ t.answers[p[1]].at # "failed" => FiledOf(t, p[1]) # {}

\* p is of the last answer that was asked for, which was not cut off.
Standing(t, p) ==
  /\ t.answers[p[1]].at # "aborted"
  /\ \A a \in Burst : AskedOf(t, a) => a <= p[1]

LEMMA PieceParts ==
  /\ 0 \in 0..MaxBursts /\ 0 \in 0..MaxPieces /\ Burst \subseteq 0..MaxBursts
  /\ \A a \in Burst : a \in Nat /\ a # 0
  /\ \A p \in Piece : p[1] \in Burst /\ p[2] \in 0..MaxPieces /\ p = <<p[1], p[2]>>
  /\ \A a \in Burst, n \in 0..MaxPieces : <<a, n>> \in Piece
BY ConstantsAssumption DEF Burst, Piece

\* u has the answers of t, none of which was cut off, and their pieces.
Onward(t, u) ==
  /\ Talked(u)
  /\ \A b \in Burst : AskedOf(u, b) <=> AskedOf(t, b)
  /\ \A p \in Piece : Known(t, p) => Known(u, p)
  /\ \A p \in Piece : Standing(t, p) => Standing(u, p)

\* The answer in progress stands at r.
GoesOn(t, u, a, r) ==
  /\ Talked(t) /\ a \in Burst /\ t.answer = a
  /\ r \in AnswerType /\ r.at \in Active /\ r.wrote >= t.answers[a].wrote
  /\ u = [t EXCEPT !.answers[a] = r]

LEMMA AnswerGoesOn ==
  ASSUME NEW t, NEW u, NEW a, NEW r, GoesOn(t, u, a, r)
  PROVE  Onward(t, u) /\ u.answer = a /\ u.answers[a] = r
<1>0. /\ Talked(t) /\ a \in Burst /\ t.answer = a
      /\ r \in AnswerType /\ r.at \in Active /\ r.wrote >= t.answers[a].wrote
      /\ u = [t EXCEPT !.answers[a] = r]
  BY DEF GoesOn
<1>1. t \in TalkType
  BY <1>0 DEF Talked
<1>2. /\ u \in TalkType /\ u.answer = t.answer /\ u.filed = t.filed /\ u.answers[a] = r
      /\ \A b \in Burst : b # a => u.answers[b] = t.answers[b]
  BY <1>0, <1>1 DEF TalkType
<1>3. t.answers[a].at \in Active /\ r.at \notin {"none", "aborted"}
  BY <1>0 DEF Talked, Active
<1>4. /\ \A b \in Burst : AskedOf(u, b) <=> AskedOf(t, b)
      /\ \A b \in Burst : FiledOf(u, b) = FiledOf(t, b)
  BY <1>0, <1>2, <1>3 DEF AskedOf, FiledOf, Active
<1>5. Talked(u)
  <2>1. \A b \in Burst : u.answers[b].at \in Active <=> u.answer = b
    BY <1>0, <1>2 DEF Talked
  <2>2. \A b \in Burst : u.answers[b].at \in Active \cup {"none"} => FiledOf(u, b) = {}
    <3> SUFFICES ASSUME NEW b \in Burst, u.answers[b].at \in Active \cup {"none"}
                 PROVE  FiledOf(t, b) = {}
      BY <1>0, <1>4
    <3>1. CASE b = a
      BY <1>0, <3>1, <1>3 DEF Talked
    <3>2. CASE b # a
      BY <1>0, <3>2, <1>2 DEF Talked
    <3> QED
      BY <1>0, <3>1, <3>2
  <2>3. /\ \A b, c \in Burst : u.answer = b /\ AskedOf(u, c) => c <= b
        /\ \A b \in Burst : \A i, j \in FiledOf(u, b) : i = j
    BY <1>0, <1>2, <1>4 DEF Talked
  <2>4. /\ u.answer # 0 => u.filed # <<>> /\ u.filed[Len(u.filed)] = Question(u.answer)
        /\ \A i \in DOMAIN u.filed :
             u.filed[i].role = "assistant" => i > 1 /\ u.filed[i - 1] = Question(u.filed[i].of)
    BY <1>0, <1>2 DEF Talked
  <2> QED
    BY <1>0, <1>2, <2>1, <2>2, <2>3, <2>4 DEF Talked
<1>6. ASSUME NEW p \in Piece, Known(t, p)
      PROVE  Known(u, p)
  <2>1. p[1] \in Burst /\ p[2] \in 0..MaxPieces
    BY PieceParts
  <2>2. CASE p[1] = a
    <3>1. t.answers[a].wrote \in 0..MaxPieces /\ r.wrote \in 0..MaxPieces
      BY <1>0, <1>1 DEF TalkType, AnswerType
    <3>2. p[2] <= r.wrote
      BY <1>0, <3>1, <2>1, <2>2, <1>6 DEF Known
    <3> QED
      BY <1>0, <3>2, <2>1, <2>2, <1>2, <1>4, <1>6 DEF Known
  <2>3. CASE p[1] # a
    BY <1>0, <2>1, <2>3, <1>2, <1>4, <1>6 DEF Known
  <2> QED
    BY <1>0, <2>2, <2>3
<1>7. ASSUME NEW p \in Piece, Standing(t, p)
      PROVE  Standing(u, p)
  <2>1. p[1] \in Burst
    BY PieceParts
  <2> QED
    BY <1>0, <2>1, <1>2, <1>3, <1>4, <1>7 DEF Standing
<1> QED
  BY <1>0, <1>2, <1>4, <1>5, <1>6, <1>7 DEF Onward

\* file adds an entry at the end of the history.
LEMMA EntryFiled ==
  ASSUME NEW t \in TalkType, NEW role \in {"user", "assistant"}, NEW b \in Burst, NEW cut \in BOOLEAN
  PROVE  LET u == File(t, role, b, cut)
             n == Len(t.filed)
         IN  /\ u \in TalkType /\ u.answer = t.answer /\ u.answers = t.answers
             /\ n \in Nat /\ DOMAIN t.filed = 1..n
             /\ DOMAIN u.filed = 1..(n + 1) /\ Len(u.filed) = n + 1 /\ u.filed # <<>>
             /\ \A i \in 1..n : u.filed[i] = t.filed[i]
             /\ u.filed[n + 1] = [role |-> role, of |-> b, cut |-> cut]
             /\ \A c \in Burst : FiledOf(u, c) =
                  FiledOf(t, c) \cup (IF role = "assistant" /\ c = b THEN {n + 1} ELSE {})
<1> DEFINE e == [role |-> role, of |-> b, cut |-> cut]
           u == File(t, role, b, cut)
           n == Len(t.filed)
<1>1. e \in Entry /\ e.role = role /\ e.of = b
  BY DEF Entry
<1>2. t.filed \in Seq(Entry)
  BY DEF TalkType
<1>3. u = [t EXCEPT !.filed = Append(@, e)]
  BY DEF File
<1> HIDE DEF e
<1>4. DEFINE g == Append(t.filed, e)
<1>5. /\ n \in Nat /\ DOMAIN t.filed = 1..n
      /\ g \in Seq(Entry) /\ DOMAIN g = 1..(n + 1) /\ Len(g) = n + 1
      /\ \A i \in 1..n : g[i] = t.filed[i]
      /\ g[n + 1] = e
  BY <1>1, <1>2
<1>6. u = [t EXCEPT !.filed = g]
  BY <1>3
<1>7. g # <<>>
  <2> HIDE DEF g, n
  <2>1. Len(<<>>) = 0 /\ n + 1 # 0
    BY <1>5
  <2> QED
    BY <2>1, <1>5
<1> HIDE DEF g, n, u
<1>8. u \in TalkType /\ u.answer = t.answer /\ u.answers = t.answers /\ u.filed = g
  BY <1>5, <1>6 DEF TalkType
<1>9. ASSUME NEW c \in Burst
      PROVE  FiledOf(u, c) = FiledOf(t, c) \cup (IF role = "assistant" /\ c = b THEN {n + 1} ELSE {})
  <2>1. 1..(n + 1) = 1..n \cup {n + 1} /\ n + 1 \notin 1..n
    BY <1>5
  <2> QED
    BY <2>1, <1>1, <1>5, <1>8 DEF FiledOf
<1> QED
  BY <1>5, <1>7, <1>8, <1>9 DEF u, n, e

\* The answer in progress is over, and filed if it said something.
Ends(t, u, a, how, cut) ==
  /\ Talked(t) /\ a \in Burst /\ t.answer = a
  /\ how \in {"over", "aborted"} /\ cut \in BOOLEAN
  /\ LET gone == [t EXCEPT !.answer = 0, !.answers[a] = Over(how)]
     IN u = IF t.answers[a].wrote > 0 THEN File(gone, "assistant", a, cut) ELSE gone

LEMMA AnswerEnds ==
  ASSUME NEW t, NEW u, NEW a, NEW how, NEW cut, Ends(t, u, a, how, cut)
  PROVE  /\ Talked(u) /\ u.answer = 0
         /\ \A b \in Burst : AskedOf(u, b) <=> AskedOf(t, b)
         /\ \A p \in Piece : Known(t, p) => Known(u, p)
         /\ how = "over" => Onward(t, u)
<1> DEFINE gone == [t EXCEPT !.answer = 0, !.answers[a] = Over(how)]
           n == Len(t.filed)
           says == t.answers[a].wrote > 0
<1>0. /\ Talked(t) /\ a \in Burst /\ t.answer = a
      /\ how \in {"over", "aborted"} /\ cut \in BOOLEAN
      /\ u = IF says THEN File(gone, "assistant", a, cut) ELSE gone
  BY DEF Ends
<1>1. t \in TalkType /\ a # 0
  BY <1>0, PieceParts DEF Talked
<1>2. Over(how) \in AnswerType /\ Over(how).at = how
  BY <1>0, PieceParts DEF Over, AnswerType
<1>3. /\ gone \in TalkType /\ gone.answer = 0 /\ gone.filed = t.filed
      /\ gone.answers[a].at = how /\ \A b \in Burst : b # a => gone.answers[b] = t.answers[b]
  BY <1>0, <1>1, <1>2, PieceParts DEF TalkType
<1> HIDE DEF gone
<1>4. \A b \in Burst : FiledOf(gone, b) = FiledOf(t, b)
  BY <1>0, <1>3 DEF FiledOf
<1>5. n \in Nat /\ DOMAIN t.filed = 1..n
  BY <1>0, <1>1 DEF TalkType
<1>6. /\ u \in TalkType /\ u.answer = 0 /\ u.answers[a].at = how
      /\ \A b \in Burst : b # a => u.answers[b] = t.answers[b]
      /\ \A i \in 1..n : u.filed[i] = t.filed[i]
      /\ \A c \in Burst : FiledOf(u, c) = FiledOf(t, c) \cup (IF says /\ c = a THEN {n + 1} ELSE {})
      /\ DOMAIN u.filed = 1..(IF says THEN n + 1 ELSE n)
      /\ says => u.filed[n + 1] = [role |-> "assistant", of |-> a, cut |-> cut]
  <2>1. CASE says
    <3> DEFINE v == File(gone, "assistant", a, cut)
    <3>1. /\ v \in TalkType /\ v.answer = gone.answer /\ v.answers = gone.answers
          /\ DOMAIN v.filed = 1..(n + 1)
          /\ \A i \in 1..n : v.filed[i] = gone.filed[i]
          /\ v.filed[n + 1] = [role |-> "assistant", of |-> a, cut |-> cut]
          /\ \A c \in Burst : FiledOf(v, c) = FiledOf(gone, c) \cup (IF c = a THEN {n + 1} ELSE {})
      BY <1>0, <1>3, EntryFiled
    <3>2. u = v
      BY <1>0, <2>1
    <3> HIDE DEF v, n
    <3> QED
      BY <1>0, <2>1, <3>1, <3>2, <1>3, <1>4
  <2>2. CASE ~says
    <3>1. u = gone
      BY <1>0, <2>2
    <3> HIDE DEF n
    <3> QED
      BY <1>0, <2>2, <3>1, <1>3, <1>4, <1>5
  <2> QED
    BY <1>0, <2>1, <2>2
<1>7. FiledOf(t, a) = {} /\ t.answers[a].at \in Active
  BY <1>0 DEF Talked
<1>8. n > 0 /\ n \in 1..n /\ t.filed[n] = Question(a)
  <2>1. t.filed # <<>> /\ t.filed[n] = Question(a)
    BY <1>0, <1>1 DEF Talked
  <2>2. t.filed \in Seq(Entry)
    BY <1>0, <1>1 DEF TalkType
  <2>3. n # 0
    BY <1>0, <2>1, <2>2, EmptySeq
  <2> QED
    BY <1>0, <2>1, <2>3, <1>5
<1> HIDE DEF n, says
<1>9. \A b \in Burst : AskedOf(u, b) <=> AskedOf(t, b)
  BY <1>0, <1>6, <1>7 DEF AskedOf, Active
<1>10. Talked(u)
  <2>1. \A b \in Burst : u.answers[b].at \in Active <=> u.answer = b
    <3>1. how \notin Active
      BY <1>0 DEF Active
    <3> QED
      BY <1>0, <3>1, <1>6, PieceParts DEF Talked
  <2>2. \A b \in Burst : u.answers[b].at \in Active \cup {"none"} => FiledOf(u, b) = {}
    <3>1. how \notin Active \cup {"none"}
      BY <1>0 DEF Active
    <3> QED
      BY <1>0, <3>1, <1>6 DEF Talked
  <2>3. \A b \in Burst : \A i, j \in FiledOf(u, b) : i = j
    BY <1>0, <1>6, <1>7 DEF Talked
  <2>4. ASSUME NEW i \in DOMAIN u.filed, u.filed[i].role = "assistant"
        PROVE  i > 1 /\ u.filed[i - 1] = Question(u.filed[i].of)
    <3>1. CASE i \in 1..n
      <4>1. i > 1 /\ t.filed[i - 1] = Question(t.filed[i].of)
        BY <1>0, <2>4, <3>1, <1>5, <1>6 DEF Talked
      <4>2. i - 1 \in 1..n
        BY <1>0, <4>1, <3>1, <1>5
      <4> QED
        BY <1>0, <4>1, <4>2, <3>1, <1>6
    <3>2. CASE i \notin 1..n
      <4>1. i = n + 1 /\ says
        BY <1>0, <3>2, <2>4, <1>5, <1>6
      <4>2. i > 1 /\ i - 1 = n
        BY <1>0, <4>1, <1>5, <1>8
      <4> QED
        BY <1>0, <4>1, <4>2, <1>6, <1>8
    <3> QED
      BY <1>0, <3>1, <3>2
  <2> QED
    BY <1>0, <2>1, <2>2, <2>3, <2>4, <1>6, PieceParts DEF Talked
<1>11. ASSUME NEW p \in Piece, Known(t, p)
       PROVE  Known(u, p)
  <2>1. p[1] \in Burst /\ p[2] \in 0..MaxPieces
    BY <1>0, PieceParts
  <2>2. CASE p[1] = a
    <3>1. t.answers[a].wrote \in 0..MaxPieces
      BY <1>0, <1>1 DEF TalkType, AnswerType
    <3>2. p[2] # 0 => says
      BY <1>0, <3>1, <2>1, <2>2, <1>11 DEF Known, says
    <3> QED
      BY <1>0, <3>2, <2>1, <2>2, <1>1, <1>6, <1>9, <1>11 DEF Known
  <2>3. CASE p[1] # a
    BY <1>0, <2>1, <2>3, <1>6, <1>9, <1>11, PieceParts DEF Known
  <2> QED
    BY <1>0, <2>2, <2>3
<1>12. ASSUME NEW p \in Piece, Standing(t, p), how = "over"
       PROVE  Standing(u, p)
  <2>1. p[1] \in Burst
    BY <1>0, PieceParts
  <2> QED
    BY <1>0, <2>1, <1>6, <1>9, <1>12 DEF Standing
<1> QED
  BY <1>0, <1>6, <1>9, <1>10, <1>11, <1>12 DEF Onward

Breaks(t, u, a) ==
  /\ Talked(t) /\ a \in Burst /\ t.answer = a
  /\ u = [t EXCEPT !.answer = 0, !.answers[a] = Over("failed")]

\* An answer that fails is not filed.
LEMMA AnswerFails ==
  ASSUME NEW t, NEW u, NEW a, Breaks(t, u, a)
  PROVE  Onward(t, u)
<1>0. /\ Talked(t) /\ a \in Burst /\ t.answer = a
      /\ u = [t EXCEPT !.answer = 0, !.answers[a] = Over("failed")]
  BY DEF Breaks
<1>1. t \in TalkType /\ a # 0 /\ t.answers[a].at \in Active
  BY <1>0, PieceParts DEF Talked
<1>2. Over("failed") \in AnswerType /\ Over("failed").at = "failed"
  BY <1>0, PieceParts DEF Over, AnswerType
<1>3. /\ u \in TalkType /\ u.answer = 0 /\ u.filed = t.filed
      /\ u.answers[a].at = "failed" /\ \A b \in Burst : b # a => u.answers[b] = t.answers[b]
  BY <1>0, <1>1, <1>2, PieceParts DEF TalkType
<1>4. /\ \A b \in Burst : FiledOf(u, b) = FiledOf(t, b)
      /\ \A b \in Burst : AskedOf(u, b) <=> AskedOf(t, b)
  BY <1>0, <1>1, <1>3 DEF FiledOf, AskedOf, Active
<1>5. Talked(u)
  <2>1. "failed" \notin Active \cup {"none"}
    BY <1>0 DEF Active
  <2>2. \A b \in Burst : u.answers[b].at \in Active <=> u.answer = b
    BY <1>0, <2>1, <1>3, PieceParts DEF Talked
  <2>3. \A b \in Burst : u.answers[b].at \in Active \cup {"none"} => FiledOf(u, b) = {}
    BY <1>0, <2>1, <1>3, <1>4 DEF Talked
  <2>4. \A b \in Burst : \A i, j \in FiledOf(u, b) : i = j
    BY <1>0, <1>4 DEF Talked
  <2>5. \A i \in DOMAIN u.filed :
          u.filed[i].role = "assistant" => i > 1 /\ u.filed[i - 1] = Question(u.filed[i].of)
    BY <1>0, <1>3 DEF Talked
  <2> QED
    BY <1>0, <2>2, <2>3, <2>4, <2>5, <1>3, PieceParts DEF Talked
<1>6. ASSUME NEW p \in Piece, Known(t, p)
      PROVE  Known(u, p)
  <2>1. p[1] \in Burst
    BY <1>0, PieceParts
  <2> QED
    BY <1>0, <2>1, <1>1, <1>3, <1>4, <1>6, PieceParts DEF Known
<1>7. ASSUME NEW p \in Piece, Standing(t, p)
      PROVE  Standing(u, p)
  <2>1. p[1] \in Burst
    BY <1>0, PieceParts
  <2> QED
    BY <1>0, <2>1, <1>3, <1>4, <1>7 DEF Standing
<1> QED
  BY <1>0, <1>3, <1>4, <1>5, <1>6, <1>7 DEF Onward

\* abandon keeps the history true.
LEMMA Abandoned ==
  ASSUME NEW t, Talked(t), NEW cut \in BOOLEAN
  PROVE  /\ Talked(abandon(t, cut)) /\ abandon(t, cut).answer = 0
         /\ \A b \in Burst : AskedOf(abandon(t, cut), b) <=> AskedOf(t, b)
         /\ \A p \in Piece : Known(t, p) => Known(abandon(t, cut), p)
<1>1. CASE t.answer = 0
  BY <1>1 DEF abandon
<1>2. CASE t.answer # 0
  <2>1. t.answer \in Burst
    BY <1>2 DEF Talked, TalkType, Burst
  <2>2. Ends(t, abandon(t, cut), t.answer, "aborted", cut)
    BY <1>2, <2>1 DEF Ends, abandon
  <2> QED
    BY <2>2, AnswerEnds
<1> QED
  BY <1>1, <1>2

\* A question newer than all that were asked is answered next.
LEMMA QuestionAsked ==
  ASSUME NEW t, Talked(t), t.answer = 0, NEW b \in Burst, \A a \in Burst : AskedOf(t, a) => a < b
  PROVE  LET u == Asks(t, b)
         IN  /\ Talked(u) /\ u.answer = b
             /\ \A a \in Burst : AskedOf(u, a) <=> a = b \/ AskedOf(t, a)
             /\ \A p \in Piece : Known(t, p) => Known(u, p)
<1> DEFINE r == [t.answers[b] EXCEPT !.at = "first"]
           g == [t EXCEPT !.answer = b, !.answers[b] = r]
           n == Len(t.filed)
           u == File(g, "user", b, FALSE)
<1>1. t \in TalkType /\ b # 0 /\ b \in 0..MaxBursts /\ ~AskedOf(t, b)
  BY PieceParts DEF Talked
<1>2. r \in AnswerType /\ r.at = "first"
  BY <1>1 DEF TalkType, AnswerType
<1>3. Asks(t, b) = u
  BY <1>1 DEF Asks, TalkType
<1> HIDE DEF r
<1>4. /\ g \in TalkType /\ g.answer = b /\ g.filed = t.filed
      /\ g.answers[b] = r /\ \A a \in Burst : a # b => g.answers[a] = t.answers[a]
  BY <1>1, <1>2 DEF TalkType
<1> HIDE DEF g
<1>5. \A a \in Burst : FiledOf(g, a) = FiledOf(t, a)
  BY <1>4 DEF FiledOf
<1>6. /\ u \in TalkType /\ u.answer = g.answer /\ u.answers = g.answers
      /\ Len(g.filed) \in Nat /\ DOMAIN g.filed = 1..Len(g.filed)
      /\ DOMAIN u.filed = 1..(Len(g.filed) + 1) /\ Len(u.filed) = Len(g.filed) + 1
      /\ u.filed # <<>>
      /\ \A i \in 1..Len(g.filed) : u.filed[i] = g.filed[i]
      /\ u.filed[Len(g.filed) + 1] = [role |-> "user", of |-> b, cut |-> FALSE]
      /\ \A c \in Burst : FiledOf(u, c) =
           FiledOf(g, c) \cup (IF "user" = "assistant" /\ c = b THEN {Len(g.filed) + 1} ELSE {})
  <2>1. "user" \in {"user", "assistant"} /\ FALSE \in BOOLEAN
    OBVIOUS
  <2> QED
    BY <1>4, <2>1, EntryFiled, ZenonT(60)
<1> HIDE DEF u
<1>7. /\ u \in TalkType /\ u.answer = b /\ u.answers[b] = r
      /\ \A a \in Burst : a # b => u.answers[a] = t.answers[a]
      /\ n \in Nat /\ DOMAIN t.filed = 1..n
      /\ DOMAIN u.filed = 1..(n + 1) /\ Len(u.filed) = n + 1 /\ u.filed # <<>>
      /\ \A i \in 1..n : u.filed[i] = t.filed[i]
      /\ u.filed[n + 1] = Question(b)
      /\ \A a \in Burst : FiledOf(u, a) = FiledOf(t, a)
  BY <1>4, <1>5, <1>6 DEF Question
<1> HIDE DEF n
<1>8. \A a \in Burst : AskedOf(u, a) <=> a = b \/ AskedOf(t, a)
  BY <1>2, <1>7 DEF AskedOf
<1>9. Talked(u)
  <2>1. \A a \in Burst : u.answers[a].at \in Active <=> u.answer = a
    BY <1>1, <1>2, <1>7, PieceParts DEF Talked, Active
  <2>2. \A a, c \in Burst : u.answer = a /\ AskedOf(u, c) => c <= a
    BY <1>7, <1>8, PieceParts
  <2>3. \A a \in Burst : u.answers[a].at \in Active \cup {"none"} => FiledOf(u, a) = {}
    <3>1. FiledOf(t, b) = {}
      BY <1>1 DEF Talked, AskedOf
    <3> QED
      BY <3>1, <1>7 DEF Talked
  <2>4. \A a \in Burst : \A i, j \in FiledOf(u, a) : i = j
    BY <1>7 DEF Talked
  <2>5. ASSUME NEW i \in DOMAIN u.filed, u.filed[i].role = "assistant"
        PROVE  i > 1 /\ u.filed[i - 1] = Question(u.filed[i].of)
    <3>1. i \in 1..n
      <4>1. i # n + 1
        BY <2>5, <1>7 DEF Question
      <4> QED
        BY <4>1, <1>7
    <3>2. i > 1 /\ t.filed[i - 1] = Question(t.filed[i].of)
      BY <2>5, <3>1, <1>7 DEF Talked
    <3>3. i - 1 \in 1..n
      BY <3>1, <3>2, <1>7
    <3> QED
      BY <3>1, <3>2, <3>3, <1>7
  <2> QED
    BY <2>1, <2>2, <2>3, <2>4, <2>5, <1>7 DEF Talked
<1>10. ASSUME NEW p \in Piece, Known(t, p)
       PROVE  Known(u, p)
  <2>1. p[1] \in Burst
    BY PieceParts
  <2>2. p[1] # b
    BY <2>1, <1>1, <1>10 DEF Known
  <2> QED
    BY <2>1, <2>2, <1>7, <1>8, <1>10, <1>1, PieceParts DEF Known
<1> QED
  BY <1>3, <1>7, <1>8, <1>9, <1>10

-----------------------------------------------------------------------------
(* The spoken conversation: how they go together, step by step.            *)

\* What the speaker s has and the user heard, h, is of the answers of t; what was not
\* handed over in the drop d is of the last one, and comes in its order.
HandedOf(d) == IF d.at = "over" THEN Pieces(d.remaining) ELSE {}

Saying(s, t, d, h) ==
  /\ Shaped(s)
  /\ d.at # "none" => s.kind = "local" \/ s.failed
  /\ \A p \in Parts(s) \cup Pieces(d.remaining) \cup h : p \in Piece /\ Known(t, p)
  /\ \A p \in Parts(s) \ HandedOf(d) : Standing(t, p)
  /\ Ordered(s, HandedOf(d) \cup Aside)
  /\ Below(h, Ahead(s), HandedOf(d) \cup Aside)

\* What the speaker has stays right if it has less, nothing, one piece more at the end, or
\* if some of it is heard.
LEMMA SaysNoMore ==
  ASSUME NEW s, NEW t, NEW d, NEW h, Saying(s, t, d, h),
         NEW s2, Within(s2, s, {}), \A X : Ordered(s, X) => Ordered(s2, X),
         NEW t2, \A p \in Piece : Known(t, p) => Known(t2, p),
         \A p \in Piece : Standing(t, p) => Standing(t2, p)
  PROVE  Saying(s2, t2, d, h)
<1>1. Shaped(s2) /\ Parts(s2) \subseteq Parts(s) /\ Ahead(s2) \subseteq Ahead(s)
  BY DEF Within
<1>2. d.at # "none" => s2.kind = "local" \/ s2.failed
  BY DEF Within, Saying
<1>3. \A p \in Parts(s2) \cup Pieces(d.remaining) \cup h : p \in Piece /\ Known(t2, p)
  BY <1>1 DEF Saying
<1>4. \A p \in Parts(s2) \ HandedOf(d) : Standing(t2, p)
  BY <1>1 DEF Saying
<1>5. Ordered(s2, HandedOf(d) \cup Aside)
  BY DEF Saying
<1>6. Below(h, Ahead(s2), HandedOf(d) \cup Aside)
  BY <1>1 DEF Saying, Below
<1> QED
  BY <1>1, <1>2, <1>3, <1>4, <1>5, <1>6 DEF Saying

LEMMA SaysNothing ==
  ASSUME NEW s, NEW t, NEW d, NEW h, Saying(s, t, d, h),
         NEW s2, Quieted(s2, s),
         NEW t2, \A p \in Piece : Known(t, p) => Known(t2, p)
  PROVE  Saying(s2, t2, d, h)
<1>1. Shaped(s2) /\ Parts(s2) = {} /\ Ahead(s2) = {}
  BY DEF Quieted, Parts, Ahead, ToMake
<1>2. d.at # "none" => s2.kind = "local" \/ s2.failed
  BY DEF Quieted, Saying
<1>3. \A p \in Parts(s2) \cup Pieces(d.remaining) \cup h : p \in Piece /\ Known(t2, p)
  BY <1>1 DEF Saying
<1>4. Ordered(s2, HandedOf(d) \cup Aside)
  BY DEF Quieted
<1>5. Below(h, Ahead(s2), HandedOf(d) \cup Aside)
  BY <1>1 DEF Below
<1> QED
  BY <1>1, <1>2, <1>3, <1>4, <1>5 DEF Saying

LEMMA SaysPiece ==
  ASSUME NEW s, NEW t, NEW d, NEW h, Saying(s, t, d, h),
         NEW p \in Piece, p \in Aside \/ \A q \in h : Before(q, p),
         NEW s2, Within(s2, s, {p}), Ordered(s2, HandedOf(d) \cup Aside),
         NEW t2, \A q \in Piece : Known(t, q) => Known(t2, q),
         \A q \in Piece : Standing(t, q) => Standing(t2, q),
         Known(t2, p), Standing(t2, p)
  PROVE  Saying(s2, t2, d, h)
<1>1. Shaped(s2) /\ Parts(s2) \subseteq Parts(s) \cup {p} /\ Ahead(s2) \subseteq Ahead(s) \cup {p}
  BY DEF Within
<1>2. d.at # "none" => s2.kind = "local" \/ s2.failed
  BY DEF Within, Saying
<1>3. \A q \in Parts(s2) \cup Pieces(d.remaining) \cup h : q \in Piece /\ Known(t2, q)
  BY <1>1 DEF Saying
<1>4. \A q \in Parts(s2) \ HandedOf(d) : Standing(t2, q)
  BY <1>1 DEF Saying
<1>5. Below(h, Ahead(s2), HandedOf(d) \cup Aside)
  BY <1>1 DEF Saying, Below
<1> QED
  BY <1>1, <1>2, <1>3, <1>4, <1>5 DEF Saying

LEMMA SaysAloud ==
  ASSUME NEW s, NEW t, NEW d, NEW h, Saying(s, t, d, h),
         NEW f, f \subseteq Parts(s),
         NEW s2, Within(s2, s, {}),
         \A X : Ordered(s, X) => Ordered(s2, X) /\ Below(f, Ahead(s2), X)
  PROVE  Saying(s2, t, d, h \cup f)
<1>1. Saying(s2, t, d, h)
  BY SaysNoMore
<1>2. Below(f, Ahead(s2), HandedOf(d) \cup Aside)
  BY DEF Saying
<1>3. \A p \in f : p \in Piece /\ Known(t, p)
  BY DEF Saying
<1> QED
  BY <1>1, <1>2, <1>3 DEF Saying, Below

\* The drop to the local voice: the cloud voice fails, and the other takes over.
LEMMA SaysLess ==
  ASSUME NEW s, NEW t, NEW d, NEW h, Saying(s, t, d, h), d.at = "none",
         NEW s2, Shaped(s2), Parts(s2) \subseteq Parts(s), Ahead(s2) \subseteq Ahead(s),
         s2.failed = TRUE, \A X : Ordered(s, X) => Ordered(s2, X),
         NEW q \in Fragments, Pieces(q) \subseteq Parts(s)
  PROVE  Saying(s2, t, [at |-> "making", remaining |-> q], h)
<1> DEFINE e == [at |-> "making", remaining |-> q]
<1>1. HandedOf(d) = {} /\ HandedOf(e) = {} /\ e.remaining = q
  BY DEF HandedOf
<1> HIDE DEF e
<1>2. \A p \in Parts(s2) \cup Pieces(e.remaining) \cup h : p \in Piece /\ Known(t, p)
  BY <1>1 DEF Saying
<1>3. \A p \in Parts(s2) \ HandedOf(e) : Standing(t, p)
  BY <1>1 DEF Saying
<1>4. Ordered(s2, HandedOf(e) \cup Aside) /\ Below(h, Ahead(s2), HandedOf(e) \cup Aside)
  BY <1>1 DEF Saying, Below
<1> QED
  BY <1>2, <1>3, <1>4 DEF Saying, e

LEMMA OrderedLess ==
  ASSUME NEW s, NEW X, NEW Y, X \subseteq Y, Ordered(s, X)
  PROVE  Ordered(s, Y)
<1>1. \A S, T : Below(S, T, X) => Below(S, T, Y)
  BY DEF Below
<1> QED
  BY <1>1 DEF Ordered, Sorted

LEMMA SaysHandedOver ==
  ASSUME NEW s, NEW t, NEW d \in [at : {"none", "making", "over"}, remaining : Fragments],
         NEW h, Saying(s, t, d, h), d.at = "making",
         NEW s2, s2 = s \/ s2 = enqueue(Silent, d.remaining)
  PROVE  Saying(s2, t, [d EXCEPT !.at = "over"], h)
<1> DEFINE e == [d EXCEPT !.at = "over"]
           R == Pieces(d.remaining)
<1>1. HandedOf(d) = {} /\ HandedOf(e) = R /\ e.remaining = d.remaining
  BY DEF HandedOf
<1> HIDE DEF e
<1>2. CASE s2 = s
  <2>1. Ordered(s2, HandedOf(e) \cup Aside)
    BY <1>1, <1>2, OrderedLess DEF Saying
  <2>2. Below(h, Ahead(s2), HandedOf(e) \cup Aside)
    BY <1>1, <1>2 DEF Saying, Below
  <2> QED
    BY <2>1, <2>2, <1>1, <1>2 DEF Saying, e
<1>3. CASE s2 = enqueue(Silent, d.remaining)
  <2>1. d.remaining \in Fragments
    OBVIOUS
  <2>2. /\ Shaped(s2) /\ Parts(s2) \subseteq R /\ s2.kind = "local"
        /\ \A X : R \subseteq X => Ordered(s2, X)
    BY <2>1, <1>3, TakesOver
  <2>3. Ahead(s2) \subseteq R
    BY <2>2 DEF Ahead, Parts, ToMake
  <2>4. Ordered(s2, HandedOf(e) \cup Aside) /\ Below(h, Ahead(s2), HandedOf(e) \cup Aside)
    BY <1>1, <2>2, <2>3 DEF Below
  <2>5. \A p \in Parts(s2) \cup Pieces(e.remaining) \cup h : p \in Piece /\ Known(t, p)
    BY <1>1, <2>2 DEF Saying
  <2> QED
    BY <2>2, <2>4, <2>5, <1>1 DEF Saying, e
<1> QED
  BY <1>2, <1>3 DEF e

\* The types of all but the speaker and the talk
TypesElse ==
  /\ gate \in [burst : 0..MaxBursts, words : 0..MaxWords, barged : BOOLEAN]
  /\ bursts \in 0..MaxBursts
  /\ listening \in {"nothing", "start", "turn", "stop"} \X (0..MaxBursts)
  /\ guess \in Heard \cup {Nothing}
  /\ takes \in [Burst -> {"none", "guess", "read", "over"}]
  /\ drop \in [at : {"none", "making", "over"}, remaining : Fragments]
  /\ stage \in {"live", "muted", "closed"}
  /\ events \in 0..MaxEvents
  /\ aired \subseteq Piece /\ unread \in BOOLEAN

\* A burst is read after it has ended, and asks for an answer when it was read; the one
\* that ended last is the last there was.
Turns ==
  /\ gate.burst \in {0, bursts}
  /\ gate.burst = 0 => gate.words = 0
  /\ gate.burst # 0 => takes[gate.burst] = "none"
  /\ \A b \in Burst : b > bursts => takes[b] = "none"
  /\ \A b \in Burst : AskedOf(talk, b) => takes[b] = "over"
  /\ listening[1] = "turn" => listening[2] = bursts

Closed == stage = "closed" => talk.answer = 0 /\ Parts(speaker) = {} /\ listening[1] = "stop"

VoiceInv ==
  /\ TypesElse
  /\ Talked(talk)
  /\ Saying(speaker, talk, drop, aired)
  /\ Turns
  /\ Closed

LEMMA VoiceTypes == VoiceInv => TypeOK
BY DEF VoiceInv, TypesElse, Talked, TalkType, AnswerType, Saying, Shaped, SpeakerType, TypeOK, Fragments

\* A conversation opens with nothing said.
LEMMA SpeechStartsRight == Init => VoiceInv
<1> SUFFICES ASSUME Init PROVE VoiceInv
  OBVIOUS
<1>0. 0 \in 0..MaxBursts /\ 0 \in 0..MaxWords /\ 0 \in 0..MaxPieces /\ 0 \in 0..MaxEvents
      /\ MaxBursts \in Nat /\ \A b \in Burst : b # 0
  BY ConstantsAssumption DEF Burst
<1>1. <<>> \in Fragments /\ <<>> \in Seq(Entry) /\ DOMAIN <<>> = {} /\ Len(<<>>) = 0
  BY DEF Fragments
<1>2. TypesElse
  <2>1. gate \in [burst : 0..MaxBursts, words : 0..MaxWords, barged : BOOLEAN]
    BY <1>0 DEF Init, NoBurst
  <2>2. drop \in [at : {"none", "making", "over"}, remaining : Fragments]
    BY <1>1 DEF Init
  <2>3. listening \in {"nothing", "start", "turn", "stop"} \X (0..MaxBursts)
    BY <1>0 DEF Init
  <2>4. takes \in [Burst -> {"none", "guess", "read", "over"}]
    BY DEF Init
  <2> QED
    BY <2>1, <2>2, <2>3, <2>4, <1>0 DEF Init, TypesElse
<1>3. Talked(talk)
  <2>1. talk \in TalkType
    BY <1>0, <1>1 DEF Init, TalkType, AnswerType
  <2>2. /\ talk.answer = 0 /\ talk.filed = <<>> /\ \A b \in Burst : talk.answers[b].at = "none"
    BY DEF Init
  <2>3. \A b \in Burst : FiledOf(talk, b) = {}
    BY <1>1, <2>2 DEF FiledOf
  <2> QED
    BY <1>0, <1>1, <2>1, <2>2, <2>3 DEF Talked, AskedOf, Active
<1>4. Saying(speaker, talk, drop, aired)
  <2>1. PICK v \in {"local", "cloud"} : speaker = [Silent EXCEPT !.kind = v]
    BY ConstantsAssumption DEF Init
  <2>2. /\ speaker.pending = <<>> /\ speaker.awaited = <<>> /\ speaker.playing = <<>>
        /\ speaker.held = <<>> /\ speaker.chunk = {}
    BY <2>1 DEF Silent
  <2>3. Shaped(speaker)
    <3>1. /\ speaker \in SpeakerType /\ speaker.suspended = FALSE /\ speaker.inFlight = FALSE
          /\ speaker.sounding = FALSE
      BY <2>1, <1>1, EmptyFragment DEF Silent, SpeakerType
    <3> QED
      BY <3>1, <2>2, <1>1 DEF Shaped
  <2>4. Parts(speaker) = {} /\ Ahead(speaker) = {} /\ \A X : Ordered(speaker, X)
    BY <2>2, <2>3, NothingToSay
  <2>5. drop.at = "none" /\ Pieces(drop.remaining) = {} /\ aired = {}
    BY PiecesEmpty DEF Init
  <2> QED
    BY <2>3, <2>4, <2>5 DEF Saying, Below
<1>5. Turns /\ Closed
  BY <1>0 DEF Init, Turns, Closed, NoBurst, AskedOf
<1> QED
  BY <1>2, <1>3, <1>4, <1>5 DEF VoiceInv

\* The answers' steps
LEMMA TalkingKeeps ==
  ASSUME VoiceInv, KeepsTalking, stage # "closed", Talked(talk'),
         Saying(speaker', talk', drop, aired),
         \A b \in Burst : AskedOf(talk', b) <=> AskedOf(talk, b)
  PROVE  VoiceInv'
<1>1. /\ gate' = gate /\ bursts' = bursts /\ guess' = guess /\ listening' = listening
      /\ takes' = takes /\ drop' = drop /\ stage' = stage /\ events' = events /\ aired' = aired
      /\ unread' = unread
  BY DEF KeepsTalking, micVars
<1>2. TypesElse' /\ Closed'
  BY <1>1 DEF VoiceInv, TypesElse, Closed
<1>3. Turns'
  BY <1>1 DEF VoiceInv, Turns
<1> QED
  BY <1>1, <1>2, <1>3 DEF VoiceInv

LEMMA WritersAnswer ==
  ASSUME VoiceInv, NEW a \in Burst, talk.answers[a].at \in Active
  PROVE  talk.answer = a /\ stage # "closed"
BY PieceParts DEF VoiceInv, Talked, Closed

LEMMA SpeechKeeps ==
  ASSUME VoiceInv, NEW a \in Burst, NEW ends \in BOOLEAN, Speech(a, ends)
  PROVE  VoiceInv'
<1>0. Talked(talk) /\ Saying(speaker, talk, drop, aired) /\ Shaped(speaker) /\ talk \in TalkType
  BY DEF VoiceInv, Saying, Talked
<1>1. CASE Mine(a)
  <2> DEFINE n == talk.answers[a].wrote + 1
             r == [at |-> "stream", wrote |-> n]
             p == <<a, n>>
  <2>1. /\ n \in 0..MaxPieces /\ talk.answers[a].wrote \in Nat /\ n # 0
        /\ talk' = [talk EXCEPT !.answers[a] = r] /\ speaker' = push(speaker, p, ends)
        /\ talk.answer = a
    BY <1>1, <1>0, ConstantsAssumption DEF Speech, Mine, TalkType, AnswerType
  <2>2. r \in AnswerType /\ r.at \in Active /\ r.wrote = n /\ n >= talk.answers[a].wrote
    BY <2>1 DEF AnswerType, Active
  <2>3. p \in Piece /\ p[1] = a /\ p[2] = n
    BY <2>1, PieceParts
  <2> HIDE DEF r, p
  <2>4. /\ Onward(talk, talk') /\ talk'.answer = a /\ talk'.answers[a] = r
        /\ Talked(talk')
        /\ \A b \in Burst : AskedOf(talk', b) <=> AskedOf(talk, b)
        /\ \A q \in Piece : Known(talk, q) => Known(talk', q)
        /\ \A q \in Piece : Standing(talk, q) => Standing(talk', q)
    <3>1. GoesOn(talk, talk', a, r)
      BY <1>0, <2>1, <2>2 DEF GoesOn
    <3> QED
      BY <3>1, AnswerGoesOn DEF Onward
  <2>5. AskedOf(talk, a) /\ \A b \in Burst : AskedOf(talk, b) => b <= a
    BY <1>0, <2>1 DEF Talked, AskedOf, Active
  <2>6. \A q \in Parts(speaker) \cup aired : Before(q, p)
    <3> SUFFICES ASSUME NEW q \in Parts(speaker) \cup aired PROVE Before(q, p)
      OBVIOUS
    <3>1. q \in Piece /\ Known(talk, q)
      BY DEF VoiceInv, Saying
    <3>2. q[1] \in Burst /\ q[1] <= a /\ q[2] \in 0..MaxPieces
      BY <3>1, <2>5, PieceParts DEF Known
    <3>3. q[1] = a => q[2] < n
      BY <3>1, <3>2, <2>1 DEF Known
    <3> QED
      BY <3>2, <3>3, <2>3, PieceParts DEF Before
  <2>7. Within(speaker', speaker, {p}) /\ Ordered(speaker', HandedOf(drop) \cup Aside)
    <3>1. Ahead(speaker) \subseteq Parts(speaker)
      BY DEF Ahead, Parts, ToMake
    <3>2. Below(Ahead(speaker), {p}, HandedOf(drop) \cup Aside)
      BY <3>1, <2>6 DEF Below
    <3>3. /\ Within(speaker', speaker, {p})
          /\ \A X : Ordered(speaker, X) /\ Below(Ahead(speaker), {p}, X) => Ordered(speaker', X)
      BY <1>0, <2>1, <2>3, Pushed
    <3> QED
      BY <3>2, <3>3, <1>0 DEF Saying
  <2>8. Known(talk', p)
    BY <2>2, <2>3, <2>4, <2>5, <2>1 DEF Known
  <2>9. Standing(talk', p)
    <3>1. r.at # "aborted"
      BY <2>2 DEF Active
    <3> QED
      BY <3>1, <2>3, <2>4, <2>5 DEF Standing
  <2>10. Saying(speaker', talk', drop, aired)
    BY <1>0, <2>3, <2>4, <2>6, <2>7, <2>8, <2>9, SaysPiece
  <2>11. stage # "closed"
    BY <2>1, PieceParts DEF VoiceInv, Closed
  <2> QED
    BY <2>4, <2>10, <2>11, TalkingKeeps DEF Speech
<1>2. CASE ~Mine(a)
  <2>1. UNCHANGED vars
    BY <1>2 DEF Speech, KeepsTalking, vars
  <2> QED
    BY <2>1 DEF vars, micVars, VoiceInv, TypesElse, Turns, Closed
<1> QED
  BY <1>1, <1>2

LEMMA SearchKeeps ==
  ASSUME VoiceInv, NEW a \in Burst, Search(a)
  PROVE  VoiceInv'
<1>0. Talked(talk) /\ Saying(speaker, talk, drop, aired) /\ Shaped(speaker) /\ talk \in TalkType
  BY DEF VoiceInv, Saying, Talked
<1>1. talk.answer = a /\ stage # "closed" /\ talk.answers[a] \in AnswerType
  BY <1>0, WritersAnswer DEF Search, Active, TalkType
<1> DEFINE r == [talk.answers[a] EXCEPT !.at = "search"]
           p == <<a, 0>>
<1>2. r \in AnswerType /\ r.at = "search" /\ r.wrote = talk.answers[a].wrote /\ r.wrote \in Nat
  BY <1>1, ConstantsAssumption DEF AnswerType
<1>3. talk' = [talk EXCEPT !.answers[a] = r] /\ speaker' = emit(speaker, {p})
  BY <1>0 DEF Search, say, TalkType
<1>4. p \in Piece /\ p[1] = a /\ p[2] = 0 /\ p \in Aside
  BY PieceParts DEF Aside
<1> HIDE DEF r, p
<1>5. r.at \in Active /\ r.wrote >= talk.answers[a].wrote
  BY <1>2 DEF Active
<1>6. /\ Onward(talk, talk') /\ talk'.answer = a /\ talk'.answers[a] = r
      /\ Talked(talk')
      /\ \A b \in Burst : AskedOf(talk', b) <=> AskedOf(talk, b)
      /\ \A q \in Piece : Known(talk, q) => Known(talk', q)
      /\ \A q \in Piece : Standing(talk, q) => Standing(talk', q)
  <2>1. GoesOn(talk, talk', a, r)
    BY <1>0, <1>1, <1>2, <1>3, <1>5 DEF GoesOn
  <2> QED
    BY <2>1, AnswerGoesOn DEF Onward
<1>7. AskedOf(talk, a) /\ \A b \in Burst : AskedOf(talk, b) => b <= a
  BY <1>0, <1>1 DEF Talked, AskedOf, Active
<1>8. Known(talk', p) /\ Standing(talk', p)
  BY <1>2, <1>4, <1>6, <1>7 DEF Known, Standing
<1>9. {p} \in Fragment
  BY <1>4 DEF Fragment
<1>10. /\ Within(speaker', speaker, {p})
       /\ \A X : Ordered(speaker, X) /\ Below(Ahead(speaker), {p}, X) /\ Below({p}, speaker.chunk, X)
                    => Ordered(speaker', X)
  BY <1>0, <1>3, <1>9, Emitted
<1>11. Ordered(speaker', HandedOf(drop) \cup Aside)
  <2> DEFINE X == HandedOf(drop) \cup Aside
  <2>1. Below(Ahead(speaker), {p}, X) /\ Below({p}, speaker.chunk, X)
    BY <1>4 DEF Below
  <2> QED
    BY <2>1, <1>0, <1>10 DEF Saying
<1>12. Saying(speaker', talk', drop, aired)
  BY <1>0, <1>4, <1>6, <1>8, <1>10, <1>11, SaysPiece
<1> QED
  BY <1>1, <1>6, <1>12, TalkingKeeps DEF Search

LEMMA SearchedKeeps ==
  ASSUME VoiceInv, NEW a \in Burst, Searched(a)
  PROVE  VoiceInv'
<1>0. Talked(talk) /\ Saying(speaker, talk, drop, aired) /\ Shaped(speaker) /\ talk \in TalkType
  BY DEF VoiceInv, Saying, Talked
<1>1. talk.answer = a /\ stage # "closed" /\ talk.answers[a] \in AnswerType
  BY <1>0, WritersAnswer DEF Searched, Active, TalkType
<1> DEFINE r == [talk.answers[a] EXCEPT !.at = "stream"]
<1>2. r \in AnswerType /\ r.at \in Active /\ r.wrote = talk.answers[a].wrote /\ r.wrote \in Nat
  BY <1>1, ConstantsAssumption DEF AnswerType, Active
<1>3. talk' = [talk EXCEPT !.answers[a] = r] /\ speaker' = speaker
  BY <1>0 DEF Searched, TalkType
<1> HIDE DEF r
<1>4. GoesOn(talk, talk', a, r)
  BY <1>0, <1>1, <1>2, <1>3 DEF GoesOn
<1>5. Onward(talk, talk')
  BY <1>4, AnswerGoesOn
<1>6. Within(speaker', speaker, {}) /\ \A X : Ordered(speaker, X) => Ordered(speaker', X)
  BY <1>0, <1>3 DEF Within
<1>7. Saying(speaker', talk', drop, aired)
  BY <1>0, <1>5, <1>6, SaysNoMore DEF Onward
<1> QED
  BY <1>1, <1>5, <1>7, TalkingKeeps DEF Searched, Onward

LEMMA WrittenKeeps ==
  ASSUME VoiceInv, NEW a \in Burst, Written(a)
  PROVE  VoiceInv'
<1>0. Talked(talk) /\ Saying(speaker, talk, drop, aired) /\ Shaped(speaker)
  BY DEF VoiceInv, Saying
<1>1. talk.answer = a /\ stage # "closed"
  BY WritersAnswer DEF Written, Writes, Active
<1>2. Ends(talk, talk', a, "over", FALSE)
  BY <1>0, <1>1 DEF Written, Ends
<1>3. Onward(talk, talk')
  BY <1>2, AnswerEnds
<1>4. speaker' = flush(speaker)
  BY DEF Written
<1>5. Within(speaker', speaker, {}) /\ \A X : Ordered(speaker, X) => Ordered(speaker', X)
  BY <1>0, <1>4, ChunkFlushed
<1>6. Saying(speaker', talk', drop, aired)
  BY <1>0, <1>3, <1>5, SaysNoMore DEF Onward
<1> QED
  BY <1>1, <1>3, <1>6, TalkingKeeps DEF Written, Onward

LEMMA FailsKeeps ==
  ASSUME VoiceInv, NEW a \in Burst, Fails(a)
  PROVE  VoiceInv'
<1>0. Talked(talk) /\ Saying(speaker, talk, drop, aired) /\ Shaped(speaker)
  BY DEF VoiceInv, Saying
<1>1. talk.answer = a /\ stage # "closed"
  BY WritersAnswer DEF Fails, Writes, Active
<1>2. Breaks(talk, talk', a) /\ speaker' = speaker
  BY <1>0, <1>1 DEF Fails, Breaks
<1>3. Onward(talk, talk')
  BY <1>2, AnswerFails
<1>4. Within(speaker', speaker, {}) /\ \A X : Ordered(speaker, X) => Ordered(speaker', X)
  BY <1>0, <1>2 DEF Within
<1>5. Saying(speaker', talk', drop, aired)
  BY <1>0, <1>3, <1>4, SaysNoMore DEF Onward
<1> QED
  BY <1>1, <1>3, <1>5, TalkingKeeps DEF Fails, Onward

\* The gate's steps leave the talk alone, and the speaker says no more.
LEMMA HearingKeeps ==
  ASSUME VoiceInv, stage # "closed", KeepsQuiet, TypesElse', Turns',
         Within(speaker', speaker, {}), \A X : Ordered(speaker, X) => Ordered(speaker', X)
  PROVE  VoiceInv'
<1>1. talk' = talk /\ drop' = drop /\ stage' = stage /\ aired' = aired
  BY DEF KeepsQuiet
<1>2. Saying(speaker, talk, drop, aired) /\ Talked(talk)
  BY DEF VoiceInv
<1>3. Saying(speaker', talk, drop, aired)
  BY <1>2, SaysNoMore
<1> QED
  BY <1>1, <1>2, <1>3 DEF VoiceInv, Closed

LEMMA SameSpeaker ==
  ASSUME VoiceInv, speaker' = speaker
  PROVE  Within(speaker', speaker, {}) /\ \A X : Ordered(speaker, X) => Ordered(speaker', X)
BY DEF Within, VoiceInv, Saying

LEMMA HeardTypes ==
  /\ Nothing = <<0, 0>>
  /\ \A b \in 1..MaxBursts, n \in 1..MaxWords : <<b, n>> \in Heard
  /\ NoBurst \in [burst : 0..MaxBursts, words : 0..MaxWords, barged : BOOLEAN]
  /\ NoBurst.burst = 0
  /\ MaxBursts \in Nat /\ MaxWords \in Nat /\ MaxEvents \in Nat
BY ConstantsAssumption DEF Heard, Burst, Nothing, NoBurst

LEMMA SpeechStartsKeeps ==
  ASSUME VoiceInv, SpeechStarts
  PROVE  VoiceInv'
<1>0. TypesElse /\ Turns
  BY DEF VoiceInv
<1>1. /\ stage = "live" /\ bursts < MaxBursts /\ bursts' = bursts + 1
      /\ gate' = [NoBurst EXCEPT !.burst = bursts + 1] /\ listening' = <<"start", bursts + 1>>
      /\ guess' = guess /\ takes' = takes /\ speaker' = speaker /\ talk' = talk
      /\ drop' = drop /\ stage' = stage /\ aired' = aired /\ unread' = FALSE
      /\ events < MaxEvents /\ events' = events + 1
  BY DEF SpeechStarts, Hears, KeepsQuiet, Event
<1>2. bursts \in 0..MaxBursts /\ events \in 0..MaxEvents
  BY <1>0 DEF TypesElse
<1>3. bursts + 1 \in 0..MaxBursts /\ events + 1 \in 0..MaxEvents
  BY <1>1, <1>2, HeardTypes
<1>4. TypesElse'
  <2>1. gate' \in [burst : 0..MaxBursts, words : 0..MaxWords, barged : BOOLEAN]
    BY <1>1, <1>3, HeardTypes
  <2>2. listening' \in {"nothing", "start", "turn", "stop"} \X (0..MaxBursts)
    BY <1>1, <1>3
  <2> QED
    BY <2>1, <2>2, <1>0, <1>1, <1>3 DEF TypesElse
<1>5. Turns'
  <2>1. gate'.burst = bursts + 1 /\ bursts + 1 # 0
    BY <1>1, <1>2, HeardTypes
  <2>2. bursts + 1 \in Burst /\ bursts + 1 > bursts
    BY <1>1, <1>2, HeardTypes DEF Burst
  <2>3. takes[bursts + 1] = "none"
    BY <2>2, <1>0 DEF Turns
  <2>4. \A b \in Burst : b > bursts + 1 => takes[b] = "none"
    BY <1>0, <1>2, PieceParts DEF Turns
  <2> QED
    BY <2>1, <2>3, <2>4, <1>0, <1>1 DEF Turns
<1> QED
  BY <1>1, <1>4, <1>5, SameSpeaker, HearingKeeps DEF SpeechStarts

LEMMA WordKeeps ==
  ASSUME VoiceInv, Word
  PROVE  VoiceInv'
<1>0. TypesElse /\ Turns
  BY DEF VoiceInv
<1>1. gate.words < MaxWords /\ gate' = [gate EXCEPT !.words = @ + 1] /\ stage # "closed"
  BY DEF Word, Hears
<1>2. /\ gate' \in [burst : 0..MaxBursts, words : 0..MaxWords, barged : BOOLEAN]
      /\ gate'.burst = gate.burst
  BY <1>0, <1>1, HeardTypes DEF TypesElse
<1>3. TypesElse' /\ Turns'
  BY <1>0, <1>2 DEF Now, Word, KeepsQuiet, TypesElse, Turns
<1> QED
  BY <1>1, <1>3, SameSpeaker, HearingKeeps DEF Word

LEMMA BargesInKeeps ==
  ASSUME VoiceInv, BargesIn
  PROVE  VoiceInv'
<1>0. TypesElse /\ Turns /\ Shaped(speaker)
  BY DEF VoiceInv, Saying
<1>1. gate' = [gate EXCEPT !.barged = TRUE] /\ stage # "closed" /\ speaker' = suspend(speaker)
  BY DEF BargesIn, Hears
<1>2. /\ gate' \in [burst : 0..MaxBursts, words : 0..MaxWords, barged : BOOLEAN]
      /\ gate'.burst = gate.burst
      /\ gate'.words = gate.words
  BY <1>0, <1>1 DEF TypesElse
<1>3. TypesElse' /\ Turns'
  BY <1>0, <1>2 DEF BargesIn, KeepsQuiet, TypesElse, Turns
<1>4. Within(speaker', speaker, {}) /\ \A X : Ordered(speaker, X) => Ordered(speaker', X)
  BY <1>0, <1>1, SpeakerSuspended
<1> QED
  BY <1>1, <1>3, <1>4, HearingKeeps DEF BargesIn

LEMMA PauseKeeps ==
  ASSUME VoiceInv, Pause
  PROVE  VoiceInv'
<1>0. TypesElse /\ Turns /\ stage # "closed"
  BY DEF VoiceInv, Pause, Hears
<1>1. guess' \in Heard \cup {Nothing}
  <2>1. gate.burst \in 1..MaxBursts /\ gate.words \in 1..MaxWords
    BY <1>0, HeardTypes DEF Pause, TypesElse, Turns
  <2> QED
    BY <2>1, HeardTypes DEF Pause, Now
<1>2. TypesElse' /\ Turns'
  BY <1>0, <1>1 DEF Pause, KeepsQuiet, TypesElse, Turns
<1> QED
  BY <1>0, <1>2, SameSpeaker, HearingKeeps DEF Pause

LEMMA SpeechEndsKeeps ==
  ASSUME VoiceInv, SpeechEnds
  PROVE  VoiceInv'
<1>0. TypesElse /\ Turns /\ stage # "closed" /\ Talked(talk)
  BY DEF VoiceInv, SpeechEnds, Hears
<1> DEFINE b == gate.burst
<1>1. /\ b \in Burst /\ b = bursts /\ takes[b] = "none"
  BY <1>0, HeardTypes DEF SpeechEnds, TypesElse, Turns, Burst
<1>2. /\ listening' = <<"turn", b>> /\ gate' = NoBurst /\ guess' = Nothing
      /\ \E x \in {"guess", "read"} : takes' = [takes EXCEPT ![b] = x]
      /\ bursts' = bursts /\ events' = events /\ unread' = unread /\ speaker' = speaker
      /\ talk' = talk /\ drop' = drop /\ stage' = stage /\ aired' = aired
  BY DEF SpeechEnds, Now, KeepsQuiet
<1> HIDE DEF b
<1>3. PICK x \in {"guess", "read"} : takes' = [takes EXCEPT ![b] = x]
  BY <1>2
<1>4. TypesElse'
  <2>1. takes' \in [Burst -> {"none", "guess", "read", "over"}]
    BY <1>0, <1>3 DEF TypesElse
  <2>2. listening' \in {"nothing", "start", "turn", "stop"} \X (0..MaxBursts)
    BY <1>1, <1>2, PieceParts
  <2> QED
    BY <2>1, <2>2, <1>0, <1>2, HeardTypes DEF TypesElse
<1>5. Turns'
  <2>1. takes \in [Burst -> {"none", "guess", "read", "over"}] /\ bursts \in Nat
    BY <1>0 DEF TypesElse
  <2>2. \A c \in Burst : c # b => takes'[c] = takes[c]
    BY <2>1, <1>3
  <2>3. gate'.burst = 0 /\ gate'.words = 0
    BY <1>2 DEF NoBurst
  <2>4. ~AskedOf(talk, b)
    BY <1>0, <1>1 DEF Turns
  <2>5. ASSUME NEW c \in Burst, c > bursts PROVE takes'[c] = "none"
    <3>1. c # b
      BY <2>1, <2>5, <1>1, PieceParts
    <3> QED
      BY <3>1, <2>2, <2>5, <1>0 DEF Turns
  <2>6. \A c \in Burst : AskedOf(talk, c) => takes'[c] = "over"
    BY <2>2, <2>4, <1>0 DEF Turns
  <2> QED
    BY <2>3, <2>5, <2>6, <1>1, <1>2 DEF Turns
<1> QED
  BY <1>0, <1>4, <1>5, SameSpeaker, HearingKeeps, <1>2 DEF SpeechEnds

LEMMA DiscardsKeeps ==
  ASSUME VoiceInv, Discards
  PROVE  VoiceInv'
<1>0. TypesElse /\ Turns /\ Shaped(speaker)
  BY DEF VoiceInv, Saying
<1>1. gate' = NoBurst /\ stage # "closed" /\ speaker' = resume(speaker)
  BY DEF Discards, Hears
<1>2. TypesElse' /\ Turns'
  <2>1. NoBurst.words = 0
    BY DEF NoBurst
  <2> QED
    BY <2>1, <1>0, <1>1, HeardTypes DEF Discards, KeepsQuiet, TypesElse, Turns
<1>3. Within(speaker', speaker, {}) /\ \A X : Ordered(speaker, X) => Ordered(speaker', X)
  BY <1>0, <1>1, SpeakerResumed
<1> QED
  BY <1>1, <1>2, <1>3, HearingKeeps DEF Discards

\* A turn goes on, or is over.
LEMMA TurnKeeps ==
  ASSUME VoiceInv, NEW b \in Burst, takes[b] \in {"guess", "read"}, KeepsGate,
         guess' \in {guess, Nothing}, unread' \in BOOLEAN,
         NEW x \in {"read", "over"}, takes' = [takes EXCEPT ![b] = x],
         Talked(talk'), Saying(speaker', talk', drop, aired),
         \A c \in Burst : AskedOf(talk', c) => AskedOf(talk, c) \/ (c = b /\ x = "over"),
         stage = "closed" => talk' = talk /\ speaker' = speaker
  PROVE  VoiceInv'
<1>0. TypesElse /\ Turns /\ Closed
  BY DEF VoiceInv
<1>1. /\ gate' = gate /\ bursts' = bursts /\ listening' = listening
      /\ drop' = drop /\ stage' = stage /\ events' = events /\ aired' = aired
  BY DEF KeepsGate
<1>2. takes \in [Burst -> {"none", "guess", "read", "over"}]
  BY <1>0 DEF TypesElse
<1>3. takes' \in [Burst -> {"none", "guess", "read", "over"}] /\ takes'[b] = x
      /\ \A c \in Burst : c # b => takes'[c] = takes[c]
  BY <1>2
<1>4. TypesElse'
  BY <1>0, <1>1, <1>3 DEF TypesElse
<1>5. Turns'
  <2>1. gate.burst # 0 => gate.burst \in Burst
    BY <1>0, HeardTypes DEF TypesElse, Burst
  <2>2. gate.burst # 0 => takes'[gate.burst] = "none"
    BY <2>1, <1>0, <1>3 DEF Turns
  <2>3. \A c \in Burst : c > bursts => takes'[c] = "none"
    BY <1>0, <1>3 DEF Turns
  <2>4. \A c \in Burst : AskedOf(talk', c) => takes'[c] = "over"
    BY <1>0, <1>3 DEF Turns
  <2> QED
    BY <2>2, <2>3, <2>4, <1>0, <1>1 DEF Turns
<1>6. Closed'
  BY <1>0, <1>1 DEF Closed
<1> QED
  BY <1>1, <1>4, <1>5, <1>6 DEF VoiceInv

\* A turn that was read resumes the speaker, or cuts it off and asks.
LEMMA UnderstoodKeeps ==
  ASSUME VoiceInv, NEW b \in Burst, takes[b] \in {"guess", "read"}, KeepsGate,
         guess' = guess, Understood(b)
  PROVE  VoiceInv'
<1>0. /\ TypesElse /\ Turns /\ Closed /\ Talked(talk) /\ Saying(speaker, talk, drop, aired)
      /\ Shaped(speaker)
  BY DEF VoiceInv, Saying
<1>1. takes' = [takes EXCEPT ![b] = "over"] /\ unread' \in BOOLEAN
  BY <1>0 DEF Understood, Ended, TypesElse
<1>2. CASE talk' = talk /\ speaker' = speaker
  BY <1>0, <1>1, <1>2, TurnKeeps
<1>3. CASE Current(b) /\ speaker' = resume(speaker) /\ talk' = talk
  <2>1. stage # "closed"
    BY <1>0, <1>3 DEF Current, Closed
  <2>2. Within(speaker', speaker, {}) /\ \A X : Ordered(speaker, X) => Ordered(speaker', X)
    BY <1>0, <1>3, SpeakerResumed
  <2>3. Saying(speaker', talk, drop, aired)
    BY <1>0, <2>2, SaysNoMore
  <2> QED
    BY <2>1, <2>3, <1>0, <1>1, <1>3, TurnKeeps
<1>4. CASE Current(b) /\ speaker' = cancel(speaker) /\ talk' = Asks(abandon(talk, TRUE), b)
  <2> DEFINE t == abandon(talk, TRUE)
  <2>1. stage # "closed" /\ b = bursts
    BY <1>0, <1>4 DEF Current, Closed, Turns
  <2>2. \A c \in Burst : AskedOf(talk, c) => c < b
    <3> SUFFICES ASSUME NEW c \in Burst, AskedOf(talk, c) PROVE c < b
      OBVIOUS
    <3>1. takes[c] = "over"
      BY <1>0 DEF Turns
    <3>2. c # b /\ ~(c > bursts)
      BY <3>1, <1>0 DEF Turns
    <3> QED
      BY <3>2, <2>1, PieceParts
  <2>3. /\ Talked(t) /\ t.answer = 0
        /\ \A c \in Burst : AskedOf(t, c) <=> AskedOf(talk, c)
        /\ \A p \in Piece : Known(talk, p) => Known(t, p)
    BY <1>0, Abandoned
  <2> HIDE DEF t
  <2>4. /\ Talked(Asks(t, b))
        /\ \A c \in Burst : AskedOf(Asks(t, b), c) <=> c = b \/ AskedOf(t, c)
        /\ \A p \in Piece : Known(t, p) => Known(Asks(t, b), p)
    BY <2>2, <2>3, QuestionAsked
  <2>5. talk' = Asks(t, b)
    BY <1>4 DEF t
  <2>6. /\ Talked(talk')
        /\ \A c \in Burst : AskedOf(talk', c) => AskedOf(talk, c) \/ c = b
        /\ \A p \in Piece : Known(talk, p) => Known(talk', p)
    BY <2>3, <2>4, <2>5
  <2>7. Quieted(speaker', speaker)
    BY <1>0, <1>4, SpeakerCancelled
  <2>8. Saying(speaker', talk', drop, aired)
    BY <1>0, <2>6, <2>7, SaysNothing
  <2> QED
    BY <2>1, <2>6, <2>8, <1>1, TurnKeeps
<1> QED
  BY <1>2, <1>3, <1>4 DEF Understood

LEMMA ReadBackKeeps ==
  ASSUME VoiceInv, NEW b \in Burst, ReadBack(b)
  PROVE  VoiceInv'
<1>1. takes[b] = "read" /\ KeepsGate /\ guess' = guess
  BY DEF ReadBack
<1>2. CASE Understood(b)
  BY <1>1, <1>2, UnderstoodKeeps
<1>3. CASE Unreadable(b)
  <2>1. /\ takes' = [takes EXCEPT ![b] = "over"] /\ talk' = talk /\ speaker' = speaker
        /\ unread' \in BOOLEAN
    BY <1>3 DEF Unreadable, Ended, VoiceInv, TypesElse, Saying, Shaped, SpeakerType
  <2> QED
    BY <2>1, <1>1, TurnKeeps DEF VoiceInv
<1> QED
  BY <1>2, <1>3 DEF ReadBack

LEMMA GuessBackKeeps ==
  ASSUME VoiceInv, NEW b \in Burst, GuessBack(b)
  PROVE  VoiceInv'
<1>1. takes[b] = "guess" /\ KeepsGate
  BY DEF GuessBack
<1>2. CASE Understood(b) /\ guess' = guess
  BY <1>1, <1>2, UnderstoodKeeps
<1>3. CASE /\ takes' = [takes EXCEPT ![b] = "read"] /\ guess' = Nothing
           /\ talk' = talk /\ speaker' = speaker /\ unread' = unread
  BY <1>1, <1>3, TurnKeeps DEF VoiceInv, TypesElse
<1> QED
  BY <1>2, <1>3 DEF GuessBack

\* The voice's steps
LEMMA VoicingKeeps ==
  ASSUME VoiceInv, KeepsSpeaking, events' \in 0..MaxEvents,
         drop' \in [at : {"none", "making", "over"}, remaining : Fragments],
         Saying(speaker', talk, drop', aired'),
         stage = "closed" => Parts(speaker') = {}
  PROVE  VoiceInv'
<1>1. /\ gate' = gate /\ bursts' = bursts /\ guess' = guess /\ listening' = listening
      /\ takes' = takes /\ talk' = talk /\ stage' = stage /\ unread' = unread
  BY DEF KeepsSpeaking, micVars
<1>2. aired' \subseteq Piece
  BY DEF Saying
<1>3. TypesElse' /\ Turns' /\ Closed'
  BY <1>1, <1>2 DEF VoiceInv, TypesElse, Turns, Closed
<1> QED
  BY <1>1, <1>3 DEF VoiceInv

LEMMA AiringKeeps ==
  ASSUME VoiceInv, KeepsSpeaking, events' = events, drop' = drop,
         NEW f, f \subseteq Parts(speaker), aired' = aired \cup f,
         Within(speaker', speaker, {}),
         \A X : Ordered(speaker, X) => Ordered(speaker', X) /\ Below(f, Ahead(speaker'), X)
  PROVE  VoiceInv'
<1>1. Saying(speaker', talk, drop, aired \cup f)
  BY SaysAloud DEF VoiceInv
<1>2. stage = "closed" => Parts(speaker') = {}
  BY DEF VoiceInv, Closed, Within
<1>3. /\ drop \in [at : {"none", "making", "over"}, remaining : Fragments]
      /\ events \in 0..MaxEvents
  BY DEF VoiceInv, TypesElse
<1> QED
  BY <1>1, <1>2, <1>3, VoicingKeeps

LEMMA QuietVoicingKeeps ==
  ASSUME VoiceInv, KeepsSpeaking, events' = events, drop' = drop, aired' = aired,
         Within(speaker', speaker, {}), \A X : Ordered(speaker, X) => Ordered(speaker', X)
  PROVE  VoiceInv'
<1>1. \A X, S : Below({}, S, X)
  BY DEF Below
<1> QED
  BY <1>1, AiringKeeps

LEMMA GeneratedKeeps ==
  ASSUME VoiceInv, Generated
  PROVE  VoiceInv'
<1>0. /\ Shaped(speaker) /\ KeepsSpeaking /\ events' = events /\ drop' = drop
      /\ speaker.kind = "local" /\ ~speaker.sounding
  BY DEF VoiceInv, Saying, Generated, Shaped
<1>1. CASE speaker.awaited # <<>>
           /\ LET f == Head(speaker.awaited)
                  next == [speaker EXCEPT !.awaited = <<>>, !.inFlight = FALSE]
              IN speaker' = pump([next EXCEPT !.playing = Append(@, f)]) /\ aired' = aired \cup f
  <2> DEFINE f == Head(speaker.awaited)
             q == Append(speaker.playing, f)
             t == [speaker EXCEPT !.awaited = <<>>, !.inFlight = FALSE, !.playing = q]
  <2>1. /\ f \subseteq Parts(speaker) /\ q \in Fragments /\ Pieces(q) \subseteq Parts(speaker)
        /\ \A X : Ordered(speaker, X) =>
             Below(f, Pieces(speaker.pending) \cup Pieces(speaker.held) \cup speaker.chunk, X)
    BY <1>0, <1>1, TheAwaited
  <2>2. speaker' = pump(t) /\ aired' = aired \cup f
    BY <1>0, <1>1 DEF Shaped, SpeakerType
  <2>3. /\ Within(pump(t), speaker, {})
        /\ Ahead(pump(t)) \subseteq Pieces(speaker.pending) \cup Pieces(speaker.held) \cup speaker.chunk
        /\ \A X : Ordered(speaker, X) => Ordered(pump(t), X)
    BY <1>0, <2>1, Made
  <2> HIDE DEF f, q, t
  <2>4. \A X : Ordered(speaker, X) => Below(f, Ahead(speaker'), X)
    BY <2>1, <2>2, <2>3 DEF Below
  <2> QED
    BY <1>0, <2>1, <2>2, <2>3, <2>4, AiringKeeps
<1>2. CASE /\ speaker.awaited # <<>> /\ aired' = aired
           /\ speaker' = pump([speaker EXCEPT !.awaited = <<>>, !.inFlight = FALSE])
  <2> DEFINE q == speaker.playing
             t == [speaker EXCEPT !.awaited = <<>>, !.inFlight = FALSE, !.playing = q]
  <2>1. q \in Fragments /\ Pieces(q) \subseteq Parts(speaker)
    BY <1>0 DEF Shaped, SpeakerType, Parts
  <2>2. speaker' = pump(t)
    BY <1>0, <1>2 DEF Shaped, SpeakerType
  <2>3. Within(pump(t), speaker, {}) /\ \A X : Ordered(speaker, X) => Ordered(pump(t), X)
    BY <1>0, <2>1, Made
  <2> QED
    BY <1>0, <1>2, <2>2, <2>3, QuietVoicingKeeps
<1>3. CASE /\ speaker.stale > 0 /\ aired' = aired
           /\ speaker' = pump([speaker EXCEPT !.stale = @ - 1, !.inFlight = FALSE])
  BY <1>0, <1>3, StaleMade, QuietVoicingKeeps
<1> QED
  BY <1>1, <1>2, <1>3 DEF Generated

LEMMA FramesKeeps ==
  ASSUME VoiceInv, Frames
  PROVE  VoiceInv'
<1> DEFINE f == Head(speaker.awaited)
<1>0. /\ Shaped(speaker) /\ KeepsSpeaking /\ events' = events /\ drop' = drop
      /\ speaker.kind = "cloud" /\ ~speaker.sounding /\ speaker.awaited # <<>>
      /\ speaker' = [speaker EXCEPT !.sounding = TRUE, !.playing = Append(@, f)]
      /\ aired' = aired \cup f
  BY DEF VoiceInv, Saying, Frames, Shaped
<1>1. /\ f \subseteq Parts(speaker)
      /\ \A X : Ordered(speaker, X) =>
           Below(f, Pieces(speaker.pending) \cup Pieces(speaker.held) \cup speaker.chunk, X)
  BY <1>0, TheAwaited
<1>2. /\ Within(speaker', speaker, {})
      /\ Ahead(speaker') \subseteq Pieces(speaker.pending) \cup Pieces(speaker.held) \cup speaker.chunk
      /\ \A X : Ordered(speaker, X) => Ordered(speaker', X)
  BY <1>0, Sounds
<1> HIDE DEF f
<1>3. \A X : Ordered(speaker, X) => Below(f, Ahead(speaker'), X)
  BY <1>1, <1>2 DEF Below
<1> QED
  BY <1>0, <1>1, <1>2, <1>3, AiringKeeps

LEMMA SpokenKeeps ==
  ASSUME VoiceInv, Spoken
  PROVE  VoiceInv'
<1>0. Shaped(speaker)
  BY DEF VoiceInv, Saying
<1> DEFINE q == speaker.playing
           t == [speaker EXCEPT !.awaited = <<>>, !.inFlight = FALSE, !.playing = q]
<1>1. q \in Fragments /\ Pieces(q) \subseteq Parts(speaker)
  BY <1>0 DEF Shaped, SpeakerType, Parts
<1>2. speaker' = pump(t)
  BY <1>0 DEF Spoken, Shaped, SpeakerType
<1>3. Within(pump(t), speaker, {}) /\ \A X : Ordered(speaker, X) => Ordered(pump(t), X)
  BY <1>0, <1>1, Made
<1> QED
  BY <1>2, <1>3, QuietVoicingKeeps DEF Spoken

LEMMA AudioEndsKeeps ==
  ASSUME VoiceInv, AudioEnds
  PROVE  VoiceInv'
<1>1. Shaped(speaker)
  BY DEF VoiceInv, Saying
<1> QED
  BY <1>1, AudioEnded, QuietVoicingKeeps DEF AudioEnds

LEMMA StallsKeeps ==
  ASSUME VoiceInv, Stalls
  PROVE  VoiceInv'
<1> DEFINE q == speaker.awaited \o speaker.pending
<1>0. Shaped(speaker) /\ Saying(speaker, talk, drop, aired) /\ TypesElse /\ Closed
  BY DEF VoiceInv, Saying
<1>1. drop.at = "none"
  BY <1>0 DEF Stalls, Saying, Shaped
<1>2. /\ Shaped(speaker') /\ Parts(speaker') \subseteq Parts(speaker)
      /\ Ahead(speaker') \subseteq Ahead(speaker) /\ speaker'.failed = TRUE
      /\ q \in Fragments /\ Pieces(q) \subseteq Parts(speaker)
      /\ \A X : Ordered(speaker, X) => Ordered(speaker', X)
  BY <1>0, Stalled DEF Stalls
<1>3. drop' = [at |-> "making", remaining |-> q] /\ aired' = aired
  BY DEF Stalls
<1> HIDE DEF q
<1>4. Saying(speaker', talk, drop', aired')
  BY <1>0, <1>1, <1>2, <1>3, SaysLess
<1>5. drop' \in [at : {"none", "making", "over"}, remaining : Fragments]
  BY <1>2, <1>3
<1>6. events' \in 0..MaxEvents
  BY <1>0, HeardTypes DEF Stalls, Event, TypesElse
<1>7. stage = "closed" => Parts(speaker') = {}
  BY <1>0, <1>2 DEF Closed
<1> QED
  BY <1>4, <1>5, <1>6, <1>7, VoicingKeeps DEF Stalls

LEMMA LocalMadeKeeps ==
  ASSUME VoiceInv, LocalMade
  PROVE  VoiceInv'
<1>0. Saying(speaker, talk, drop, aired) /\ TypesElse /\ Closed
  BY DEF VoiceInv
<1>1. /\ drop.at = "making" /\ drop' = [drop EXCEPT !.at = "over"]
      /\ drop \in [at : {"none", "making", "over"}, remaining : Fragments]
      /\ speaker' = speaker \/ speaker' = enqueue(Silent, drop.remaining)
      /\ aired' = aired /\ events' = events
      /\ stage = "closed" => speaker' = speaker
  BY <1>0 DEF LocalMade, TypesElse
<1>2. Saying(speaker', talk, drop', aired')
  BY <1>0, <1>1, SaysHandedOver
<1>3. drop' \in [at : {"none", "making", "over"}, remaining : Fragments]
  BY <1>1
<1>4. stage = "closed" => Parts(speaker') = {}
  BY <1>0, <1>1 DEF Closed
<1> QED
  BY <1>0, <1>1, <1>2, <1>3, <1>4, VoicingKeeps DEF LocalMade, TypesElse

\* The controls: the speaker is quiet, and the answer abandoned.
LEMMA Cut ==
  ASSUME VoiceInv, Quieted(speaker', speaker), talk' = abandon(talk, FALSE)
  PROVE  /\ Talked(talk') /\ talk'.answer = 0 /\ Saying(speaker', talk', drop, aired)
         /\ \A b \in Burst : AskedOf(talk', b) <=> AskedOf(talk, b)
<1>1. Talked(talk) /\ Saying(speaker, talk, drop, aired)
  BY DEF VoiceInv
<1>2. /\ Talked(talk') /\ talk'.answer = 0
      /\ \A b \in Burst : AskedOf(talk', b) <=> AskedOf(talk, b)
      /\ \A p \in Piece : Known(talk, p) => Known(talk', p)
  BY <1>1, Abandoned
<1> QED
  BY <1>1, <1>2, SaysNothing

LEMMA MuteKeeps ==
  ASSUME VoiceInv, NEW muted \in BOOLEAN, setMuted(muted)
  PROVE  VoiceInv'
<1>0. /\ TypesElse /\ Turns /\ Closed /\ Talked(talk) /\ Saying(speaker, talk, drop, aired)
      /\ Shaped(speaker)
  BY DEF VoiceInv, Saying
<1>1. /\ stage' \in {"live", "muted"} /\ gate' = NoBurst /\ bursts' = bursts /\ guess' = guess
      /\ listening' = listening /\ takes' = takes /\ drop' = drop /\ aired' = aired
      /\ unread' = unread /\ events < MaxEvents /\ events' = events + 1
  BY DEF setMuted, Event, KeepsReading
<1>2. /\ Talked(talk') /\ Saying(speaker', talk', drop, aired)
      /\ \A b \in Burst : AskedOf(talk', b) <=> AskedOf(talk, b)
  <2>1. CASE speaker' = speaker /\ talk' = talk
    BY <2>1, <1>0
  <2>2. CASE speaker' = cancel(speaker) /\ talk' = abandon(talk, FALSE)
    BY <2>2, <1>0, SpeakerCancelled, Cut
  <2> QED
    BY <2>1, <2>2 DEF setMuted
<1>3. TypesElse'
  BY <1>0, <1>1, HeardTypes DEF TypesElse
<1>4. Turns'
  <2>1. NoBurst.words = 0
    BY DEF NoBurst
  <2> QED
    BY <2>1, <1>0, <1>1, <1>2, HeardTypes DEF Turns
<1>5. Closed'
  BY <1>1 DEF Closed
<1> QED
  BY <1>1, <1>2, <1>3, <1>4, <1>5 DEF VoiceInv

LEMMA SkipKeeps ==
  ASSUME VoiceInv, skip
  PROVE  VoiceInv'
<1>0. TypesElse /\ Turns /\ Shaped(speaker)
  BY DEF VoiceInv, Saying
<1>1. /\ stage' = stage /\ gate' = gate /\ bursts' = bursts /\ guess' = guess
      /\ listening' = listening /\ takes' = takes /\ drop' = drop /\ aired' = aired
      /\ unread' = unread /\ events < MaxEvents /\ events' = events + 1 /\ stage # "closed"
      /\ speaker' = cancel(speaker) /\ talk' = abandon(talk, FALSE)
  BY DEF skip, Event, KeepsReading
<1>2. /\ Talked(talk') /\ Saying(speaker', talk', drop, aired)
      /\ \A b \in Burst : AskedOf(talk', b) <=> AskedOf(talk, b)
  BY <1>0, <1>1, SpeakerCancelled, Cut
<1>3. TypesElse'
  BY <1>0, <1>1, HeardTypes DEF TypesElse
<1>4. Turns' /\ Closed'
  BY <1>0, <1>1, <1>2 DEF Turns, Closed
<1> QED
  BY <1>1, <1>2, <1>3, <1>4 DEF VoiceInv

LEMMA StopKeeps ==
  ASSUME VoiceInv, stop
  PROVE  VoiceInv'
<1>0. TypesElse /\ Turns /\ Shaped(speaker)
  BY DEF VoiceInv, Saying
<1>1. /\ stage' = "closed" /\ gate' = gate /\ bursts' = bursts /\ guess' = guess
      /\ listening' = <<"stop", 0>> /\ takes' = takes /\ drop' = drop /\ aired' = aired
      /\ unread' = unread /\ events' = events
      /\ speaker' = dispose(speaker) /\ talk' = abandon(talk, FALSE)
  BY DEF stop
<1>2. Quieted(speaker', speaker)
  BY <1>0, <1>1, SpeakerDisposed
<1>3. /\ Talked(talk') /\ talk'.answer = 0 /\ Saying(speaker', talk', drop, aired)
      /\ \A b \in Burst : AskedOf(talk', b) <=> AskedOf(talk, b)
  BY <1>1, <1>2, Cut
<1>4. TypesElse'
  <2>1. listening' \in {"nothing", "start", "turn", "stop"} \X (0..MaxBursts)
    BY <1>1, PieceParts
  <2> QED
    BY <2>1, <1>0, <1>1 DEF TypesElse
<1>5. Turns' /\ Closed'
  BY <1>0, <1>1, <1>2, <1>3 DEF Turns, Closed, Quieted
<1> QED
  BY <1>1, <1>3, <1>4, <1>5 DEF VoiceInv

\* Every step keeps the invariant.
LEMMA VoiceKeeps == VoiceInv /\ [Next]_vars => VoiceInv'
<1> SUFFICES ASSUME VoiceInv, [Next]_vars PROVE VoiceInv'
  OBVIOUS
<1>1. ASSUME NEW a \in Burst, NEW ends \in BOOLEAN, Speech(a, ends) PROVE VoiceInv'
  BY <1>1, SpeechKeeps
<1>2. ASSUME NEW a \in Burst, Search(a) \/ Searched(a) \/ Written(a) \/ Fails(a) PROVE VoiceInv'
  BY <1>2, SearchKeeps, SearchedKeeps, WrittenKeeps, FailsKeeps
<1>3. ASSUME NEW b \in Burst, ReadBack(b) \/ GuessBack(b) PROVE VoiceInv'
  BY <1>3, ReadBackKeeps, GuessBackKeeps
<1>4. ASSUME SpeechStarts \/ Word \/ BargesIn \/ Pause \/ SpeechEnds \/ Discards PROVE VoiceInv'
  BY <1>4, SpeechStartsKeeps, WordKeeps, BargesInKeeps, PauseKeeps, SpeechEndsKeeps, DiscardsKeeps
<1>5. ASSUME Generated \/ Frames \/ Spoken \/ AudioEnds \/ Stalls \/ LocalMade PROVE VoiceInv'
  BY <1>5, GeneratedKeeps, FramesKeeps, SpokenKeeps, AudioEndsKeeps, StallsKeeps, LocalMadeKeeps
<1>6. ASSUME NEW muted \in BOOLEAN, setMuted(muted) PROVE VoiceInv'
  BY <1>6, MuteKeeps
<1>7. ASSUME skip \/ stop PROVE VoiceInv'
  BY <1>7, SkipKeeps, StopKeeps
<1>8. ASSUME UNCHANGED vars PROVE VoiceInv'
  BY <1>8 DEF vars, micVars, VoiceInv, TypesElse, Turns, Closed
<1> QED
  BY <1>1, <1>2, <1>3, <1>4, <1>5, <1>6, <1>7, <1>8 DEF Next

\* Whatever comes in which order, the speaker, the answers and the history go together.
THEOREM VoiceInvariant == Spec => []VoiceInv
BY SpeechStartsRight, VoiceKeeps, PTL DEF Spec

\* Every variable of a conversation keeps its type.
THEOREM VoiceTypeCorrect == Spec => []TypeOK
BY VoiceInvariant, VoiceTypes, PTL

\* What is unsaid is what is ahead, in its order.
LEMMA UnsaidAhead ==
  ASSUME VoiceInv
  PROVE  /\ Pieces(Unsaid) = Ahead(speaker)
         /\ \A X : Ordered(speaker, X) => Sorted(Unsaid, X)
<1> DEFINE s == speaker
           w == IF s.sounding THEN <<>> ELSE s.awaited
           c == IF s.chunk = {} THEN <<>> ELSE <<s.chunk>>
<1>0. Shaped(s)
  BY DEF VoiceInv, Saying
<1>1. /\ s.awaited \in Fragments /\ s.pending \in Fragments /\ s.held \in Fragments
      /\ s.chunk \in Fragment /\ Len(s.awaited) <= 1 /\ <<>> \in Fragments
  BY <1>0 DEF Shaped, SpeakerType, Fragments
<1>2. w \in Fragments /\ Pieces(w) = ToMake(s) /\ \A X : Sorted(w, X)
  <2>1. CASE s.sounding
    BY <2>1, <1>1, PiecesEmpty DEF ToMake
  <2>2. CASE ~s.sounding
    <3>1. \A q \in Seq(Fragment) : Len(q) <= 1 => \A X : Sorted(q, X)
      BY DEF Sorted
    <3> QED
      BY <3>1, <2>2, <1>1 DEF ToMake, Fragments
  <2> QED
    BY <2>1, <2>2
<1>3. c \in Fragments /\ Pieces(c) = s.chunk /\ \A X : Sorted(c, X)
  BY <1>1, PiecesEmpty, PiecesOne
<1>4. Unsaid = w \o s.pending \o s.held \o c
  BY DEF Unsaid
<1> HIDE DEF w, c
<1>5. /\ w \o s.pending \in Fragments
      /\ Pieces(w \o s.pending) = Pieces(w) \cup Pieces(s.pending)
      /\ \A X : Sorted(w, X) /\ Sorted(s.pending, X) /\ Below(Pieces(w), Pieces(s.pending), X)
                  => Sorted(w \o s.pending, X)
  BY <1>1, <1>2, PiecesJoined
<1> DEFINE u == w \o s.pending
<1> HIDE DEF u
<1>6. /\ u \o s.held \in Fragments
      /\ Pieces(u \o s.held) = Pieces(u) \cup Pieces(s.held)
      /\ \A X : Sorted(u, X) /\ Sorted(s.held, X) /\ Below(Pieces(u), Pieces(s.held), X)
                  => Sorted(u \o s.held, X)
  BY <1>1, <1>5, PiecesJoined DEF u
<1> DEFINE v == u \o s.held
<1> HIDE DEF v
<1>7. /\ Pieces(v \o c) = Pieces(v) \cup Pieces(c)
      /\ \A X : Sorted(v, X) /\ Sorted(c, X) /\ Below(Pieces(v), Pieces(c), X) => Sorted(v \o c, X)
  BY <1>3, <1>6, PiecesJoined DEF v
<1>8. Unsaid = v \o c
  BY <1>4 DEF u, v
<1>9. Pieces(u) = ToMake(s) \cup Pieces(s.pending)
      /\ Pieces(v) = ToMake(s) \cup Pieces(s.pending) \cup Pieces(s.held)
  BY <1>2, <1>5, <1>6 DEF u, v
<1>10. Pieces(Unsaid) = Ahead(s)
  BY <1>3, <1>7, <1>8, <1>9 DEF Ahead
<1>11. ASSUME NEW X, Ordered(s, X)
       PROVE  Sorted(Unsaid, X)
  <2>1. Sorted(u, X)
    BY <1>2, <1>5, <1>11 DEF u, Ordered, Below
  <2>2. Sorted(v, X)
    BY <2>1, <1>6, <1>9, <1>11 DEF v, Ordered, Below
  <2>3. Below(Pieces(v), Pieces(c), X)
    BY <1>3, <1>9, <1>11 DEF Ordered, Below
  <2> QED
    BY <2>2, <2>3, <1>3, <1>7, <1>8
<1> QED
  BY <1>10, <1>11

LEMMA HandedIs == Handed = HandedOf(drop)
BY DEF Handed, HandedOf

\* What was cut off is not heard any more: neither what was held back, nor what the
\* worker makes of it, nor what is still being written (speaker.ts cancel, conversation.ts
\* abandon, respond).
THEOREM NothingCutIsHeard == Spec => []NothingOfCut
<1>1. VoiceInv => NothingOfCut
  <2> SUFFICES ASSUME VoiceInv PROVE NothingOfCut
    OBVIOUS
  <2> DEFINE coming == Pieces(Unsaid) \cup Pieces(speaker.playing)
  <2>1. coming \subseteq Parts(speaker)
    BY UnsaidAhead DEF Ahead, Parts, ToMake
  <2>2. stage = "closed" => coming = {}
    BY <2>1 DEF VoiceInv, Closed
  <2>3. \A p \in coming \ Handed : Standing(talk, p)
    BY <2>1, HandedIs DEF VoiceInv, Saying
  <2> QED
    BY <2>2, <2>3 DEF NothingOfCut, Standing, AskedOf
<1> QED
  BY <1>1, VoiceInvariant, PTL

\* What comes was not heard, and comes in the order of the text, however often the
\* speaker was suspended and resumed (speaker.ts suspend, resume).
THEOREM NothingIsRepeated == Spec => []NoRepetition
<1>1. VoiceInv => NoRepetition
  <2> SUFFICES ASSUME VoiceInv PROVE NoRepetition
    OBVIOUS
  <2> DEFINE X == Handed \cup Aside
             said == Pieces(Unsaid) \ X
  <2>1. Ordered(speaker, X) /\ Below(aired, Ahead(speaker), X)
    BY HandedIs DEF VoiceInv, Saying
  <2>2. Pieces(Unsaid) = Ahead(speaker) /\ Sorted(Unsaid, X)
    BY <2>1, UnsaidAhead
  <2> HIDE DEF X
  <2>3. \A p \in said, q \in aired \ X : Before(q, p)
    BY <2>1, <2>2 DEF Below
  <2>4. \A i, j \in DOMAIN Unsaid : i < j =>
          \A p \in Unsaid[i] \cap said, q \in Unsaid[j] \cap said : Before(p, q)
    BY <2>2 DEF Sorted, Below
  <2> QED
    BY <2>3, <2>4 DEF NoRepetition, X
<1> QED
  BY <1>1, VoiceInvariant, PTL

\* The history has every answer that was heard and is over, once and behind its question
\* (conversation.ts abandon, respond, file).
THEOREM HistoryIsTrue == Spec => []HistoryTrue
<1>1. VoiceInv => HistoryTrue
  <2> SUFFICES ASSUME VoiceInv PROVE HistoryTrue
    OBVIOUS
  <2>1. Talked(talk) /\ talk \in TalkType
    BY DEF VoiceInv, Talked
  <2>2. \A p \in aired \ Aside :
          p[1] # talk.answer /\ talk.answers[p[1]].at # "failed" => FiledOf(talk, p[1]) # {}
    <3> SUFFICES ASSUME NEW p \in aired \ Aside, p[1] # talk.answer,
                        talk.answers[p[1]].at # "failed"
                 PROVE  FiledOf(talk, p[1]) # {}
      OBVIOUS
    <3>1. p \in Piece /\ Known(talk, p)
      BY DEF VoiceInv, Saying
    <3>2. p[2] # 0
      BY <3>1 DEF Aside
    <3> QED
      BY <3>1, <3>2 DEF Known
  <2>3. ASSUME NEW a \in Burst PROVE Cardinality(FiledOf(talk, a)) <= 1
    <3>1. CASE FiledOf(talk, a) = {}
      BY <3>1, FS_EmptySet
    <3>2. CASE FiledOf(talk, a) # {}
      <4>1. PICK i \in FiledOf(talk, a) : TRUE
        BY <3>2
      <4>2. FiledOf(talk, a) = {i}
        BY <4>1, <2>1 DEF Talked
      <4>3. Cardinality({i}) = 1
        BY FS_Singleton, Zenon
      <4>4. Cardinality(FiledOf(talk, a)) = 1
        BY <4>2, <4>3, Zenon
      <4> QED
        BY <4>4
    <3> QED
      BY <3>1, <3>2
  <2>4. \A i \in DOMAIN talk.filed : talk.filed[i].role = "assistant" =>
          i > 1 /\ talk.filed[i - 1] = [role |-> "user", of |-> talk.filed[i].of, cut |-> FALSE]
    BY <2>1 DEF Talked, Question
  <2> QED
    BY <2>2, <2>3, <2>4 DEF HistoryTrue, FiledOf
<1> QED
  BY <1>1, VoiceInvariant, PTL
=============================================================================
