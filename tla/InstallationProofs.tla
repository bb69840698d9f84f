-------------------------- MODULE InstallationProofs --------------------------
(***************************************************************************)
(* Theorems about the page of Installation and the service behind it,      *)
(* about the bath, the probe and the recorder, and about what is built of  *)
(* a configuration: for any installation and any text it may be configured *)
(* with, any number of commands, loads, restarts and faults, and any length*)
(* of the list a picture holds.                                            *)
(***************************************************************************)
EXTENDS Installation, Induction

(***************************************************************************)
(* Types.                                                                  *)
(***************************************************************************)

State   == [closed: BOOLEAN, by: Int \cup {Hand}]
Picture == [known: BOOLEAN, closed: BOOLEAN, version: Int, enabled: BOOLEAN,
            journal: Seq(Int), rows: Int]
Steps   == {"sent", "targets", "intended", "operated", "answered", "dead"}
Fetch == [kind: {"state", "command"}, id: Int, load: Int, session: Int, step: Steps,
            picture: Picture \cup {NoPicture}, closed: BOOLEAN]
Page    == [session: Int, load: Int, inFlight: BOOLEAN, picture: Picture \cup {NoPicture}]
Left    == [commands: Int, hands: Int, faults: Int, restarts: Int, loads: Int]

Shape ==
    /\ session \in Int
    /\ coil \in Seq(State) /\ Len(coil) >= 1
    /\ journal \in Seq(Int)
    /\ page \in Page
    /\ left \in Left

(***************************************************************************)
(* What a picture may be made of, with c and j the histories of the coil   *)
(* and of the journal it is judged by.                                     *)
(***************************************************************************)

\* A picture of the coil as it once was.
ReadFrom(p, c) == p.version \in 1..Len(c) /\ p.closed = c[p.version].closed

\* A command is among the first entries of a journal.
OnRecord(id, n, j) == \E i \in 1..n : j[i] = id

\* The picture of a coil, and the records that account for it.
Explained(p, c, j) ==
    /\ ReadFrom(p, c)
    /\ p.rows \in 0..Len(j)
    /\ c[p.version].by # Hand => OnRecord(c[p.version].by, p.rows, j)
    /\ \A i \in 1..p.rows : i > p.rows - Recent => j[i] \in ToSet(p.journal)

\* Nothing moves the coil but a hand or a command whose intent is on record.
MovesOnRecord(c, j) ==
    \A v \in 1..Len(c) : c[v].by # Hand => OnRecord(c[v].by, Len(j), j)

\* What a request holds at each of its steps.
Sound(r, c, j) ==
    /\ r \in Fetch
    /\ r.step = "sent" => r.picture = NoPicture
    /\ r.step \in {"intended", "operated"} => r.kind = "command"
    /\ r.step = "intended" => OnRecord(r.id, Len(j), j)
    /\ r.step = "targets" => r.picture \in Picture /\ ReadFrom(r.picture, c)
    /\ r.kind = "state" /\ r.step = "answered" /\ r.picture # NoPicture => Explained(r.picture, c, j)

\* Whatever was read, or is on its way, is accounted for.
Honest ==
    /\ Shape
    /\ MovesOnRecord(coil, journal)
    /\ \A r \in requests : Sound(r, coil, journal)
    /\ page.picture # NoPicture => Explained(page.picture, coil, journal)

\* The present load has at most one refresh on its way, whose picture is no
\* older than the one on the page.
Mine(r) == r.kind = "state" /\ r.load = page.load

\* No load has a second refresh on its way.
OneInFlight ==
    /\ \A r \in requests : r.load <= page.load
    /\ \A r \in requests : Mine(r) => page.inFlight
    /\ \A r, q \in requests : Mine(r) /\ Mine(q) => r = q

\* Nothing on its way is older than what is shown.
NoneOlder ==
    \A r \in requests :
        /\ Mine(r) /\ page.picture # NoPicture
        /\ r.step = "targets" \/ (r.step = "answered" /\ r.picture # NoPicture)
        => r.picture.version >= page.picture.version

\* What keeps the page from going back.
Forward == Honest /\ OneInFlight /\ NoneOlder

-------------------------------------------------------------------------------
(***************************************************************************)
(* Lemmas.                                                                 *)
(***************************************************************************)

\* The first values of a sequence are another.
Prefix(s, t) == Len(s) <= Len(t) /\ \A i \in 1..Len(s) : t[i] = s[i]

\* A sequence is a beginning of what is appended to it.
LEMMA PrefixOfAppend ==
    ASSUME NEW S, NEW s \in Seq(S), NEW x \in S
    PROVE  Prefix(s, s) /\ Prefix(s, Append(s, x))
BY DEF Prefix

\* What explains a picture goes on to do so.
LEMMA StaysExplained ==
    ASSUME NEW S, NEW c \in Seq(S), NEW d \in Seq(S), NEW j \in Seq(Int), NEW k \in Seq(Int),
           Prefix(c, d), Prefix(j, k), NEW p
    PROVE  /\ ReadFrom(p, c) => ReadFrom(p, d)
           /\ Explained(p, c, j) => Explained(p, d, k)
           /\ \A id : OnRecord(id, Len(j), j) => OnRecord(id, Len(k), k)
<1>1. Len(c) \in Nat /\ Len(d) \in Nat /\ Len(j) \in Nat /\ Len(k) \in Nat
  OBVIOUS
<1>2. ReadFrom(p, c) => ReadFrom(p, d)
  BY <1>1 DEF ReadFrom, Prefix
<1>3. \A id : OnRecord(id, Len(j), j) => OnRecord(id, Len(k), k)
  BY <1>1 DEF OnRecord, Prefix
<1>4. ASSUME Explained(p, c, j) PROVE Explained(p, d, k)
  <2>1. p.version \in 1..Len(c) /\ d[p.version] = c[p.version] /\ p.rows \in 0..Len(j)
    BY <1>4 DEF Explained, ReadFrom, Prefix
  <2>2. \A i \in 1..p.rows : i \in 1..Len(j) /\ k[i] = j[i]
    BY <1>1, <2>1 DEF Prefix
  <2>3. p.rows \in 0..Len(k)
    BY <1>1, <2>1 DEF Prefix
  <2>4. d[p.version].by # Hand => OnRecord(d[p.version].by, p.rows, k)
    BY <1>4, <2>1, <2>2 DEF Explained, OnRecord
  <2>5. \A i \in 1..p.rows : i > p.rows - Recent => k[i] \in ToSet(p.journal)
    BY <1>4, <2>2 DEF Explained
  <2> QED
    BY <1>2, <1>4, <2>3, <2>4, <2>5 DEF Explained
<1> QED
  BY <1>2, <1>3, <1>4

\* The last records are in the list a picture holds.
LEMMA RecentShown ==
    ASSUME NEW s \in Seq(Int)
    PROVE  /\ RecentOf(s) \in Seq(Int)
           /\ \A i \in 1..Len(s) : i > Len(s) - Recent => s[i] \in ToSet(RecentOf(s))
<1> DEFINE n == Len(s)
           from == IF n > Recent THEN n - Recent + 1 ELSE 1
<1>1. n \in Nat /\ Recent \in Nat /\ from \in Nat /\ from >= 1
  BY InstallationAssumption
<1>2. RecentOf(s) = SubSeq(s, from, n)
  BY DEF RecentOf
<1> HIDE DEF from
<1>3. /\ RecentOf(s) \in Seq(Int)
      /\ \A k \in 1..(n - from + 1) : k \in DOMAIN RecentOf(s) /\ RecentOf(s)[k] = s[from + k - 1]
  BY <1>1, <1>2
<1>4. ASSUME NEW i \in 1..n, i > n - Recent PROVE s[i] \in ToSet(RecentOf(s))
  <2>1. i - from + 1 \in 1..(n - from + 1)
    BY <1>1, <1>4 DEF from
  <2>2. RecentOf(s)[i - from + 1] = s[i] /\ i - from + 1 \in DOMAIN RecentOf(s)
    BY <1>1, <1>3, <2>1
  <2> QED
    BY <2>2 DEF ToSet
<1> QED
  BY <1>3, <1>4

\* The bounds keep their type.
LEMMA Spent ==
    ASSUME left \in Left, NEW what \in {"commands", "hands", "faults", "restarts", "loads"},
           Spend(what)
    PROVE  left' \in Left
BY DEF Spend, Left

\* A picture stays one when its records are filled in.
Completed(q, list, n) == [q EXCEPT !.journal = list, !.rows = n]

\* What the records leave of it, and what they add.
LEMMA PictureCompleted ==
    ASSUME NEW q \in Picture, NEW list \in Seq(Int), NEW n \in Int
    PROVE  /\ Completed(q, list, n) \in Picture
           /\ Completed(q, list, n).version = q.version
           /\ Completed(q, list, n).closed = q.closed
           /\ Completed(q, list, n).rows = n
           /\ Completed(q, list, n).journal = list
BY DEF Picture, Completed

\* A fresh request of the page.
LEMMA StateRequestTyped == Shape => StateRequest \in Fetch
BY DEF Shape, StateRequest, Page, Fetch, Steps

\* The histories only grow, so a step is honest if what is new in it is.
LEMMA HonestStep ==
    ASSUME Honest, session' \in Int, page' \in Page, left' \in Left,
           coil' \in Seq(State), journal' \in Seq(Int),
           Prefix(coil, coil'), Prefix(journal, journal'),
           \A v \in (Len(coil) + 1)..Len(coil') :
               coil'[v].by # Hand => OnRecord(coil'[v].by, Len(journal'), journal'),
           \A r \in requests' : r \in requests \/ Sound(r, coil', journal'),
           \/ page'.picture \in {page.picture, NoPicture}
           \/ Explained(page'.picture, coil', journal')
    PROVE  Honest'
<1>1. /\ coil \in Seq(State) /\ journal \in Seq(Int)
      /\ Len(coil) \in Nat /\ Len(coil') \in Nat /\ Len(coil) >= 1
  BY DEF Honest, Shape
<1>2. Shape'
  BY <1>1 DEF Shape, Prefix
<1>3. ASSUME NEW p
      PROVE  /\ ReadFrom(p, coil) => ReadFrom(p, coil')
             /\ Explained(p, coil, journal) => Explained(p, coil', journal')
             /\ \A id : OnRecord(id, Len(journal), journal) => OnRecord(id, Len(journal'), journal')
  BY <1>1, StaysExplained
<1>4. MovesOnRecord(coil', journal')
  <2> SUFFICES ASSUME NEW v \in 1..Len(coil'), coil'[v].by # Hand
               PROVE  OnRecord(coil'[v].by, Len(journal'), journal')
    BY DEF MovesOnRecord
  <2>1. CASE v \in 1..Len(coil)
    <3>1. coil'[v] = coil[v]
      BY <2>1 DEF Prefix
    <3> QED
      BY <2>1, <3>1, <1>3 DEF Honest, MovesOnRecord
  <2>2. CASE v \notin 1..Len(coil)
    <3>1. v \in (Len(coil) + 1)..Len(coil')
      BY <1>1, <2>2
    <3> QED
      BY <3>1
  <2> QED
    BY <2>1, <2>2
<1>5. ASSUME NEW r \in requests' PROVE Sound(r, coil', journal')
  <2>1. Sound(r, coil, journal) => Sound(r, coil', journal')
    BY <1>3 DEF Sound
  <2> QED
    BY <1>5, <2>1 DEF Honest
<1>6. page'.picture # NoPicture => Explained(page'.picture, coil', journal')
  BY <1>3 DEF Honest
<1> QED
  BY <1>2, <1>4, <1>5, <1>6 DEF Honest

\* The special case of steps that leave the histories alone.
LEMMA HonestAside ==
    ASSUME Honest, session' \in Int, page' \in Page, left' \in Left, UNCHANGED <<coil, journal>>,
           \A r \in requests' : r \in requests \/ Sound(r, coil, journal),
           \/ page'.picture \in {page.picture, NoPicture}
           \/ Explained(page'.picture, coil, journal)
    PROVE  Honest'
<1>1. coil \in Seq(State) /\ journal \in Seq(Int) /\ coil' = coil /\ journal' = journal
  BY DEF Honest, Shape
<1>2. Prefix(coil, coil') /\ Prefix(journal, journal')
  BY <1>1 DEF Prefix
<1>3. (Len(coil) + 1)..Len(coil') = {}
  BY <1>1
<1> QED
  BY <1>1, <1>2, <1>3, HonestStep

-------------------------------------------------------------------------------
(***************************************************************************)
(* Each action keeps what is shown honest.                                 *)
(***************************************************************************)

\* The steps of the page and of the hand leave what is shown honest.
LEMMA PageIsHonest ==
    ASSUME Honest, Load \/ Refresh \/ \E closed \in BOOLEAN : Send(closed) \/ ByHand(closed)
    PROVE  Honest'
<1>0. Shape /\ StateRequest \in Fetch /\ page \in Page /\ session \in Int /\ left \in Left
  BY StateRequestTyped DEF Honest, Shape
<1>1. CASE Load
  <2> DEFINE r == [StateRequest EXCEPT !.load = page.load + 1, !.session = session]
  <2>1. left' \in Left
    BY <1>0, <1>1, Spent DEF Load
  <2>2. page' \in Page /\ page'.picture = NoPicture
    BY <1>0, <1>1 DEF Load, Page
  <2>3. page.load + 1 \in Int
    BY <1>0 DEF Page
  <2>4. r \in Fetch /\ r.step = "sent" /\ r.picture = NoPicture
    BY <1>0, <2>3 DEF StateRequest, Fetch, Steps
  <2>5. Sound(r, coil, journal)
    BY <2>4 DEF Sound
  <2> HIDE DEF r
  <2> QED
    BY <1>0, <1>1, <2>1, <2>2, <2>5, HonestAside DEF Load, r
<1>2. CASE Refresh
  <2>1. page' \in Page /\ page'.picture = page.picture
    BY <1>0, <1>2 DEF Refresh, Page
  <2>2. Sound(StateRequest, coil, journal)
    BY <1>0 DEF Sound, StateRequest
  <2> QED
    BY <1>0, <1>2, <2>1, <2>2, HonestAside DEF Refresh
<1>3. ASSUME NEW closed \in BOOLEAN, Send(closed) PROVE Honest'
  <2> DEFINE r == [StateRequest EXCEPT !.kind = "command", !.closed = closed, !.id = left.commands]
  <2>1. left' \in Left
    BY <1>0, <1>3, Spent DEF Send
  <2>2. left.commands \in Int
    BY <1>0 DEF Left
  <2>3. r \in Fetch /\ r.step = "sent" /\ r.picture = NoPicture
    BY <1>0, <2>2 DEF StateRequest, Fetch, Steps
  <2>4. Sound(r, coil, journal)
    BY <2>3 DEF Sound
  <2> HIDE DEF r
  <2> QED
    BY <1>0, <1>3, <2>1, <2>4, HonestAside DEF Send, r
<1>4. ASSUME NEW closed \in BOOLEAN, ByHand(closed) PROVE Honest'
  <2> DEFINE entry == [closed |-> closed, by |-> Hand]
  <2>1. left' \in Left
    BY <1>0, <1>4, Spent DEF ByHand
  <2>2. entry \in State /\ coil \in Seq(State) /\ coil' = Append(coil, entry)
        /\ journal \in Seq(Int) /\ journal' = journal
    BY <1>4 DEF ByHand, State, Honest, Shape
  <2>3. Prefix(coil, coil') /\ Prefix(journal, journal') /\ coil' \in Seq(State)
    BY <2>2, PrefixOfAppend DEF Prefix
  <2>4. \A v \in (Len(coil) + 1)..Len(coil') : coil'[v].by = Hand
    BY <2>2
  <2> QED
    BY <1>0, <1>4, <2>1, <2>2, <2>3, <2>4, HonestStep DEF ByHand
<1> QED
  BY <1>1, <1>2, <1>3, <1>4

\* What the page shows of an answer is what the request that is answered brought.
LEMMA ReceiveIsHonest ==
    ASSUME Honest, NEW r \in requests, Receive(r) \/ Lose(r)
    PROVE  Honest'
<1>0. /\ Shape /\ StateRequest \in Fetch /\ page \in Page /\ session \in Int /\ left \in Left
      /\ Sound(r, coil, journal) /\ r \in Fetch
  BY StateRequestTyped DEF Honest, Shape, Sound
<1>1. CASE Draw(r)
  <2>1. r.picture \in Picture \cup {NoPicture}
    BY <1>0 DEF Fetch
  <2>2. page' \in Page /\ page'.picture \in {page.picture, r.picture}
    BY <1>0, <1>1, <2>1 DEF Draw, Page
  <2>3. r.picture = NoPicture \/ Explained(r.picture, coil, journal)
    BY <1>0, <1>1 DEF Draw, Sound
  <2> QED
    BY <1>0, <1>1, <2>2, <2>3, HonestAside DEF Draw
<1>2. CASE FetchFails(r)
  <2>1. page' \in Page /\ page'.picture \in {page.picture, NoPicture}
    BY <1>0, <1>2 DEF FetchFails, Page
  <2> QED
    BY <1>0, <1>2, <2>1, HonestAside DEF FetchFails
<1>3. CASE Told(r)
  <2>1. page' \in Page /\ page'.picture = page.picture
    BY <1>0, <1>3 DEF Told, Page
  <2>2. Sound(StateRequest, coil, journal)
    BY <1>0 DEF Sound, StateRequest
  <2> QED
    BY <1>0, <1>3, <2>1, <2>2, HonestAside DEF Told
<1>4. CASE Lose(r)
  <2> DEFINE s == [r EXCEPT !.step = "dead"]
  <2>1. left' \in Left
    BY <1>0, <1>4, Spent DEF Lose
  <2>2. s \in Fetch /\ s.step = "dead"
    BY <1>0 DEF Fetch, Steps
  <2>3. Sound(s, coil, journal)
    BY <2>2 DEF Sound
  <2> HIDE DEF s
  <2> QED
    BY <1>0, <1>4, <2>1, <2>3, HonestAside DEF Lose, Replace, s
<1> QED
  BY <1>1, <1>2, <1>3, <1>4 DEF Receive

\* The service reads the coil, then the journal, which by then explains the coil.
LEMMA ReadingIsHonest ==
    ASSUME Honest, NEW r \in requests, NEW enabled \in BOOLEAN,
           Forbid(r) \/ ReadTargets(r, enabled) \/ ReadJournal(r)
    PROVE  Honest'
<1>0. /\ Shape /\ page \in Page /\ session \in Int /\ left \in Left
      /\ coil \in Seq(State) /\ Len(coil) \in Nat /\ Len(coil) >= 1
      /\ journal \in Seq(Int) /\ Len(journal) \in Nat
      /\ Sound(r, coil, journal) /\ r \in Fetch
  BY DEF Honest, Shape, Sound
<1>1. CASE Forbid(r)
  <2> DEFINE s == [r EXCEPT !.step = "answered"]
  <2>1. s \in Fetch /\ s.step = "answered" /\ s.picture = NoPicture
    BY <1>0, <1>1 DEF Forbid, Sound, Fetch, Steps
  <2>2. Sound(s, coil, journal)
    BY <2>1 DEF Sound
  <2> HIDE DEF s
  <2> QED
    BY <1>0, <1>1, <2>2, HonestAside DEF Forbid, Replace, s
<1>2. CASE ReadTargets(r, enabled)
  <2>1. PICK known \in BOOLEAN :
           /\ Replace(r, [r EXCEPT !.step = "targets", !.picture = Reading(known, enabled)])
           /\ left' = left \/ Spend("faults")
    BY <1>2 DEF ReadTargets
  <2> DEFINE p == Reading(known, enabled)
             s == [r EXCEPT !.step = "targets", !.picture = p]
  <2>2. left' \in Left
    BY <1>0, <2>1, Spent
  <2>3. Present \in State /\ Present = coil[Len(coil)]
    BY <1>0 DEF Present
  <2>4. p \in Picture /\ ReadFrom(p, coil)
    BY <1>0, <2>3 DEF Reading, Picture, State, ReadFrom
  <2> HIDE DEF p
  <2>5. s \in Fetch /\ s.step = "targets" /\ s.picture = p
    BY <1>0, <2>4 DEF Fetch, Steps
  <2>6. Sound(s, coil, journal)
    BY <2>4, <2>5 DEF Sound
  <2>7. requests' = (requests \ {r}) \cup {s}
    BY <2>1 DEF Replace, p
  <2> HIDE DEF s
  <2> QED
    BY <1>0, <1>2, <2>2, <2>6, <2>7, HonestAside DEF ReadTargets
<1>3. CASE ReadJournal(r)
  <2> DEFINE p == Completed(r.picture, RecentOf(journal), Len(journal))
             s == [r EXCEPT !.step = "answered", !.picture = p]
  <2>1. r.picture \in Picture /\ ReadFrom(r.picture, coil)
    BY <1>0, <1>3 DEF ReadJournal, Sound
  <2>2. RecentOf(journal) \in Seq(Int)
    BY <1>0, RecentShown
  <2>3. /\ p \in Picture /\ p.version = r.picture.version /\ p.closed = r.picture.closed
        /\ p.rows = Len(journal) /\ p.journal = RecentOf(journal)
    <3>1. Len(journal) \in Int
      BY <1>0
    <3> QED
      BY <2>1, <2>2, <3>1, PictureCompleted
  <2> HIDE DEF p
  <2>4. Explained(p, coil, journal)
    <3>1. ReadFrom(p, coil)
      BY <2>1, <2>3 DEF ReadFrom
    <3>2. coil[p.version].by # Hand => OnRecord(coil[p.version].by, p.rows, journal)
      BY <2>3, <3>1 DEF Honest, MovesOnRecord, ReadFrom
    <3>3. \A i \in 1..p.rows : i > p.rows - Recent => journal[i] \in ToSet(p.journal)
      BY <1>0, <2>3, RecentShown
    <3> QED
      BY <1>0, <2>3, <3>1, <3>2, <3>3 DEF Explained
  <2>5. s \in Fetch /\ s.step = "answered" /\ s.picture = p
    BY <1>0, <2>3 DEF Fetch, Steps
  <2>6. Sound(s, coil, journal)
    BY <2>4, <2>5 DEF Sound
  <2>7. requests' = (requests \ {r}) \cup {s}
    BY <1>0, <1>3 DEF ReadJournal, Replace, p, Fetch, Completed
  <2> HIDE DEF s
  <2> QED
    BY <1>0, <1>3, <2>6, <2>7, HonestAside DEF ReadJournal
<1> QED
  BY <1>1, <1>2, <1>3

\* A command moves the coil only behind its intent.
LEMMA CommandIsHonest ==
    ASSUME Honest, NEW r \in requests,
           Refuse(r) \/ Intend(r) \/ Operate(r) \/ Conclude(r)
    PROVE  Honest'
<1>0. /\ Shape /\ page \in Page /\ session \in Int /\ left \in Left
      /\ coil \in Seq(State) /\ Len(coil) \in Nat /\ Len(coil) >= 1
      /\ journal \in Seq(Int) /\ Len(journal) \in Nat
      /\ Sound(r, coil, journal) /\ r \in Fetch /\ r.id \in Int /\ r.closed \in BOOLEAN
  BY DEF Honest, Shape, Sound, Fetch
<1>1. /\ Append(journal, r.id) \in Seq(Int)
      /\ Prefix(journal, journal) /\ Prefix(journal, Append(journal, r.id))
      /\ Prefix(coil, coil) /\ (Len(coil) + 1)..Len(coil) = {}
      /\ OnRecord(r.id, Len(Append(journal, r.id)), Append(journal, r.id))
  <2>1. Append(journal, r.id)[Len(journal) + 1] = r.id
    BY <1>0
  <2>2. Len(Append(journal, r.id)) = Len(journal) + 1
    BY <1>0
  <2>3. OnRecord(r.id, Len(Append(journal, r.id)), Append(journal, r.id))
    BY <1>0, <2>1, <2>2 DEF OnRecord
  <2> QED
    BY <1>0, <2>3, PrefixOfAppend
<1>2. CASE Refuse(r) \/ Conclude(r)
  <2> DEFINE s == [r EXCEPT !.step = "answered"]
  <2>0. r.kind = "command"
    BY <1>0, <1>2 DEF Refuse, Conclude, Sound
  <2>1. s \in Fetch /\ s.step = "answered" /\ s.kind = r.kind /\ s.picture = r.picture
    BY <1>0 DEF Fetch, Steps
  <2>2. Sound(s, coil, journal')
    BY <1>0, <2>0, <2>1 DEF Sound
  <2> HIDE DEF s
  <2> QED
    BY <1>0, <1>1, <1>2, <2>2, HonestStep DEF Refuse, Conclude, Replace, s
<1>3. CASE Intend(r)
  <2> DEFINE s == [r EXCEPT !.step = "intended"]
  <2>1. s \in Fetch /\ s.step = "intended" /\ s.id = r.id /\ s.kind = "command"
    BY <1>0, <1>3 DEF Fetch, Steps, Intend
  <2>2. Sound(s, coil, journal')
    BY <1>1, <1>3, <2>1 DEF Sound, Intend
  <2> HIDE DEF s
  <2> QED
    BY <1>0, <1>1, <1>3, <2>2, HonestStep DEF Intend, Replace, s
<1>4. CASE Operate(r)
  <2> DEFINE s == [r EXCEPT !.step = "operated"]
             entry == [closed |-> r.closed, by |-> r.id]
  <2>1. s \in Fetch /\ s.step = "operated" /\ s.kind = "command"
    BY <1>0, <1>4 DEF Fetch, Steps, Operate, Sound
  <2>2. \A c : Sound(s, c, journal)
    BY <2>1 DEF Sound
  <2>3. left' \in Left
    BY <1>0, <1>4, Spent DEF Operate
  <2>4. entry \in State /\ OnRecord(r.id, Len(journal), journal)
    BY <1>0, <1>4 DEF State, Operate, Sound
  <2>5. /\ coil' \in Seq(State) /\ Prefix(coil, coil')
        /\ \A v \in (Len(coil) + 1)..Len(coil') : coil'[v].by = r.id
    <3>1. CASE coil' = Append(coil, entry)
      BY <1>0, <2>4, <3>1, PrefixOfAppend
    <3>2. CASE coil' = coil
      BY <1>0, <1>1, <3>2
    <3> QED
      BY <1>4, <3>1, <3>2 DEF Operate
  <2> HIDE DEF s
  <2>6. /\ requests' = (requests \ {r}) \cup {s}
        /\ UNCHANGED <<session, journal, gate, page>>
    BY <1>4 DEF Operate, Replace, s
  <2> QED
    BY <1>0, <1>1, <2>2, <2>3, <2>4, <2>5, <2>6, HonestStep
<1> QED
  BY <1>2, <1>3, <1>4

\* A restart ends the threads, and what they held with them.
LEMMA RestartIsHonest ==
    ASSUME Honest, Restart
    PROVE  Honest'
<1>0. Shape /\ page \in Page /\ session \in Int /\ left \in Left
  BY DEF Honest, Shape
<1>1. left' \in Left
  BY <1>0, Spent DEF Restart
<1>2. ASSUME NEW s \in requests', s \notin requests PROVE Sound(s, coil, journal)
  <2>1. PICK r \in requests : s = [r EXCEPT !.step = IF @ = "answered" THEN @ ELSE "dead"]
    BY <1>2 DEF Restart
  <2>2. r \in Fetch
    BY DEF Honest, Sound
  <2>3. CASE r.step = "answered"
    <3>1. s = r
      BY <2>1, <2>2, <2>3 DEF Fetch
    <3> QED
      BY <1>2, <3>1
  <2>4. CASE r.step # "answered"
    <3>1. s \in Fetch /\ s.step = "dead"
      BY <2>1, <2>2, <2>4 DEF Fetch, Steps
    <3> QED
      BY <3>1 DEF Sound
  <2> QED
    BY <2>3, <2>4
<1> QED
  BY <1>0, <1>1, <1>2, HonestAside DEF Restart

\* Before anything is asked, nothing is shown and nothing was moved.
LEMMA HonestInit == Init => Honest
<1> SUFFICES ASSUME Init PROVE Honest
  OBVIOUS
<1> DEFINE entry == [closed |-> FALSE, by |-> Hand]
<1>1. /\ session = 1 /\ coil = <<entry>> /\ journal = <<>> /\ page = Idle /\ requests = {}
      /\ left = scene.budget /\ scene \in Scenes
  BY DEF Init, PageInit
<1>2. left \in Left
  BY <1>1, InstallationAssumption DEF Left
<1>3. page \in Page /\ page.picture = NoPicture
  BY <1>1 DEF Idle, Page
<1>4. entry \in State /\ entry.by = Hand
  BY DEF State
<1> HIDE DEF entry
<1>5. coil \in Seq(State) /\ Len(coil) = 1 /\ coil[1] = entry
  BY <1>1, <1>4
<1>6. Shape
  BY <1>1, <1>2, <1>3, <1>5 DEF Shape
<1>7. MovesOnRecord(coil, journal)
  BY <1>4, <1>5 DEF MovesOnRecord
<1> QED
  BY <1>1, <1>3, <1>6, <1>7 DEF Honest

\* Every step is honest: those of the bench do not touch the page.
LEMMA HonestNext == Honest /\ [Next]_vars => Honest'
<1> SUFFICES ASSUME Honest, [Next]_vars PROVE Honest'
  OBVIOUS
<1>1. CASE PageStep
  <2> DEFINE enabled == loaded.enabled /\ loaded.targets # <<>>
  <2>1. enabled \in BOOLEAN
    OBVIOUS
  <2>2. PageNext(enabled)
    BY <1>1 DEF PageStep
  <2> HIDE DEF enabled
  <2>3. CASE Load \/ Refresh \/ \E closed \in BOOLEAN : Send(closed) \/ ByHand(closed)
    BY <2>3, PageIsHonest
  <2>4. ASSUME NEW r \in requests, Serve(r, enabled) \/ Receive(r) \/ Lose(r) PROVE Honest'
    BY <2>1, <2>4, ReceiveIsHonest, ReadingIsHonest, CommandIsHonest DEF Serve
  <2> QED
    BY <2>2, <2>3, <2>4 DEF PageNext
<1>2. CASE Reload
  BY <1>2, RestartIsHonest DEF Reload
<1>3. CASE UNCHANGED pageVars
  BY <1>3 DEF pageVars, Honest, Shape
<1> QED
  BY <1>1, <1>2, <1>3 DEF Next, BenchStep, vars

\* What the page shows of a relay is what the equipment once was, and a state a
\* command brought about is shown with a record of that command
\* (control_server.py:169).
THEOREM MoveIsExplainedAlways == Spec => []MoveIsExplained
<1>1. Honest => MoveIsExplained
  <2> SUFFICES ASSUME Honest, page.picture # NoPicture PROVE MoveIsExplained
    BY DEF MoveIsExplained
  <2> DEFINE p == page.picture
  <2>1. Explained(p, coil, journal)
    BY DEF Honest
  <2> HIDE DEF p
  <2>2. ASSUME coil[p.version].by # Hand
        PROVE  \E i \in 1..p.rows :
                  /\ journal[i] = coil[p.version].by
                  /\ i > p.rows - Recent => coil[p.version].by \in ToSet(p.journal)
    BY <2>1, <2>2 DEF Explained, OnRecord
  <2> QED
    BY <2>1, <2>2 DEF MoveIsExplained, Explained, ReadFrom, p
<1> QED
  BY <1>1, HonestInit, HonestNext, PTL DEF Spec

-------------------------------------------------------------------------------
(***************************************************************************)
(* One refresh of a load is on its way at a time, and it brings nothing    *)
(* older than what the page shows.                                         *)
(***************************************************************************)

\* What is shown does not go back in a step.
Onward ==
    page'.load = page.load /\ page.picture # NoPicture /\ page'.picture # NoPicture
    => page'.picture.version >= page.picture.version

\* A step that leaves the picture and the load alone, or clears one or changes the other.
LEMMA OnwardAside ==
    ASSUME Honest,
           page'.load # page.load \/ page'.picture \in {page.picture, NoPicture}
    PROVE  Onward
<1>1. page.picture # NoPicture => page.picture.version \in Int
  BY DEF Honest, Explained, ReadFrom
<1> QED
  BY <1>1 DEF Onward

\* A request that goes a step further is still the one there is.
LEMMA ReplacedForward ==
    ASSUME Forward, NEW r \in requests, NEW s, s.kind = r.kind, s.load = r.load,
           Replace(r, s), UNCHANGED page,
           /\ Mine(r) /\ page.picture # NoPicture
           /\ s.step = "targets" \/ (s.step = "answered" /\ s.picture # NoPicture)
           => s.picture.version >= page.picture.version
    PROVE  OneInFlight' /\ NoneOlder' /\ Onward
<1>1. requests' = (requests \ {r}) \cup {s} /\ page' = page
  BY DEF Replace
<1>2. OneInFlight /\ NoneOlder /\ Honest
  BY DEF Forward
<1>3. OneInFlight'
  BY <1>1, <1>2 DEF OneInFlight, Mine
<1>4. NoneOlder'
  BY <1>1, <1>2 DEF NoneOlder, Mine
<1> QED
  BY <1>1, <1>2, <1>3, <1>4, OnwardAside

\* A request that comes back is the last of its load, and what it brought is shown.
LEMMA ReturnedForward ==
    ASSUME Forward, NEW r \in requests, requests' = requests \ {r},
           \/ /\ Mine(r) /\ page'.load = page.load
              /\ \/ page'.picture = NoPicture
                 \/ page'.picture = r.picture /\ r.step = "answered"
           \/ ~Mine(r) /\ page' = page
    PROVE  OneInFlight' /\ NoneOlder' /\ Onward
<1>1. OneInFlight /\ NoneOlder /\ Honest
  BY DEF Forward
<1>2. CASE Mine(r) /\ page'.load = page.load
  <2>1. \A q \in requests' : ~Mine(q) /\ ~Mine(q)'
    BY <1>1, <1>2 DEF OneInFlight, Mine
  <2>2. \A q \in requests' : q.load <= page'.load
    BY <1>1, <1>2 DEF OneInFlight
  <2>3. OneInFlight' /\ NoneOlder'
    BY <2>1, <2>2 DEF OneInFlight, NoneOlder, Mine
  <2>4. CASE page'.picture = NoPicture
    BY <1>1, <2>3, <2>4, OnwardAside
  <2>5. CASE page'.picture = r.picture /\ r.step = "answered"
    BY <1>1, <1>2, <2>3, <2>5 DEF NoneOlder, Onward
  <2>6. Mine(r) /\ ~(~Mine(r) /\ page' = page)
    BY <1>2
  <2> QED
    BY <2>4, <2>5, <2>6
<1>3. CASE ~Mine(r) /\ page' = page
  <2>1. OneInFlight' /\ NoneOlder'
    BY <1>1, <1>3 DEF OneInFlight, NoneOlder, Mine
  <2> QED
    BY <1>1, <1>3, <2>1, OnwardAside
<1> QED
  BY <1>2, <1>3

\* The steps of the page itself: a load begins anew, a refresh waits for its turn.
LEMMA PageIsForward ==
    ASSUME Forward, Load \/ Refresh \/ \E closed \in BOOLEAN : Send(closed) \/ ByHand(closed)
    PROVE  OneInFlight' /\ NoneOlder' /\ Onward
<1>0. OneInFlight /\ NoneOlder /\ Honest /\ page \in Page /\ page.load \in Int
  BY DEF Forward, Honest, Shape, Page
<1>t. \A r \in requests : r.load \in Int
  BY DEF Forward, Honest, Sound, Fetch
<1>1. CASE Load
  <2> DEFINE new == [StateRequest EXCEPT !.load = page.load + 1, !.session = session]
  <2>1. /\ page'.load = page.load + 1 /\ page'.inFlight /\ page'.picture = NoPicture
        /\ requests' = requests \cup {new}
    BY <1>1 DEF Load
  <2>2. new.load = page.load + 1 /\ new.step = "sent"
    BY DEF StateRequest
  <2> HIDE DEF new
  <2>3. \A r \in requests : r.load <= page.load /\ ~Mine(r)'
    BY <1>0, <1>t, <2>1 DEF OneInFlight, Mine
  <2>4. \A r \in requests' : r.load <= page'.load
    BY <1>0, <1>t, <2>1, <2>2, <2>3
  <2>5. OneInFlight'
    BY <2>1, <2>3, <2>4 DEF OneInFlight, Mine
  <2>6. NoneOlder'
    BY <2>1 DEF NoneOlder
  <2> QED
    BY <1>0, <2>1, <2>5, <2>6, OnwardAside
<1>2. CASE Refresh
  <2>1. /\ ~page.inFlight /\ requests' = requests \cup {StateRequest}
        /\ page'.load = page.load /\ page'.inFlight /\ page'.picture = page.picture
    BY <1>0, <1>2 DEF Refresh, Page
  <2>2. StateRequest.load = page.load /\ StateRequest.step = "sent"
    BY DEF StateRequest
  <2>3. \A r \in requests : ~Mine(r)
    BY <1>0, <2>1 DEF OneInFlight
  <2>4. OneInFlight'
    BY <1>0, <2>1, <2>2, <2>3 DEF OneInFlight, Mine
  <2>5. NoneOlder'
    BY <2>1, <2>2, <2>3 DEF NoneOlder, Mine
  <2> QED
    BY <1>0, <2>1, <2>4, <2>5, OnwardAside
<1>3. ASSUME NEW closed \in BOOLEAN, Send(closed) PROVE OneInFlight' /\ NoneOlder' /\ Onward
  <2> DEFINE new == [StateRequest EXCEPT !.kind = "command", !.closed = closed,
                                         !.id = left.commands]
  <2>1. page' = page /\ requests' = requests \cup {new}
    BY <1>3 DEF Send
  <2>2. new.load = page.load /\ new.kind = "command"
    BY DEF StateRequest
  <2> HIDE DEF new
  <2>3. OneInFlight' /\ NoneOlder'
    BY <1>0, <2>1, <2>2 DEF OneInFlight, NoneOlder, Mine
  <2> QED
    BY <1>0, <2>1, <2>3, OnwardAside
<1>4. ASSUME NEW closed \in BOOLEAN, ByHand(closed) PROVE OneInFlight' /\ NoneOlder' /\ Onward
  <2>1. page' = page /\ requests' = requests
    BY <1>4 DEF ByHand
  <2>2. OneInFlight' /\ NoneOlder'
    BY <1>0, <2>1 DEF OneInFlight, NoneOlder, Mine
  <2> QED
    BY <1>0, <2>1, <2>2, OnwardAside
<1> QED
  BY <1>1, <1>2, <1>3, <1>4

\* What comes back to the page, or is lost on its way.
LEMMA ReceiveIsForward ==
    ASSUME Forward, NEW r \in requests, Receive(r) \/ Lose(r)
    PROVE  OneInFlight' /\ NoneOlder' /\ Onward
<1>0. /\ OneInFlight /\ NoneOlder /\ Honest /\ page \in Page /\ page.load \in Int /\ r \in Fetch
      /\ page.inFlight \in BOOLEAN
  BY DEF Forward, Honest, Shape, Page, Sound
<1>1. CASE Draw(r)
  <2>1. r.load = page.load => page'.load = page.load /\ page'.picture = r.picture
    BY <1>0, <1>1 DEF Draw, Page
  <2> QED
    BY <1>1, <2>1, ReturnedForward DEF Draw, Mine
<1>2. CASE FetchFails(r)
  <2>1. Mine(r) => page'.load = page.load /\ page'.picture = NoPicture
    BY <1>0, <1>2 DEF FetchFails, Page, Mine
  <2> QED
    BY <1>2, <2>1, ReturnedForward DEF FetchFails, Mine
<1>3. CASE Told(r)
  <2>1. ~Mine(r)
    BY <1>3 DEF Told, Mine
  <2>2. CASE r.load = page.load /\ ~page.inFlight
    <3>1. /\ requests' = (requests \ {r}) \cup {StateRequest}
          /\ page'.load = page.load /\ page'.inFlight /\ page'.picture = page.picture
      BY <1>0, <1>3, <2>2 DEF Told, Page
    <3>2. StateRequest.load = page.load /\ StateRequest.step = "sent"
      BY DEF StateRequest
    <3>3. \A q \in requests : ~Mine(q)
      BY <1>0, <2>2 DEF OneInFlight
    <3>4. OneInFlight'
      BY <1>0, <3>1, <3>2, <3>3 DEF OneInFlight, Mine
    <3>5. NoneOlder'
      BY <3>1, <3>2, <3>3 DEF NoneOlder, Mine
    <3> QED
      BY <1>0, <3>1, <3>4, <3>5, OnwardAside
  <2>3. CASE ~(r.load = page.load /\ ~page.inFlight)
    BY <1>3, <2>1, <2>3, ReturnedForward DEF Told
  <2> QED
    BY <2>2, <2>3
<1>4. CASE Lose(r)
  <2> DEFINE s == [r EXCEPT !.step = "dead"]
  <2>1. s.kind = r.kind /\ s.load = r.load /\ s.step = "dead"
    BY <1>0 DEF Fetch
  <2>2. Replace(r, s) /\ UNCHANGED page
    BY <1>4 DEF Lose
  <2> HIDE DEF s
  <2> QED
    BY <2>1, <2>2, ReplacedForward
<1> QED
  BY <1>1, <1>2, <1>3, <1>4 DEF Receive

\* The service: the coil it reads is the present one, no older than any shown.
LEMMA ServeIsForward ==
    ASSUME Forward, NEW r \in requests, NEW enabled \in BOOLEAN, Serve(r, enabled)
    PROVE  OneInFlight' /\ NoneOlder' /\ Onward
<1>0. /\ OneInFlight /\ NoneOlder /\ Honest /\ r \in Fetch /\ Sound(r, coil, journal)
      /\ Len(coil) \in Nat /\ UNCHANGED page
  BY DEF Forward, Honest, Shape, Sound, Serve, Forbid, ReadTargets, ReadJournal, Refuse,
         Intend, Operate, Conclude
<1>1. CASE Forbid(r)
  <2> DEFINE s == [r EXCEPT !.step = "answered"]
  <2>1. s.kind = r.kind /\ s.load = r.load /\ s.step = "answered" /\ s.picture = NoPicture
    BY <1>0, <1>1 DEF Fetch, Forbid, Sound
  <2>2. Replace(r, s)
    BY <1>1 DEF Forbid
  <2> HIDE DEF s
  <2> QED
    BY <1>0, <2>1, <2>2, ReplacedForward
<1>2. CASE ReadTargets(r, enabled)
  <2>1. PICK known \in BOOLEAN :
           Replace(r, [r EXCEPT !.step = "targets", !.picture = Reading(known, enabled)])
    BY <1>2 DEF ReadTargets
  <2> DEFINE p == Reading(known, enabled)
             s == [r EXCEPT !.step = "targets", !.picture = p]
  <2>2. p.version = Len(coil)
    BY DEF Reading
  <2> HIDE DEF p
  <2>3. s.kind = r.kind /\ s.load = r.load /\ s.picture = p
    BY <1>0 DEF Fetch
  <2>4. page.picture # NoPicture => page.picture.version \in 1..Len(coil)
    BY <1>0 DEF Honest, Explained, ReadFrom
  <2>5. Replace(r, s)
    BY <2>1 DEF p
  <2> HIDE DEF s
  <2> QED
    BY <1>0, <2>2, <2>3, <2>4, <2>5, ReplacedForward
<1>3. CASE ReadJournal(r)
  <2> DEFINE p == Completed(r.picture, RecentOf(journal), Len(journal))
             s == [r EXCEPT !.step = "answered", !.picture = p]
  <2>1. r.step = "targets" /\ r.picture \in Picture /\ ReadFrom(r.picture, coil)
    BY <1>0, <1>3 DEF ReadJournal, Sound
  <2>2. p.version = r.picture.version
    BY <2>1 DEF Completed, Picture
  <2>3. Replace(r, s)
    BY <1>0, <1>3 DEF ReadJournal, Fetch, Completed
  <2> HIDE DEF p
  <2>4. s.kind = r.kind /\ s.load = r.load /\ s.picture = p
    BY <1>0 DEF Fetch
  <2> HIDE DEF s
  <2>5. Mine(r) /\ page.picture # NoPicture
        => r.picture.version >= page.picture.version
    BY <1>0, <2>1 DEF NoneOlder
  <2> QED
    BY <1>0, <2>2, <2>3, <2>4, <2>5, ReplacedForward
<1>4. CASE Refuse(r) \/ Intend(r) \/ Operate(r) \/ Conclude(r)
  <2>1. r.kind = "command"
    BY <1>0, <1>4 DEF Sound, Refuse, Intend, Operate, Conclude
  <2>2. ASSUME NEW step, Replace(r, [r EXCEPT !.step = step])
        PROVE  OneInFlight' /\ NoneOlder' /\ Onward
    <3> DEFINE s == [r EXCEPT !.step = step]
    <3>1. s.kind = r.kind /\ s.load = r.load
      BY <1>0 DEF Fetch
    <3>2. Replace(r, s)
      BY <2>2
    <3> HIDE DEF s
    <3> QED
      BY <1>0, <2>1, <3>1, <3>2, ReplacedForward DEF Mine
  <2> QED
    BY <1>4, <2>2 DEF Refuse, Intend, Operate, Conclude
<1> QED
  BY <1>1, <1>2, <1>3, <1>4 DEF Serve

\* A restart ends the threads: what was answered stays so, the rest fails.
LEMMA RestartIsForward ==
    ASSUME Forward, Restart
    PROVE  OneInFlight' /\ NoneOlder' /\ Onward
<1>0. OneInFlight /\ NoneOlder /\ Honest /\ page' = page
  BY DEF Forward, Restart
<1> DEFINE Ended(r) == [r EXCEPT !.step = IF @ = "answered" THEN @ ELSE "dead"]
<1>1. requests' = {Ended(r) : r \in requests}
  BY DEF Restart
<1>2. \A r \in requests : /\ Ended(r).kind = r.kind /\ Ended(r).load = r.load
                          /\ Ended(r).picture = r.picture
                          /\ Ended(r).step # "targets"
                          /\ Ended(r).step = "answered" => r.step = "answered"
  <2> SUFFICES ASSUME NEW r \in requests
               PROVE  /\ Ended(r).kind = r.kind /\ Ended(r).load = r.load
                      /\ Ended(r).picture = r.picture
                      /\ Ended(r).step # "targets"
                      /\ Ended(r).step = "answered" => r.step = "answered"
    OBVIOUS
  <2>1. r \in Fetch
    BY <1>0 DEF Honest, Sound
  <2> QED
    BY <2>1 DEF Fetch
<1> HIDE DEF Ended
<1>3. \A r \in requests : Mine(Ended(r))' => Mine(r)
  BY <1>0, <1>2 DEF Mine
<1>4. OneInFlight'
  BY <1>0, <1>1, <1>2 DEF OneInFlight, Mine
<1>5. NoneOlder'
  BY <1>0, <1>1, <1>2 DEF NoneOlder, Mine
<1> QED
  BY <1>0, <1>4, <1>5, OnwardAside

\* Every step keeps the order of the pictures.
LEMMA ForwardNext == Forward /\ [Next]_vars => Forward' /\ Onward
<1> SUFFICES ASSUME Forward, [Next]_vars PROVE OneInFlight' /\ NoneOlder' /\ Onward
  BY HonestNext DEF Forward
<1>1. CASE PageStep
  <2> DEFINE enabled == loaded.enabled /\ loaded.targets # <<>>
  <2>1. enabled \in BOOLEAN
    OBVIOUS
  <2>2. PageNext(enabled)
    BY <1>1 DEF PageStep
  <2> HIDE DEF enabled
  <2>3. CASE Load \/ Refresh \/ \E closed \in BOOLEAN : Send(closed) \/ ByHand(closed)
    BY <2>3, PageIsForward
  <2>4. ASSUME NEW r \in requests, Serve(r, enabled) \/ Receive(r) \/ Lose(r)
        PROVE  OneInFlight' /\ NoneOlder' /\ Onward
    BY <2>1, <2>4, ServeIsForward, ReceiveIsForward
  <2> QED
    BY <2>2, <2>3, <2>4 DEF PageNext
<1>2. CASE Reload
  BY <1>2, RestartIsForward DEF Reload
<1>3. CASE UNCHANGED pageVars
  <2>1. page' = page /\ requests' = requests /\ OneInFlight /\ NoneOlder /\ Honest
    BY <1>3 DEF pageVars, Forward
  <2>2. OneInFlight' /\ NoneOlder'
    BY <2>1 DEF OneInFlight, NoneOlder, Mine
  <2> QED
    BY <2>1, <2>2, OnwardAside
<1> QED
  BY <1>1, <1>2, <1>3 DEF Next, BenchStep, vars

\* One load of the page never shows an older state of the relay after a newer
\* one (assets/control.js:169).
THEOREM PictureNeverGoesBackAlways == Spec => PictureNeverGoesBack
<1>1. Init => Forward
  BY HonestInit DEF Init, PageInit, Forward, OneInFlight, NoneOlder
<1>2. Forward /\ [Next]_vars => [page'.load = page.load /\ page.picture # NoPicture
                                 /\ page'.picture # NoPicture
                                 => page'.picture.version >= page.picture.version]_vars
  BY ForwardNext DEF Onward
<1> QED
  BY <1>1, <1>2, ForwardNext, PTL DEF Spec, PictureNeverGoesBack

-------------------------------------------------------------------------------
(***************************************************************************)
(* Means of readings.                                                      *)
(***************************************************************************)

\* The sums of the readings so far.
LEMMA SumsAre ==
    ASSUME NEW s \in Seq(Int)
    PROVE  /\ Sums(s) \in [0..Len(s) -> Int]
           /\ Sums(s)[0] = 0
           /\ \A n \in 1..Len(s) : Sums(s)[n] = Sums(s)[n - 1] + s[n]
<1> DEFINE N == Len(s)
           F == [n \in 1..N |-> [w \in Int |-> w + s[n]]]
           Follows(g) == g = [n \in 0..N |-> IF n = 0 THEN 0 ELSE g[n - 1] + s[n]]
<1>1. N \in Nat /\ \A n \in 1..N : s[n] \in Int
  OBVIOUS
<1>2. F \in [1..N -> [Int -> Int]]
  BY <1>1
<1>3. PICK g : Iterates(g, F, N, Int, 0)
  <2>1. Stepping(F, N, Int)
    BY <1>2 DEF Stepping
  <2> HIDE DEF F, N
  <2>2. 0 \in Int
    OBVIOUS
  <2> QED
    BY <1>1, <2>1, <2>2, Recursion
<1>4. g \in [0..N -> Int] /\ g[0] = 0 /\ \A n \in 1..N : g[n] = g[n - 1] + s[n]
  <2>1. g \in [0..N -> Int] /\ g[0] = 0 /\ \A n \in 1..N : g[n] = F[n][g[n - 1]]
    BY <1>3 DEF Iterates
  <2> HIDE DEF N
  <2>2. \A n \in 1..N : g[n - 1] \in Int
    BY <1>1, <2>1
  <2> QED
    BY <1>1, <2>1, <2>2
<1>5. Follows(g)
  BY <1>1, <1>4
<1> DEFINE h == Sums(s)
<1>6. h = CHOOSE f : Follows(f)
  BY DEF Sums
<1>7. Follows(h)
  <2> HIDE DEF Follows, h
  <2> QED
    BY <1>5, <1>6
<1>8. /\ DOMAIN h = 0..N /\ h[0] = 0
      /\ \A n \in 1..N : h[n] = h[n - 1] + s[n]
  BY <1>1, <1>7
<1> HIDE DEF h, Follows, N, F
<1>9. 0..N \subseteq {n \in 0..N : h[n] \in Int}
  <2> DEFINE G == {n \in 0..N : h[n] \in Int}
  <2>1. 0 \in G
    BY <1>1, <1>8
  <2>2. ASSUME NEW n \in 0..(N - 1), n \in G PROVE n + 1 \in G
    <3>1. n + 1 \in 1..N /\ (n + 1) - 1 = n /\ h[n] \in Int
      BY <1>1, <2>2
    <3>2. s[n + 1] \in Int /\ h[n + 1] = h[n] + s[n + 1]
      BY <1>1, <1>8, <3>1
    <3> QED
      BY <1>1, <3>1, <3>2
  <2> HIDE DEF G
  <2>3. Inductive(G, 0, N)
    BY <2>1, <2>2 DEF Inductive
  <2>4. 0..N \subseteq G
    BY <1>1, <2>3, Climb
  <2> QED
    BY <2>4 DEF G
<1>10. h \in [0..N -> Int]
  <2>1. h = [n \in 0..N |-> h[n]]
    BY <1>7 DEF Follows
  <2> QED
    BY <1>9, <2>1
<1> QED
  BY <1>8, <1>10 DEF h, N

\* A total is between as many times the least and as many times the greatest.
LEMMA TotalIs ==
    ASSUME NEW s \in Seq(Int), NEW low \in Int, NEW high \in Int,
           \A k \in 1..Len(s) : low <= s[k] /\ s[k] <= high
    PROVE  Total(s) \in Int /\ Len(s) * low <= Total(s) /\ Total(s) <= Len(s) * high
<1> DEFINE N == Len(s)
           h == Sums(s)
           G == {n \in 0..N : n * low <= h[n] /\ h[n] <= n * high}
<1>1. N \in Nat /\ \A n \in 1..N : s[n] \in Int /\ low <= s[n] /\ s[n] <= high
  OBVIOUS
<1>2. h \in [0..N -> Int] /\ h[0] = 0 /\ \A n \in 1..N : h[n] = h[n - 1] + s[n]
  BY SumsAre
<1>3. Total(s) = h[N]
  BY DEF Total
<1> HIDE DEF N, h
<1>4. 0 \in G
  BY <1>1, <1>2
<1>5. ASSUME NEW n \in 0..(N - 1), n \in G PROVE n + 1 \in G
  <2>1. n + 1 \in 1..N /\ (n + 1) - 1 = n /\ n \in 0..N /\ n + 1 \in 0..N /\ n \in Nat
    BY <1>1, <1>5
  <2>2. h[n] \in Int /\ s[n + 1] \in Int /\ h[n + 1] = h[n] + s[n + 1]
    BY <1>1, <1>2, <2>1
  <2>3. low <= s[n + 1] /\ s[n + 1] <= high /\ n * low <= h[n] /\ h[n] <= n * high
    BY <1>1, <1>5, <2>1
  <2>4. (n + 1) * low = n * low + low /\ (n + 1) * high = n * high + high
        /\ n * low \in Int /\ n * high \in Int
    BY <2>1
  <2>5. (n + 1) * low <= h[n + 1] /\ h[n + 1] <= (n + 1) * high
    BY <2>2, <2>3, <2>4
  <2> QED
    BY <2>1, <2>5
<1> HIDE DEF G
<1>6. Inductive(G, 0, N)
  BY <1>4, <1>5 DEF Inductive
<1>7. N \in G
  <2>1. 0..N \subseteq G /\ N \in 0..N
    BY <1>1, <1>6, Climb
  <2> QED
    BY <2>1
<1>8. N * low <= h[N] /\ h[N] <= N * high /\ h[N] \in Int
  BY <1>1, <1>2, <1>7 DEF G
<1> QED
  BY <1>3, <1>8 DEF N

\* The quotient of what is between multiples lies between the factors.
LEMMA QuotientBetween ==
    ASSUME NEW t \in Int, NEW n \in Nat, n > 0, NEW low \in Int, NEW high \in Int,
           n * low <= t, t <= n * high
    PROVE  t \div n \in Int /\ low <= t \div n /\ t \div n <= high
<1>1. t \div n \in Int /\ n * (t \div n) <= t /\ t < n * (t \div n) + n
  OBVIOUS
<1> DEFINE q == t \div n
<1> HIDE DEF q
<1>2. q \in Int /\ n * q <= t /\ t < n * q + n
  BY <1>1 DEF q
<1>3. low <= q
  <2> SUFFICES ASSUME q < low PROVE FALSE
    BY <1>2
  <2>1. n * (q + 1) <= n * low
    BY <1>2
  <2> QED
    BY <1>2, <2>1
<1>4. q <= high
  <2> SUFFICES ASSUME high < q PROVE FALSE
    BY <1>2
  <2>1. n * (high + 1) <= n * q
    BY <1>2
  <2> QED
    BY <1>2, <2>1
<1> QED
  BY <1>2, <1>3, <1>4 DEF q

\* The mean of settled readings is a number within their spread of each of them.
LEMMA MeanIs ==
    ASSUME NEW s \in Seq(Int), Len(s) > 0
    PROVE  /\ Mean(s) \in Int /\ Spread(s) \in Int
           /\ \A k \in 1..Len(s) : s[k] - Mean(s) \in -Spread(s)..Spread(s)
<1> DEFINE n == Len(s)
           low == Min(ToSet(s))
           high == Max(ToSet(s))
<1>1. n \in Nat /\ n > 0 /\ \A k \in 1..n : s[k] \in Int
  OBVIOUS
<1>2. /\ ToSet(s) \subseteq Int /\ ToSet(s) # {} /\ IsFiniteSet(ToSet(s))
      /\ \A k \in 1..n : s[k] \in ToSet(s)
  <2>1. ToSet(s) = {s[k] : k \in DOMAIN s} /\ DOMAIN s = 1..n
    BY DEF ToSet
  <2>2. IsFiniteSet(DOMAIN s)
    BY <1>1, <2>1, FS_Interval
  <2>3. IsFiniteSet({s[k] : k \in DOMAIN s})
    BY <2>2, FiniteImage
  <2>4. 1 \in 1..n
    BY <1>1
  <2> QED
    BY <1>1, <2>1, <2>3, <2>4
<1>3. low \in Int /\ high \in Int /\ \A k \in 1..n : low <= s[k] /\ s[k] <= high
  BY <1>2, Extremes
<1>4. Mean(s) = Total(s) \div n /\ Spread(s) = high - low
  BY DEF Mean, Spread
<1> HIDE DEF low, high
<1>5. Total(s) \in Int /\ n * low <= Total(s) /\ Total(s) <= n * high
  BY <1>3, TotalIs
<1> HIDE DEF n
<1> DEFINE t == Total(s)
<1> HIDE DEF t
<1>6. t \in Int /\ n * low <= t /\ t <= n * high /\ Mean(s) = t \div n
  BY <1>4, <1>5 DEF t
<1>7. t \div n \in Int /\ low <= t \div n /\ t \div n <= high
  BY <1>1, <1>3, <1>6, QuotientBetween
<1> DEFINE q == Mean(s)
<1> HIDE DEF q
<1>8. q \in Int /\ low <= q /\ q <= high
  BY <1>6, <1>7 DEF q
<1>9. ASSUME NEW k \in 1..n PROVE s[k] - q \in -(high - low)..(high - low)
  BY <1>1, <1>3, <1>8
<1> QED
  BY <1>3, <1>4, <1>8, <1>9 DEF q, n

\* The member of a set that a sum takes next.
FirstOf(s) == CHOOSE x \in s : TRUE

\* What a sum over the subsets of a set is.
SumsUp(g, v, D) ==
    /\ g \in [SUBSET D -> Int]
    /\ g[{}] = 0
    /\ \A s \in SUBSET D : s # {} => g[s] = v[FirstOf(s)] + g[s \ {FirstOf(s)}]

\* There is one: the iterates agree on all that is no larger than their number.
LEMMA SumExists ==
    ASSUME NEW D, IsFiniteSet(D), NEW v \in [D -> Int]
    PROVE  \E g : SumsUp(g, v, D)
<1> DEFINE N == Cardinality(D)
           W == [SUBSET D -> Int]
           Taken(g) == [s \in SUBSET D |-> IF s = {} THEN 0 ELSE v[FirstOf(s)] + g[s \ {FirstOf(s)}]]
           F == [n \in 1..(N + 1) |-> [g \in W |-> Taken(g)]]
           none == [s \in SUBSET D |-> 0]
<1>1. N \in Nat /\ N + 1 \in Nat /\ none \in W
  BY FS_CardinalityType
<1>2. \A s \in SUBSET D : s # {} => FirstOf(s) \in s /\ FirstOf(s) \in D /\ s \ {FirstOf(s)} \in SUBSET D
  BY DEF FirstOf
<1>3. ASSUME NEW g \in W PROVE Taken(g) \in W
  <2>1. ASSUME NEW s \in SUBSET D, s # {} PROVE v[FirstOf(s)] + g[s \ {FirstOf(s)}] \in Int
    <3>1. v[FirstOf(s)] \in Int /\ g[s \ {FirstOf(s)}] \in Int
      BY <1>2, <2>1
    <3> QED
      BY <3>1
  <2> QED
    BY <2>1
<1> HIDE DEF N, W, Taken
<1>4. F \in [1..(N + 1) -> [W -> W]]
  BY <1>3
<1>5. PICK h : Iterates(h, F, N + 1, W, none)
  <2>1. Stepping(F, N + 1, W)
    BY <1>4 DEF Stepping
  <2> HIDE DEF F, none
  <2> QED
    BY <1>1, <2>1, Recursion
<1>6. h \in [0..(N + 1) -> W] /\ h[0] = none /\ \A n \in 1..(N + 1) : h[n] = F[n][h[n - 1]]
  BY <1>5 DEF Iterates
<1>7. ASSUME NEW n \in 0..N PROVE h[n] \in W /\ h[n + 1] \in W /\ h[n + 1] = Taken(h[n])
  <2>1. n + 1 \in 1..(N + 1) /\ (n + 1) - 1 = n /\ n \in 0..(N + 1) /\ n + 1 \in 0..(N + 1)
    BY <1>1
  <2>2. h[n + 1] = F[n + 1][h[n]] /\ h[n] \in W /\ h[n + 1] \in W
    BY <1>6, <2>1
  <2> QED
    BY <2>1, <2>2
<1>8. /\ \A g \in W : g = [s \in SUBSET D |-> g[s]]
      /\ \A g \in W : Taken(g)[{}] = 0
      /\ \A g \in W : \A s \in SUBSET D : s # {} => Taken(g)[s] = v[FirstOf(s)] + g[s \ {FirstOf(s)}]
  BY DEF W, Taken
<1> DEFINE G == {n \in 0..N : \A s \in SUBSET D : Cardinality(s) <= n => h[n][s] = h[n + 1][s]}
<1>9. 0 \in G
  <2>1. 0 \in 0..N /\ h[0] = none /\ 0 + 1 = 1
    BY <1>1, <1>6
  <2>2. ASSUME NEW s \in SUBSET D, Cardinality(s) <= 0 PROVE s = {}
    <3>1. IsFiniteSet(s) /\ Cardinality(s) \in Nat
      BY FS_Subset, FS_CardinalityType
    <3>2. Cardinality(s) = 0
      BY <2>2, <3>1
    <3> QED
      BY <3>1, <3>2, FS_EmptySet
  <2>3. h[0][{}] = 0 /\ h[1][{}] = 0
    BY <1>7, <1>8, <2>1
  <2> QED
    BY <2>1, <2>2, <2>3
<1>10. ASSUME NEW n \in 0..(N - 1), n \in G PROVE n + 1 \in G
  <2>1. n \in 0..N /\ n + 1 \in 0..N /\ n \in Nat
    BY <1>1
  <2>2. /\ h[n] \in W /\ h[n + 1] \in W /\ h[n + 1] = Taken(h[n])
        /\ h[(n + 1) + 1] \in W /\ h[(n + 1) + 1] = Taken(h[n + 1])
    BY <1>7, <2>1
  <2>3. ASSUME NEW s \in SUBSET D, Cardinality(s) <= n + 1 PROVE h[n + 1][s] = h[(n + 1) + 1][s]
    <3>1. CASE s = {}
      BY <1>8, <2>2, <3>1
    <3>2. CASE s # {}
      <4> DEFINE t == s \ {FirstOf(s)}
      <4>1. IsFiniteSet(s) /\ FirstOf(s) \in s /\ t \in SUBSET D
        BY <1>2, <3>2, FS_Subset
      <4>2. Cardinality(t) = Cardinality(s) - 1 /\ Cardinality(s) \in Nat
        BY <4>1, FS_RemoveElement, FS_CardinalityType
      <4>3. Cardinality(t) <= n
        BY <2>1, <2>3, <4>2
      <4>4. h[n][t] = h[n + 1][t]
        BY <1>10, <4>1, <4>3
      <4>5. h[n + 1][s] = v[FirstOf(s)] + h[n][t] /\ h[(n + 1) + 1][s] = v[FirstOf(s)] + h[n + 1][t]
        BY <1>8, <2>2, <3>2
      <4> QED
        BY <4>4, <4>5
    <3> QED
      BY <3>1, <3>2
  <2> QED
    BY <2>1, <2>3
<1> HIDE DEF G
<1>11. Inductive(G, 0, N)
  BY <1>9, <1>10 DEF Inductive
<1>12. N \in G
  <2>1. 0..N \subseteq G /\ N \in 0..N
    BY <1>1, <1>11, Climb
  <2> QED
    BY <2>1
<1>13. \A s \in SUBSET D : Cardinality(s) <= N
  <2> SUFFICES ASSUME NEW s \in SUBSET D PROVE Cardinality(s) <= N
    OBVIOUS
  <2> QED
    BY FS_Subset DEF N
<1> DEFINE g == h[N]
<1>14. g \in W /\ h[N + 1] = Taken(g)
  BY <1>1, <1>7
<1>15. \A s \in SUBSET D : g[s] = Taken(g)[s]
  BY <1>12, <1>13, <1>14 DEF G
<1> HIDE DEF g
<1>16. g[{}] = 0 /\ \A s \in SUBSET D : s # {} => g[s] = v[FirstOf(s)] + g[s \ {FirstOf(s)}]
  BY <1>8, <1>14, <1>15
<1>17. SumsUp(g, v, D)
  BY <1>14, <1>16 DEF SumsUp, W
<1> QED
  BY <1>17

\* The means of the devices of a run add up to a number.
LEMMA MeansAddUp ==
    ASSUME NEW measured, IsFiniteSet(DOMAIN measured),
           \A d \in DOMAIN measured : Mean(measured[d]) \in Int
    PROVE  MapThenSumSet(LAMBDA d : Mean(measured[d]), DOMAIN measured) \in Int
<1> DEFINE D == DOMAIN measured
           v == [d \in D |-> Mean(measured[d])]
           Follows(g) == g = [s \in SUBSET D |->
                                IF s = {} THEN 0 ELSE Mean(measured[FirstOf(s)]) + g[s \ {FirstOf(s)}]]
<1>1. v \in [D -> Int]
  OBVIOUS
<1>2. \A s \in SUBSET D : s # {} => FirstOf(s) \in D /\ v[FirstOf(s)] = Mean(measured[FirstOf(s)])
  <2>1. \A s \in SUBSET D : s # {} => FirstOf(s) \in s
    BY DEF FirstOf
  <2> QED
    BY <2>1
<1>3. MapThenSumSet(LAMBDA d : Mean(measured[d]), DOMAIN measured) = (CHOOSE g : Follows(g))[D]
  BY DEF MapThenSumSet, MapThenFoldSet, FirstOf
<1> HIDE DEF v
<1>4. PICK g : SumsUp(g, v, D)
  <2> HIDE DEF D
  <2> QED
    BY <1>1, SumExists DEF D
<1>5. Follows(g)
  <2>1. g = [s \in SUBSET D |-> g[s]]
    BY <1>4 DEF SumsUp
  <2>2. \A s \in SUBSET D :
           g[s] = IF s = {} THEN 0 ELSE Mean(measured[FirstOf(s)]) + g[s \ {FirstOf(s)}]
    BY <1>2, <1>4 DEF SumsUp
  <2> HIDE DEF D
  <2>3. g = [s \in SUBSET D |-> IF s = {} THEN 0 ELSE Mean(measured[FirstOf(s)]) + g[s \ {FirstOf(s)}]]
    BY <2>1, <2>2
  <2> QED
    BY <2>3
<1> DEFINE h == CHOOSE f : Follows(f)
<1>6. Follows(h)
  <2> HIDE DEF Follows
  <2> QED
    BY <1>5
<1>7. h = g
  <2>1. /\ h = [s \in SUBSET D |-> h[s]]
        /\ \A s \in SUBSET D :
           h[s] = IF s = {} THEN 0 ELSE Mean(measured[FirstOf(s)]) + h[s \ {FirstOf(s)}]
    BY <1>6
  <2>2. /\ g = [s \in SUBSET D |-> g[s]]
        /\ \A s \in SUBSET D :
           g[s] = IF s = {} THEN 0 ELSE Mean(measured[FirstOf(s)]) + g[s \ {FirstOf(s)}]
    BY <1>5
  <2> HIDE DEF h, Follows, D
  <2> DEFINE Bad == {n \in Nat : \E s \in SUBSET D : Cardinality(s) = n /\ h[s] # g[s]}
  <2>3. Bad = {}
    <3> SUFFICES ASSUME Bad # {} PROVE FALSE
      OBVIOUS
    <3>1. PICK n \in Bad : \A k \in Bad : n <= k
      BY LeastNat
    <3>2. PICK s \in SUBSET D : Cardinality(s) = n /\ h[s] # g[s]
      BY <3>1
    <3>3. s # {}
      BY <2>1, <2>2, <3>2
    <3> DEFINE t == s \ {FirstOf(s)}
    <3>4. IsFiniteSet(s) /\ FirstOf(s) \in s /\ t \in SUBSET D
      BY <3>3, FS_Subset DEF FirstOf, D
    <3>5. IsFiniteSet(t) /\ Cardinality(t) \in Nat /\ Cardinality(t) = Cardinality(s) - 1
      BY <3>4, FS_RemoveElement, FS_CardinalityType
    <3>6. Cardinality(t) \notin Bad
      <4> DEFINE c == Cardinality(t)
      <4> HIDE DEF c
      <4>1. c \in Nat /\ c = n - 1 /\ n \in Nat
        BY <3>2, <3>5 DEF c
      <4> HIDE DEF Bad
      <4>2. c \notin Bad
        BY <3>1, <4>1
      <4> QED
        BY <4>2 DEF c
    <3>7. h[t] = g[t]
      BY <3>4, <3>5, <3>6
    <3>8. h[s] = g[s]
      BY <2>1, <2>2, <3>3, <3>7
    <3> QED
      BY <3>2, <3>8
  <2>4. \A s \in SUBSET D : h[s] = g[s]
    <3> SUFFICES ASSUME NEW s \in SUBSET D PROVE h[s] = g[s]
      OBVIOUS
    <3>1. Cardinality(s) \in Nat
      BY FS_Subset, FS_CardinalityType DEF D
    <3> QED
      BY <2>3, <3>1
  <2>5. h = g
    BY <2>1, <2>2, <2>4
  <2> QED
    BY <2>5
<1>8. g[D] \in Int
  BY <1>4 DEF SumsUp
<1> QED
  BY <1>3, <1>7, <1>8

-------------------------------------------------------------------------------
(***************************************************************************)
(* The bath.                                                               *)
(***************************************************************************)

\* A run of numbers, each device of which answered.
Readings(r) ==
    /\ IsFiniteSet(DOMAIN r)
    /\ \A d \in DOMAIN r : r[d] \in Seq(Int) /\ Len(r[d]) > 0

\* The readings are the answers, and the offsets those of the run pasted last.
Bathed ==
    /\ scene \in Scenes
    /\ doc.probes \in Seq(ProbeReads)
    /\ run = answered
    /\ Readings(run)
    /\ UsableCalibrationMeetsReference

\* A round adds a reading of each device that answers.
LEMMA SampledReadings ==
    ASSUME NEW r, Readings(r), NEW round, IsFiniteSet(DOMAIN round),
           \A d \in DOMAIN round : round[d] \in Int
    PROVE  Readings(Sampled(r, round))
<1> DEFINE t == Sampled(r, round)
           before(d) == IF d \in DOMAIN r THEN r[d] ELSE <<>>
           added(d) == IF d \in DOMAIN round THEN <<round[d]>> ELSE <<>>
<1>1. DOMAIN t = DOMAIN r \cup DOMAIN round /\ \A d \in DOMAIN t : t[d] = before(d) \o added(d)
  BY DEF Sampled
<1>2. IsFiniteSet(DOMAIN t)
  BY <1>1, FS_Union DEF Readings
<1>3. ASSUME NEW d \in DOMAIN t PROVE t[d] \in Seq(Int) /\ Len(t[d]) > 0
  <2>1. /\ before(d) \in Seq(Int) /\ added(d) \in Seq(Int)
    BY DEF Readings
  <2>2. Len(before(d)) > 0 \/ Len(added(d)) > 0
    BY <1>1 DEF Readings
  <2>3. t[d] = before(d) \o added(d)
    BY <1>1
  <2> HIDE DEF before, added, t
  <2>4. before(d) \o added(d) \in Seq(Int)
        /\ Len(before(d) \o added(d)) = Len(before(d)) + Len(added(d))
    BY <2>1, Joined
  <2>5. Len(before(d)) \in Nat /\ Len(added(d)) \in Nat
    BY <2>1
  <2>6. Len(t[d]) > 0
    <3> DEFINE a == Len(before(d))
               b == Len(added(d))
    <3>1. a \in Nat /\ b \in Nat /\ (a > 0 \/ b > 0) /\ Len(t[d]) = a + b
      BY <2>2, <2>3, <2>4, <2>5
    <3> HIDE DEF a, b
    <3> QED
      BY <3>1
  <2> QED
    BY <2>3, <2>4, <2>6
<1> QED
  BY <1>2, <1>3 DEF Readings, t

\* The temperature a run is brought to is a number.
LEMMA TargetIs ==
    ASSUME NEW r, Readings(r), DOMAIN r # {}, NEW reference,
           reference.kind \in {"group", "known", "device"}, reference.celsius \in Int,
           reference.kind = "device" => reference.device \in DOMAIN r
    PROVE  Target(r, reference) \in Int
<1>1. \A d \in DOMAIN r : Mean(r[d]) \in Int
  <2> SUFFICES ASSUME NEW d \in DOMAIN r PROVE Mean(r[d]) \in Int
    OBVIOUS
  <2> DEFINE s == r[d]
  <2>1. s \in Seq(Int) /\ Len(s) > 0
    BY DEF Readings
  <2> HIDE DEF s
  <2>2. Mean(s) \in Int
    BY <2>1, MeanIs
  <2> QED
    BY <2>2 DEF s
<1>2. IsFiniteSet(DOMAIN r)
  BY DEF Readings
<1> DEFINE sum == MapThenSumSet(LAMBDA d : Mean(r[d]), DOMAIN r)
           n == Cardinality(DOMAIN r)
<1>3. sum \in Int
  BY <1>1, <1>2, MeansAddUp
<1>4. n \in Nat /\ n > 0
  <2>1. n \in Nat /\ n # 0
    BY <1>2, FS_CardinalityType, FS_EmptySet
  <2> HIDE DEF n
  <2> QED
    BY <2>1
<1>5. Target(r, reference) = CASE reference.kind = "group" -> sum \div n
                               [] reference.kind = "known" -> reference.celsius
                               [] reference.kind = "device" -> Mean(r[reference.device])
  BY DEF Target
<1> HIDE DEF sum, n
<1>6. sum \div n \in Int
  BY <1>3, <1>4
<1> QED
  BY <1>1, <1>5, <1>6

\* An offset from the mean of settled readings brings each of them near the target.
LEMMA OffsetBrings ==
    ASSUME NEW s \in Seq(Int), Settled(s), NEW target \in Int, NEW offset,
           offset = target - Mean(s)
    PROVE  /\ offset \in Int
           /\ Mean(s) + offset = target
           /\ \A k \in DOMAIN s : s[k] + offset - target \in -SettledSpread..SettledSpread
<1>1. Len(s) > 0 /\ Spread(s) <= SettledSpread /\ SettledSpread \in Nat
  BY CalibrationAssumption DEF Settled
<1>2. /\ Mean(s) \in Int /\ Spread(s) \in Int
      /\ \A k \in 1..Len(s) : s[k] - Mean(s) \in -Spread(s)..Spread(s)
  BY <1>1, MeanIs
<1> DEFINE m == Mean(s)
           w == Spread(s)
<1>3. \A k \in DOMAIN s : s[k] \in Int /\ s[k] - m \in -w..w
  BY <1>2
<1>4. m \in Int /\ w \in Int /\ w <= SettledSpread /\ offset = target - m
  BY <1>1, <1>2
<1> HIDE DEF m, w
<1>5. offset \in Int /\ m + offset = target
  BY <1>4
<1>6. ASSUME NEW k \in DOMAIN s PROVE s[k] + offset - target \in -SettledSpread..SettledSpread
  <2> DEFINE x == s[k]
  <2>1. x \in Int /\ x - m \in -w..w
    BY <1>3
  <2> HIDE DEF x
  <2>2. x + offset - target \in -SettledSpread..SettledSpread
    BY <1>1, <1>4, <2>1
  <2> QED
    BY <2>2 DEF x
<1> QED
  BY <1>5, <1>6 DEF m

\* The devices of the file are finitely many.
LEMMA DevicesFinite == doc.probes \in Seq(ProbeReads) => IsFiniteSet(Devices)
<1> SUFFICES ASSUME doc.probes \in Seq(ProbeReads) PROVE IsFiniteSet(Devices)
  OBVIOUS
<1> DEFINE f == [i \in DOMAIN doc.probes |-> doc.probes[i].device]
<1>1. IsFiniteSet(DOMAIN f) /\ DOMAIN f = DOMAIN doc.probes
  BY FS_Interval
<1>2. Devices = {f[i] : i \in DOMAIN f}
  BY DEF Devices, ToSet
<1> HIDE DEF f
<1> QED
  BY <1>1, <1>2, FiniteImage

\* A scene's bath and reference are of their types.
LEMMA SceneTyped ==
    ASSUME scene \in Scenes
    PROVE  /\ scene.doc \in Documents
           /\ scene.bath \subseteq Int
           /\ scene.reference \in [kind: {"group", "known", "device"}, device: STRING, celsius: Int]
BY InstallationAssumption

\* At the start nothing was read and nothing was pasted.
LEMMA BathedInit == Init => Bathed
<1> SUFFICES ASSUME Init PROVE Bathed
  OBVIOUS
<1>1. scene \in Scenes /\ doc = scene.doc /\ run = <<>> /\ answered = <<>> /\ pasted = Nothing
  BY DEF Init
<1>2. doc.probes \in Seq(ProbeReads)
  BY <1>1, SceneTyped DEF Documents, ProbeReads
<1>3. Readings(run)
  <2>1. DOMAIN run = {}
    BY <1>1
  <2> QED
    BY <2>1, FS_EmptySet DEF Readings
<1> QED
  BY <1>1, <1>2, <1>3 DEF Bathed, UsableCalibrationMeetsReference

\* A round keeps what is kept an answer.
LEMMA RoundIsBathed == Bathed /\ Round => Bathed'
<1> SUFFICES ASSUME Bathed, Round PROVE Bathed'
  OBVIOUS
<1>1. /\ scene \in Scenes /\ doc.probes \in Seq(ProbeReads) /\ run = answered /\ Readings(run)
      /\ scene' = scene /\ doc' = doc /\ pasted' = pasted
  BY DEF Bathed, Round
<1>2. PICK answering \in SUBSET Devices :
         \E celsius \in [answering -> scene.bath] :
            /\ run' = Sampled(run, [d \in answering |-> Reading1Wire(d, celsius[d])])
            /\ answered' = Sampled(answered, celsius)
  BY DEF Round
<1>3. PICK celsius \in [answering -> scene.bath] :
            /\ run' = Sampled(run, [d \in answering |-> Reading1Wire(d, celsius[d])])
            /\ answered' = Sampled(answered, celsius)
  BY <1>2
<1>4. [d \in answering |-> Reading1Wire(d, celsius[d])] = celsius
  BY DEF Reading1Wire
<1>5. IsFiniteSet(DOMAIN celsius)
  BY <1>1, DevicesFinite, FS_Subset
<1>6. \A d \in DOMAIN celsius : celsius[d] \in Int
  BY <1>1, SceneTyped
<1>7. Readings(run') /\ run' = answered'
  BY <1>1, <1>3, <1>4, <1>5, <1>6, SampledReadings
<1>8. Readings(run)'
  BY <1>7 DEF Readings
<1> QED
  BY <1>1, <1>7, <1>8 DEF Bathed, UsableCalibrationMeetsReference

\* Pasting the offsets of a usable run brings its devices to the target.
LEMMA PasteIsBathed == Bathed /\ Paste => Bathed'
<1> SUFFICES ASSUME Bathed, Paste PROVE Bathed'
  OBVIOUS
<1> DEFINE target == Target(run, scene.reference)
           offsets == Offsets(run, scene.reference)
           probes == doc.probes
           corrected(i) == IF probes[i].device \in DOMAIN run
                           THEN [probes[i] EXCEPT !.offset = offsets[probes[i].device]]
                           ELSE probes[i]
<1>1. /\ scene \in Scenes /\ probes \in Seq(ProbeReads) /\ run = answered /\ Readings(run)
      /\ scene' = scene /\ run' = <<>> /\ answered' = <<>>
  BY DEF Bathed, Paste
<1>2. CalibrateExit(run, scene.reference) = "ok"
  BY DEF Paste
<1>3. Calibrates(run, scene.reference) /\ Usable(run)
  BY <1>2 DEF CalibrateExit
<1>4. pasted'.answers = answered /\ pasted'.target = target
  BY DEF Paste
<1>5. doc'.probes = [i \in DOMAIN probes |-> corrected(i)]
  BY DEF Paste
<1>6. target \in Int
  <2>1. /\ scene.reference.kind \in {"group", "known", "device"} /\ scene.reference.celsius \in Int
    BY <1>1, SceneTyped
  <2>2. DOMAIN run # {} /\ (scene.reference.kind = "device" => scene.reference.device \in DOMAIN run)
    BY <1>3 DEF Calibrates
  <2> QED
    BY <1>1, <2>1, <2>2, TargetIs
<1>7. ASSUME NEW d \in DOMAIN run
      PROVE  /\ offsets[d] \in Int
             /\ Mean(run[d]) + offsets[d] = target
             /\ \A k \in DOMAIN run[d] :
                   run[d][k] + offsets[d] - target \in -SettledSpread..SettledSpread
  <2>1. offsets[d] = target - Mean(run[d])
    BY <1>7 DEF Offsets
  <2>2. run[d] \in Seq(Int) /\ Settled(run[d])
    BY <1>1, <1>3, <1>7 DEF Readings, Usable
  <2> HIDE DEF target, offsets
  <2> QED
    BY <1>6, <2>1, <2>2, OffsetBrings
<1> HIDE DEF target, offsets
<1>8. ASSUME NEW i \in DOMAIN probes
      PROVE  /\ corrected(i) \in ProbeReads
             /\ corrected(i).device = probes[i].device
             /\ probes[i].device \in DOMAIN run => corrected(i).offset = offsets[probes[i].device]
  <2> DEFINE p == probes[i]
  <2>1. p \in ProbeReads
    BY <1>1, <1>8
  <2>2. p.device \in DOMAIN run => offsets[p.device] \in Int
    BY <1>7
  <2> HIDE DEF p, probes
  <2> QED
    BY <2>1, <2>2 DEF ProbeReads, p
<1>9. doc'.probes \in Seq(ProbeReads) /\ DOMAIN doc'.probes = DOMAIN probes
      /\ \A i \in DOMAIN probes : doc'.probes[i] = corrected(i)
  <2>1. DOMAIN probes = 1..Len(probes) /\ Len(probes) \in Nat
    BY <1>1
  <2> HIDE DEF probes, corrected
  <2> QED
    BY <1>5, <1>8, <2>1
<1> HIDE DEF probes
<1>10. UsableCalibrationMeetsReference'
  <2> SUFFICES ASSUME NEW i \in DOMAIN probes, doc'.probes[i].device \in DOMAIN pasted'.answers
               PROVE  LET read == doc'.probes[i]
                          answers == pasted'.answers[read.device]
                          off(k) == answers[k] + read.offset - pasted'.target
                      IN /\ Mean(answers) + read.offset = pasted'.target
                         /\ \A k \in DOMAIN answers : off(k) \in -SettledSpread..SettledSpread
    BY <1>9 DEF UsableCalibrationMeetsReference
  <2> DEFINE d == probes[i].device
  <2>1. doc'.probes[i].device = d /\ d \in DOMAIN run /\ doc'.probes[i].offset = offsets[d]
        /\ pasted'.answers[d] = run[d] /\ pasted'.target = target
    BY <1>1, <1>4, <1>8, <1>9
  <2> HIDE DEF d
  <2> QED
    BY <1>7, <2>1
<1>11. Readings(run)'
  <2>1. DOMAIN run' = {}
    BY <1>1
  <2> QED
    BY <2>1, FS_EmptySet DEF Readings
<1> QED
  BY <1>1, <1>9, <1>10, <1>11 DEF Bathed

\* Nothing else touches the bath or the file.
LEMMA BathedNext == Bathed /\ [Next]_vars => Bathed'
<1> SUFFICES ASSUME Bathed, [Next]_vars PROVE Bathed'
  OBVIOUS
<1>1. CASE UNCHANGED <<scene, doc, run, answered, pasted>>
  BY <1>1 DEF Bathed, UsableCalibrationMeetsReference, Readings
<1>2. CASE Round
  BY <1>2, RoundIsBathed
<1>3. CASE Paste
  BY <1>3, PasteIsBathed
<1>4. Round \/ Paste \/ UNCHANGED <<scene, doc, run, answered, pasted>>
  BY DEF Next, PageStep, BenchStep, Reload, Probe, Cycle, vars, benchVars
<1> QED
  BY <1>1, <1>2, <1>3, <1>4

\* A run whose offsets were printed brings each of its devices to the target
\* (geopilot_calibrate.py:84).
THEOREM UsableCalibrationMeetsReferenceAlways == Spec => []UsableCalibrationMeetsReference
<1>1. Bathed => UsableCalibrationMeetsReference
  BY DEF Bathed
<1> QED
  BY <1>1, BathedInit, BathedNext, PTL DEF Spec

-------------------------------------------------------------------------------
(***************************************************************************)
(* The probe and the recorder.                                             *)
(***************************************************************************)

\* As many values as places are one value for each place.
LEMMA OneForEach ==
    ASSUME NEW n \in Nat, NEW f, DOMAIN f = 1..n, Cardinality({f[i] : i \in 1..n}) = n
    PROVE  \A i, j \in 1..n : f[i] = f[j] => i = j
<1> DEFINE T == {f[i] : i \in 1..n}
           g == [i \in 1..n |-> f[i]]
<1>1. IsFiniteSet(1..n) /\ Cardinality(1..n) = n
  BY FS_Interval
<1>2. g \in Surjection(1..n, T)
  BY DEF Surjection
<1>3. Cardinality(T) = n
  OBVIOUS
<1> HIDE DEF g, T
<1>4. g \in Injection(1..n, T)
  BY <1>1, <1>2, <1>3, FS_Surjection, FS_SurjSameCardinalityImpliesInj
<1>5. \A i, j \in 1..n : g[i] = g[j] => i = j
  BY <1>4 DEF Injection, IsInjective
<1> QED
  BY <1>5 DEF g


\* The tables of a document hold what they should.
LEMMA DocumentTyped ==
    ASSUME NEW D, D \in Documents
    PROVE  /\ D.probes \in Seq(ProbeReads)
           /\ D.reads \in Seq(RegisterReads)
           /\ D.bits \in Seq(BitReads)
           /\ D.targets \in Seq(Relays)
           /\ D.onewire \in Seq(Buses) /\ D.serial \in Seq(Buses)
           /\ D.systems \in Seq(Assets) /\ D.equipment \in Seq(Assets) /\ D.sensors \in Seq(Measures)
           /\ D.enabled \in BOOLEAN
           /\ Parents(D.systems) \subseteq {D.residence}
           /\ \A probes \in Seq(ProbeReads) : [D EXCEPT !.probes = probes] \in Documents
<1>1. /\ D \in [residence: STRING, systems: Seq(Assets), equipment: Seq(Assets), sensors: Seq(Measures),
                serial: Seq(Buses), onewire: Seq(Buses), reads: Seq(RegisterReads),
                probes: Seq(ProbeReads), bits: Seq(BitReads), targets: Seq(Relays), enabled: BOOLEAN]
      /\ Parents(D.systems) \subseteq {D.residence}
  BY DEF Documents
<1>2. ASSUME NEW probes \in Seq(ProbeReads) PROVE [D EXCEPT !.probes = probes] \in Documents
  <2> DEFINE E == [D EXCEPT !.probes = probes]
  <2>1. /\ E \in [residence: STRING, systems: Seq(Assets), equipment: Seq(Assets), sensors: Seq(Measures),
                  serial: Seq(Buses), onewire: Seq(Buses), reads: Seq(RegisterReads),
                  probes: Seq(ProbeReads), bits: Seq(BitReads), targets: Seq(Relays), enabled: BOOLEAN]
        /\ E.systems = D.systems /\ E.residence = D.residence
    BY <1>1
  <2> HIDE DEF E
  <2>2. Parents(E.systems) \subseteq {E.residence}
    BY <1>1, <2>1
  <2>3. E \in Documents
    BY <2>1, <2>2 DEF Documents
  <2> QED
    BY <2>3 DEF E
<1> QED
  BY <1>1, <1>2

\* Of a device that is read once, the read.
LEMMA TheRead ==
    ASSUME NEW D \in Documents, NEW i \in DOMAIN D.probes,
           Cardinality({<<p.source, p.device>> : p \in ToSet(D.probes)}) = Len(D.probes)
    PROVE  /\ ReadsOf(D, D.probes[i].source, D.probes[i].device) = {i}
           /\ Max({i}) = i
<1> DEFINE probes == D.probes
           n == Len(probes)
           f == [k \in 1..n |-> <<probes[k].source, probes[k].device>>]
<1>1. probes \in Seq(ProbeReads) /\ n \in Nat /\ DOMAIN probes = 1..n
  BY DocumentTyped
<1>2. {<<p.source, p.device>> : p \in ToSet(probes)} = {f[k] : k \in 1..n}
  BY <1>1 DEF ToSet
<1>3. Cardinality({f[k] : k \in 1..n}) = n /\ DOMAIN f = 1..n
  BY <1>2
<1>4. \A j, k \in 1..n : f[j] = f[k] => j = k
  <2> HIDE DEF f, n
  <2> QED
    BY <1>1, <1>3, OneForEach
<1>5. \A j \in 1..n : probes[j].source = probes[i].source /\ probes[j].device = probes[i].device
                      => j = i
  <2> SUFFICES ASSUME NEW j \in 1..n, probes[j].source = probes[i].source,
                      probes[j].device = probes[i].device
               PROVE  j = i
    OBVIOUS
  <2>1. i \in 1..n
    BY <1>1
  <2>2. f[j] = f[i]
    BY <2>1
  <2> HIDE DEF f, n, probes
  <2> QED
    BY <1>4, <2>1, <2>2
<1>6. ReadsOf(D, probes[i].source, probes[i].device) = {i}
  BY <1>1, <1>5 DEF ReadsOf
<1>7. Max({i}) = i
  <2>1. i \in Int
    BY <1>1
  <2>2. {i} \subseteq Int /\ IsFiniteSet({i}) /\ {i} # {}
    BY <2>1, FS_Singleton
  <2>3. Max({i}) \in {i}
    BY <2>2, Extremes
  <2> QED
    BY <2>3
<1> QED
  BY <1>6, <1>7

\* The greatest of the places at which a device is read is one of them.
LEMMA LatestRead ==
    ASSUME NEW D \in Documents, NEW source, NEW device, ReadsOf(D, source, device) # {}
    PROVE  LET i == Max(ReadsOf(D, source, device)) IN
           i \in DOMAIN D.probes /\ D.probes[i].source = source /\ D.probes[i].device = device
<1> DEFINE R == ReadsOf(D, source, device)
<1>1. R \subseteq DOMAIN D.probes /\ D.probes \in Seq(ProbeReads)
  BY DocumentTyped DEF ReadsOf
<1>2. IsFiniteSet(DOMAIN D.probes) /\ DOMAIN D.probes \subseteq Int
  BY <1>1, FS_Interval
<1>3. IsFiniteSet(R) /\ R \subseteq Int
  BY <1>1, <1>2, FS_Subset
<1>4. Max(R) \in R
  <2> HIDE DEF R
  <2> QED
    BY <1>3, Extremes DEF R
<1> QED
  BY <1>4 DEF ReadsOf

\* What the probe shows is recorded, in the unit of the record.
RowFor(D, p) ==
    [sensor |-> p.sensor,
     value |-> IF p.value = Nothing THEN Nothing
               ELSE Normalized(SensorOf(D, p.sensor), p.value, p.unit)]

\* What the probe shows of the devices that are configured.
ShownOf(D) == {p \in ProbeAll(D) : p.sensor # Nothing}

\* What a cycle records.
AllRows(D) == Registers(D) \cup Probes(D) \cup Bits(D)

\* What the probe shows.
LEMMA ProbeShows ==
    ASSUME NEW D, NEW p
    PROVE  p \in ProbeAll(D) <=>
              \/ \E s \in Ids(D.onewire) : p \in ProbeBus(D, s)
              \/ \E r \in ToSet(D.reads) : p = ProbeRegister(r, Answer(r.source, r.id))
              \/ \E r \in ToSet(D.bits) : p = ProbeBit(r, Answer(r.source, r.id))
<1> DEFINE A == UNION {ProbeBus(D, s) : s \in Ids(D.onewire)}
           B == {ProbeRegister(r, Answer(r.source, r.id)) : r \in ToSet(D.reads)}
           C == {ProbeBit(r, Answer(r.source, r.id)) : r \in ToSet(D.bits)}
<1>1. ProbeAll(D) = A \cup B \cup C
  BY DEF ProbeAll
<1>2. p \in A <=> \E s \in Ids(D.onewire) : p \in ProbeBus(D, s)
  OBVIOUS
<1>3. p \in B <=> \E r \in ToSet(D.reads) : p = ProbeRegister(r, Answer(r.source, r.id))
  OBVIOUS
<1>4. p \in C <=> \E r \in ToSet(D.bits) : p = ProbeBit(r, Answer(r.source, r.id))
  OBVIOUS
<1> HIDE DEF A, B, C
<1> QED
  BY <1>1, <1>2, <1>3, <1>4

\* A register is shown as it is recorded.
LEMMA RegisterAlike ==
    ASSUME NEW D, NEW r \in ToSet(D.reads), r.sensor # Nothing
    PROVE  LET p == ProbeRegister(r, Answer(r.source, r.id)) IN
           /\ p \in ShownOf(D)
           /\ RowFor(D, p) = [sensor |-> r.sensor,
                  value |-> Ingested(SensorOf(D, r.sensor),
                                     RegisterRaw(r, Answer(r.source, r.id)), r.unit)]
<1> DEFINE raw == RegisterRaw(r, Answer(r.source, r.id))
           p == ProbeRegister(r, Answer(r.source, r.id))
<1>1. p.sensor = r.sensor /\ p.value = raw /\ p.unit = r.unit
  BY DEF ProbeRegister, Shown
<1>2. p \in ProbeAll(D)
  BY ProbeShows
<1> HIDE DEF raw, p
<1>3. RowFor(D, p) = [sensor |-> r.sensor, value |-> Ingested(SensorOf(D, r.sensor), raw, r.unit)]
  BY <1>1 DEF RowFor, Ingested
<1> QED
  BY <1>1, <1>2, <1>3 DEF ShownOf, raw, p

\* And so is a bit.
LEMMA BitAlike ==
    ASSUME NEW D, NEW r \in ToSet(D.bits), r.sensor # Nothing
    PROVE  LET p == ProbeBit(r, Answer(r.source, r.id)) IN
           /\ p \in ShownOf(D)
           /\ RowFor(D, p) = [sensor |-> r.sensor,
                  value |-> Ingested(SensorOf(D, r.sensor),
                                     BitRaw(r, Answer(r.source, r.id)), "state")]
<1> DEFINE raw == BitRaw(r, Answer(r.source, r.id))
           p == ProbeBit(r, Answer(r.source, r.id))
<1>1. p.sensor = r.sensor /\ p.value = raw /\ p.unit = "state"
  BY DEF ProbeBit, Shown, BitRaw
<1>2. p \in ProbeAll(D)
  BY ProbeShows
<1> HIDE DEF raw, p
<1>3. RowFor(D, p) = [sensor |-> r.sensor, value |-> Ingested(SensorOf(D, r.sensor), raw, "state")]
  BY <1>1 DEF RowFor, Ingested
<1> QED
  BY <1>1, <1>2, <1>3 DEF ShownOf, raw, p

\* And so is a device that is read once.
LEMMA ProbeAlike ==
    ASSUME NEW D \in Documents, Sources(D.probes) \subseteq Ids(D.onewire),
           Cardinality({<<p.source, p.device>> : p \in ToSet(D.probes)}) = Len(D.probes),
           NEW r \in ToSet(D.probes), r.sensor # Nothing
    PROVE  LET p == ProbeDevice(r, Answer(r.source, r.device)) IN
           /\ p \in ShownOf(D)
           /\ RowFor(D, p) = [sensor |-> r.sensor,
                  value |-> Ingested(SensorOf(D, r.sensor),
                                     ProbeRaw(r, Answer(r.source, r.device)), r.unit)]
<1> DEFINE raw == ProbeRaw(r, Answer(r.source, r.device))
           p == ProbeDevice(r, Answer(r.source, r.device))
<1>1. p.sensor = r.sensor /\ p.value = raw /\ p.unit = r.unit
  BY DEF ProbeDevice, Shown
<1>2. PICK i \in DOMAIN D.probes : D.probes[i] = r
  BY DEF ToSet
<1>3. ReadsOf(D, r.source, r.device) = {i} /\ Max({i}) = i
  BY <1>2, TheRead
<1>4. ProbeOn(D, r.source, r.device) = p
  BY <1>2, <1>3 DEF ProbeOn
<1>5. r.source \in Ids(D.onewire)
  BY <1>2 DEF Sources
<1>6. p \in ProbeBus(D, r.source)
  BY <1>4 DEF ProbeBus
<1>7. p \in ProbeAll(D)
  BY <1>5, <1>6, ProbeShows
<1> HIDE DEF raw, p
<1>8. RowFor(D, p) = [sensor |-> r.sensor, value |-> Ingested(SensorOf(D, r.sensor), raw, r.unit)]
  BY <1>1 DEF RowFor, Ingested
<1> QED
  BY <1>1, <1>7, <1>8 DEF ShownOf, raw, p

\* What is shown of a bus is a device nobody configured or one that is read.
LEMMA ShownOnBus ==
    ASSUME NEW D \in Documents, NEW source, NEW p \in ProbeBus(D, source), p.sensor # Nothing
    PROVE  \E r \in ToSet(D.probes) : p = ProbeDevice(r, Answer(r.source, r.device))
<1>1. PICK device : p = ProbeOn(D, source, device)
  BY DEF ProbeBus
<1> DEFINE R == ReadsOf(D, source, device)
<1>2. R # {}
  <2> SUFFICES ASSUME R = {} PROVE FALSE
    OBVIOUS
  <2>1. p.sensor = Nothing
    BY <1>1 DEF ProbeOn, Shown
  <2> QED
    BY <2>1
<1>3. PICK i \in DOMAIN D.probes : /\ i = Max(R)
                                  /\ D.probes[i].source = source /\ D.probes[i].device = device
  BY <1>2, LatestRead
<1>4. p = ProbeDevice(D.probes[i], Answer(source, device))
  BY <1>1, <1>2, <1>3 DEF ProbeOn
<1>5. D.probes[i] \in ToSet(D.probes)
  BY DEF ToSet
<1> QED
  BY <1>3, <1>4, <1>5

\* What the probe shows of the configured devices and what the recorder makes of
\* them are the same.
LEMMA ShownIsRecorded ==
    ASSUME NEW D \in Documents, Accepted(D),
           Cardinality({<<p.source, p.device>> : p \in ToSet(D.probes)}) = Len(D.probes)
    PROVE  {RowFor(D, p) : p \in ShownOf(D)} = AllRows(D)
<1>1. /\ \A r \in ToSet(D.probes) : r.sensor # Nothing
      /\ \A r \in ToSet(D.reads) : r.sensor # Nothing
      /\ \A r \in ToSet(D.bits) : r.sensor # Nothing
  <2>1. Nothing \notin STRING
    BY InstallationAssumption
  <2>2. /\ \A i \in DOMAIN D.probes : D.probes[i].sensor \in STRING
        /\ \A i \in DOMAIN D.reads : D.reads[i].sensor \in STRING
        /\ \A i \in DOMAIN D.bits : D.bits[i].sensor \in STRING
    <3>1. /\ D.probes \in Seq(ProbeReads)
          /\ D.reads \in Seq(RegisterReads)
          /\ D.bits \in Seq(BitReads)
      BY DocumentTyped
    <3>2. \A i \in DOMAIN D.probes : D.probes[i] \in ProbeReads
      BY <3>1
    <3>3. \A i \in DOMAIN D.reads : D.reads[i] \in RegisterReads
      BY <3>1
    <3>4. \A i \in DOMAIN D.bits : D.bits[i] \in BitReads
      BY <3>1
    <3>5. \A i \in DOMAIN D.probes : D.probes[i].sensor \in STRING
      BY <3>2 DEF ProbeReads
    <3>6. \A i \in DOMAIN D.reads : D.reads[i].sensor \in STRING
      BY <3>3 DEF RegisterReads
    <3>7. \A i \in DOMAIN D.bits : D.bits[i].sensor \in STRING
      BY <3>4 DEF BitReads
    <3> QED
      BY <3>5, <3>6, <3>7
  <2> QED
    BY <2>1, <2>2 DEF ToSet
<1>2. Sources(D.probes) \subseteq Ids(D.onewire)
  BY DEF Accepted, OneWireReferencesHold
<1>3. AllRows(D) \subseteq {RowFor(D, p) : p \in ShownOf(D)}
  <2> SUFFICES ASSUME NEW m \in AllRows(D) PROVE \E p \in ShownOf(D) : m = RowFor(D, p)
    OBVIOUS
  <2>1. CASE m \in Registers(D)
    <3>1. PICK r \in ToSet(D.reads) : m = [sensor |-> r.sensor,
                  value |-> Ingested(SensorOf(D, r.sensor),
                                     RegisterRaw(r, Answer(r.source, r.id)), r.unit)]
      BY <2>1 DEF Registers
    <3> QED
      BY <1>1, <3>1, RegisterAlike
  <2>2. CASE m \in Probes(D)
    <3>1. PICK r \in ToSet(D.probes) : m = [sensor |-> r.sensor,
                  value |-> Ingested(SensorOf(D, r.sensor),
                                     ProbeRaw(r, Answer(r.source, r.device)), r.unit)]
      BY <2>2 DEF Probes
    <3> QED
      BY <1>1, <1>2, <3>1, ProbeAlike
  <2>3. CASE m \in Bits(D)
    <3>1. PICK r \in ToSet(D.bits) : m = [sensor |-> r.sensor,
                  value |-> Ingested(SensorOf(D, r.sensor),
                                     BitRaw(r, Answer(r.source, r.id)), "state")]
      BY <2>3 DEF Bits
    <3> QED
      BY <1>1, <3>1, BitAlike
  <2> QED
    BY <2>1, <2>2, <2>3 DEF AllRows
<1>4. ASSUME NEW p \in ShownOf(D) PROVE RowFor(D, p) \in AllRows(D)
  <2>1. p \in ProbeAll(D) /\ p.sensor # Nothing
    BY <1>4 DEF ShownOf
  <2>2. CASE \E s \in Ids(D.onewire) : p \in ProbeBus(D, s)
    <3>1. PICK r \in ToSet(D.probes) : p = ProbeDevice(r, Answer(r.source, r.device))
      BY <2>1, <2>2, ShownOnBus
    <3>2. RowFor(D, p) = [sensor |-> r.sensor,
                  value |-> Ingested(SensorOf(D, r.sensor),
                                     ProbeRaw(r, Answer(r.source, r.device)), r.unit)]
      BY <1>1, <1>2, <3>1, ProbeAlike
    <3> QED
      BY <3>2 DEF AllRows, Probes
  <2>3. CASE \E r \in ToSet(D.reads) : p = ProbeRegister(r, Answer(r.source, r.id))
    <3>1. PICK r \in ToSet(D.reads) : p = ProbeRegister(r, Answer(r.source, r.id))
      BY <2>3
    <3>2. RowFor(D, p) = [sensor |-> r.sensor,
                  value |-> Ingested(SensorOf(D, r.sensor),
                                     RegisterRaw(r, Answer(r.source, r.id)), r.unit)]
      BY <1>1, <3>1, RegisterAlike
    <3> QED
      BY <3>2 DEF AllRows, Registers
  <2>4. CASE \E r \in ToSet(D.bits) : p = ProbeBit(r, Answer(r.source, r.id))
    <3>1. PICK r \in ToSet(D.bits) : p = ProbeBit(r, Answer(r.source, r.id))
      BY <2>4
    <3>2. RowFor(D, p) = [sensor |-> r.sensor,
                  value |-> Ingested(SensorOf(D, r.sensor),
                                     BitRaw(r, Answer(r.source, r.id)), "state")]
      BY <1>1, <3>1, BitAlike
    <3> QED
      BY <3>2 DEF AllRows, Bits
  <2> QED
    BY <2>1, <2>2, <2>3, <2>4, ProbeShows
<1> QED
  BY <1>3, <1>4

\* A wiring fault is never shown as a value.
LEMMA SuspectIsNoValue ==
    ASSUME NEW D, NEW p \in ProbeAll(D), p.suspect
    PROVE  p.value = Nothing
<1>1. ParseSlave(PowerOnReset) = Nothing
  BY DEF ParseSlave
<1>2. ASSUME NEW s, p \in ProbeBus(D, s) PROVE p.value = Nothing
  <2>1. PICK device : p = ProbeOn(D, s, device)
    BY <1>2 DEF ProbeBus
  <2> DEFINE a == Answer(s, device)
  <2>2. CASE ReadsOf(D, s, device) = {}
    <3>1. p = Shown(Nothing, ParseSlave(a), "degC", a = PowerOnReset)
      BY <2>1, <2>2 DEF ProbeOn
    <3> HIDE DEF a
    <3> QED
      BY <1>1, <3>1 DEF Shown
  <2>3. CASE ReadsOf(D, s, device) # {}
    <3> DEFINE r == D.probes[Max(ReadsOf(D, s, device))]
    <3>1. p = ProbeDevice(r, a)
      BY <2>1, <2>3 DEF ProbeOn
    <3> HIDE DEF r, a
    <3>2. p = Shown(r.sensor, ProbeRaw(r, a), r.unit, a = PowerOnReset)
      BY <3>1 DEF ProbeDevice
    <3> QED
      BY <1>1, <3>2 DEF Shown, ProbeRaw
  <2> QED
    BY <2>2, <2>3
<1>3. ASSUME NEW r, NEW a, p = ProbeRegister(r, a) \/ p = ProbeBit(r, a) PROVE FALSE
  BY <1>3 DEF ProbeRegister, ProbeBit, Shown
<1> QED
  BY <1>2, <1>3, ProbeShows

\* The installation stays what it is, and so does what it answers.
LEMMA AnswersStay ==
    ASSUME scene' = scene, NEW D
    PROVE  ProbeAll(D)' = ProbeAll(D) /\ AllRows(D)' = AllRows(D)
<1>1. \A source, key : Answer(source, key)' = Answer(source, key)
  BY DEF Answer
<1>2. \A source, device : ProbeOn(D, source, device)' = ProbeOn(D, source, device)
  BY <1>1 DEF ProbeOn
<1>3. \A source : Present1Wire(source)' = Present1Wire(source)
  BY DEF Present1Wire
<1>4. \A source : ProbeBus(D, source)' = ProbeBus(D, source)
  BY <1>2, <1>3 DEF ProbeBus
<1>5. ProbeAll(D)' = ProbeAll(D)
  BY <1>1, <1>4 DEF ProbeAll
<1>6. AllRows(D)' = AllRows(D)
  BY <1>1 DEF AllRows, Registers, Probes, Bits
<1> QED
  BY <1>5, <1>6

\* What the last probe and the last cycle left, and of which configuration.
ProbedOf(D) == probed.of = D /\ probed.results = ProbeAll(D)

\* The rows of one cycle, and whose they are.
StoredOf(D) ==
    /\ stored.of = D /\ Accepted(D)
    /\ stored.rows = {m \in AllRows(D) : m.value # Nothing}

\* The last probe and the last cycle read what the installation answers.
Recorded ==
    /\ scene \in Scenes
    /\ doc \in Documents
    /\ loaded # Nothing => loaded \in Documents /\ Accepted(loaded)
    /\ probed # Nothing => \E D : ProbedOf(D)
    /\ stored # Nothing => \E D \in Documents : StoredOf(D)

\* The surface starts with what it accepts.
LEMMA StartIs ==
    ASSUME NEW D \in Documents
    PROVE  Start(D) # Nothing => Start(D) \in Documents /\ Accepted(Start(D))
BY DEF Start

\* At the start nothing was probed and nothing was recorded.
LEMMA RecordedInit == Init => Recorded
BY SceneTyped, StartIs DEF Init, Recorded

\* A paste leaves the file a document.
LEMMA PasteIsDocument ==
    ASSUME doc \in Documents, Bathed, Bathed', Paste
    PROVE  doc' \in Documents
<1> DEFINE probes == [i \in DOMAIN doc.probes |->
                      IF doc.probes[i].device \in DOMAIN run
                      THEN [doc.probes[i] EXCEPT !.offset =
                              Offsets(run, scene.reference)[doc.probes[i].device]]
                      ELSE doc.probes[i]]
<1>1. doc' = [doc EXCEPT !.probes = probes]
  BY DEF Paste
<1>2. doc'.probes \in Seq(ProbeReads)
  BY DEF Bathed
<1> HIDE DEF probes
<1>3. doc'.probes = probes
  <2>1. doc \in [residence: STRING, systems: Seq(Assets), equipment: Seq(Assets), sensors: Seq(Measures),
                 serial: Seq(Buses), onewire: Seq(Buses), reads: Seq(RegisterReads),
                 probes: Seq(ProbeReads), bits: Seq(BitReads), targets: Seq(Relays), enabled: BOOLEAN]
    BY DEF Documents
  <2> QED
    BY <1>1, <2>1
<1> QED
  BY <1>1, <1>2, <1>3, DocumentTyped

\* Every step keeps what is known of the last probe and of the last cycle.
LEMMA RecordedNext == Bathed /\ Bathed' /\ Recorded /\ [Next]_vars => Recorded'
<1> SUFFICES ASSUME Bathed, Bathed', Recorded, [Next]_vars PROVE Recorded'
  OBVIOUS
<1>0. scene' = scene
  BY DEF Next, PageStep, BenchStep, Reload, Probe, Cycle, Round, Paste, vars, benchVars
<1>1. ASSUME NEW D PROVE ProbeAll(D)' = ProbeAll(D) /\ AllRows(D)' = AllRows(D)
  BY <1>0, AnswersStay
<1>2. ASSUME probed' = probed PROVE (probed # Nothing => \E D : ProbedOf(D))'
  BY <1>1, <1>2 DEF Recorded, ProbedOf
<1>3. ASSUME stored' = stored PROVE (stored # Nothing => \E D \in Documents : StoredOf(D))'
  BY <1>1, <1>3 DEF Recorded, StoredOf
<1>4. CASE Probe
  <2>1. UNCHANGED <<scene, doc, loaded, stored>>
        /\ probed' = [of |-> loaded, results |-> ProbeAll(loaded)]
    BY <1>4 DEF Probe
  <2>2. ASSUME NEW D, D = loaded PROVE ProbedOf(D)'
    BY <1>1, <2>1, <2>2 DEF ProbedOf
  <2>3. (probed # Nothing => \E D : ProbedOf(D))'
    BY <2>2
  <2> QED
    BY <1>3, <2>1, <2>3 DEF Recorded
<1>5. CASE Cycle
  <2>1. /\ UNCHANGED <<scene, doc, loaded, probed>> /\ Accepted(doc)
        /\ stored' = [of |-> doc, rows |-> {m \in AllRows(doc) : m.value # Nothing}]
    BY <1>5 DEF Cycle, AllRows
  <2>2. ASSUME NEW D, D = doc PROVE StoredOf(D)'
    BY <1>1, <2>1, <2>2 DEF StoredOf
  <2>3. (stored # Nothing => \E D \in Documents : StoredOf(D))'
    BY <2>2 DEF Recorded
  <2> QED
    BY <1>2, <2>1, <2>3 DEF Recorded
<1>6. CASE Paste
  <2>1. UNCHANGED <<scene, loaded, probed, stored>>
    BY <1>6 DEF Paste
  <2>2. doc' \in Documents
    BY <1>6, PasteIsDocument DEF Recorded
  <2> QED
    BY <1>2, <1>3, <2>1, <2>2 DEF Recorded
<1>7. CASE Reload
  <2>1. UNCHANGED <<scene, doc, probed, stored>> /\ loaded' = Start(doc)
    BY <1>7 DEF Reload
  <2> QED
    BY <1>2, <1>3, <2>1, StartIs DEF Recorded
<1>8. CASE UNCHANGED <<scene, doc, loaded, probed, stored>>
  BY <1>2, <1>3, <1>8 DEF Recorded
<1>9. Probe \/ Cycle \/ Paste \/ Reload \/ UNCHANGED <<scene, doc, loaded, probed, stored>>
  BY DEF Next, PageStep, BenchStep, Round, vars, benchVars
<1> QED
  BY <1>4, <1>5, <1>6, <1>7, <1>8, <1>9

\* The probe and the recorder, with one configuration, make the same of what a
\* device answers (probe.py:222).
THEOREM OneReadingOneValueAlways == Spec => []OneReadingOneValue
<1>1. Recorded => OneReadingOneValue
  <2> SUFFICES ASSUME Recorded, probed # Nothing, stored # Nothing, probed.of = stored.of,
                      OneReadEach(stored.of)
               PROVE  /\ stored.rows = {m \in {RowFor(stored.of, p) :
                                                  p \in {q \in probed.results : q.sensor # Nothing}} :
                                          m.value # Nothing}
                      /\ \A p \in probed.results : p.suspect => p.value = Nothing
    BY DEF OneReadingOneValue, RowFor
  <2>1. PICK D \in Documents : StoredOf(D)
    BY DEF Recorded
  <2>2. probed.results = ProbeAll(D) /\ stored.of = D /\ Accepted(D)
    BY <2>1 DEF Recorded, ProbedOf, StoredOf
  <2>3. Cardinality({<<p.source, p.device>> : p \in ToSet(D.probes)}) = Len(D.probes)
    BY <2>2 DEF OneReadEach
  <2>4. {RowFor(D, p) : p \in ShownOf(D)} = AllRows(D)
    BY <2>2, <2>3, ShownIsRecorded
  <2>5. stored.rows = {m \in {RowFor(D, p) : p \in ShownOf(D)} : m.value # Nothing}
    BY <2>1, <2>4 DEF StoredOf
  <2>6. {q \in probed.results : q.sensor # Nothing} = ShownOf(D)
    BY <2>2 DEF ShownOf
  <2> QED
    BY <2>2, <2>5, <2>6, SuspectIsNoValue
<1>2. Init => Bathed /\ Recorded
  BY BathedInit, RecordedInit
<1>3. Bathed /\ Recorded /\ [Next]_vars => Bathed' /\ Recorded'
  BY BathedNext, RecordedNext
<1> QED
  BY <1>1, <1>2, <1>3, PTL DEF Spec

-------------------------------------------------------------------------------
(***************************************************************************)
(* What is built from a configuration.                                     *)
(***************************************************************************)

\* The word for an exception, and what a registry may hold of some entries.
Holdings(entries) == SUBSET (Ids(entries) \cup {"raised"})

\* The registry, one entry after the other.
LEMMA GrowthIs ==
    ASSUME NEW X, NEW entries \in Seq(X), NEW parents
    PROVE  /\ Growth(entries, parents)[0] = {}
           /\ \A n \in 1..Len(entries) :
                 Growth(entries, parents)[n] = Added(Growth(entries, parents)[n - 1], entries[n], parents)
<1> DEFINE N == Len(entries)
           W == Holdings(entries)
           F == [n \in 1..N |-> [w \in W |-> Added(w, entries[n], parents)]]
           Follows(g) == g = [n \in 0..N |->
                                IF n = 0 THEN {} ELSE Added(g[n - 1], entries[n], parents)]
<1>1. N \in Nat /\ {} \in W /\ \A n \in 1..N : entries[n].id \in Ids(entries)
  BY DEF Ids, Holdings
<1>2. F \in [1..N -> [W -> W]]
  <2>1. ASSUME NEW n \in 1..N, NEW w \in W PROVE Added(w, entries[n], parents) \in W
    BY <1>1 DEF Added, Holdings
  <2> HIDE DEF W, N
  <2> QED
    BY <2>1
<1> HIDE DEF W
<1>3. PICK g : Iterates(g, F, N, W, {})
  <2>1. Stepping(F, N, W)
    BY <1>2 DEF Stepping
  <2> HIDE DEF F, N
  <2> QED
    BY <1>1, <2>1, Recursion
<1>4. g \in [0..N -> W] /\ g[0] = {} /\ \A n \in 1..N : g[n] = Added(g[n - 1], entries[n], parents)
  <2>1. g \in [0..N -> W] /\ g[0] = {} /\ \A n \in 1..N : g[n] = F[n][g[n - 1]]
    BY <1>3 DEF Iterates
  <2> HIDE DEF N
  <2>2. \A n \in 1..N : g[n - 1] \in W
    BY <1>1, <2>1
  <2> QED
    BY <1>1, <2>1, <2>2
<1>5. Follows(g)
  <2>1. g = [n \in 0..N |-> g[n]]
    BY <1>4
  <2>2. \A n \in 0..N : g[n] = IF n = 0 THEN {} ELSE Added(g[n - 1], entries[n], parents)
    BY <1>1, <1>4
  <2> HIDE DEF N
  <2> QED
    BY <2>1, <2>2
<1> DEFINE h == Growth(entries, parents)
<1>6. h = CHOOSE f : Follows(f)
  BY DEF Growth
<1>7. Follows(h)
  <2> HIDE DEF Follows, h
  <2> QED
    BY <1>5, <1>6
<1>8. h[0] = {} /\ \A n \in 1..N : h[n] = Added(h[n - 1], entries[n], parents)
  <2> DEFINE body(n) == IF n = 0 THEN {} ELSE Added(h[n - 1], entries[n], parents)
  <2>1. h = [n \in 0..N |-> body(n)]
    BY <1>7
  <2>2. body(0) = {}
    OBVIOUS
  <2>3. \A n \in 1..N : body(n) = Added(h[n - 1], entries[n], parents)
    BY <1>1
  <2> HIDE DEF h, body, N
  <2> QED
    BY <1>1, <2>1, <2>2, <2>3
<1> QED
  BY <1>8

\* As many ids as entries: no two entries have one.
LEMMA NoTwo ==
    ASSUME NEW X, NEW entries \in Seq(X), Unique(entries)
    PROVE  \A i, j \in 1..Len(entries) : entries[i].id = entries[j].id => i = j
<1> DEFINE n == Len(entries)
           f == [i \in 1..n |-> entries[i].id]
<1>1. n \in Nat /\ Ids(entries) = {f[i] : i \in 1..n} /\ DOMAIN f = 1..n
  BY DEF Ids
<1>2. Cardinality({f[i] : i \in 1..n}) = n
  BY <1>1 DEF Unique
<1>3. \A i, j \in 1..n : f[i] = f[j] => i = j
  <2> HIDE DEF n, f
  <2> QED
    BY <1>1, <1>2, OneForEach
<1> QED
  BY <1>3

\* Entries of which no two have one id, and each a parent that is there, are all
\* taken into the registry.
LEMMA GrownIs ==
    ASSUME NEW X, NEW entries \in Seq(X), Unique(entries), "raised" \notin Ids(entries),
           NEW parents, Parents(entries) \subseteq parents
    PROVE  Grown(entries, parents) = Ids(entries)
<1> DEFINE N == Len(entries)
           g == Growth(entries, parents)
           First(n) == {entries[i].id : i \in 1..n}
           G == {n \in 0..N : g[n] = First(n)}
<1>1. N \in Nat /\ DOMAIN entries = 1..N
  OBVIOUS
<1>2. \A i \in 1..N : entries[i].id # "raised" /\ entries[i].parent \in parents
  BY <1>1 DEF Ids, Parents
<1>3. \A i, j \in 1..N : entries[i].id = entries[j].id => i = j
  BY NoTwo
<1>4. g[0] = {} /\ \A n \in 1..N : g[n] = Added(g[n - 1], entries[n], parents)
  BY GrowthIs
<1>5. Grown(entries, parents) = g[N] /\ Ids(entries) = First(N)
  BY <1>1 DEF Grown, Ids
<1> HIDE DEF g, N
<1>6. 0 \in G
  BY <1>1, <1>4
<1>7. ASSUME NEW n \in 0..(N - 1), n \in G PROVE n + 1 \in G
  <2>1. n + 1 \in 1..N /\ (n + 1) - 1 = n /\ n + 1 \in 0..N /\ n \in Nat
    BY <1>1
  <2>2. g[n + 1] = Added(First(n), entries[n + 1], parents)
    BY <1>4, <1>7, <2>1
  <2>3. \A i \in 1..n : i \in 1..N /\ i # n + 1
    BY <1>1, <2>1
  <2>4. "raised" \notin First(n) /\ entries[n + 1].id \notin First(n) /\ entries[n + 1].parent \in parents
    BY <1>2, <1>3, <2>1, <2>3
  <2>5. First(n + 1) = First(n) \cup {entries[n + 1].id}
    <3>1. 1..(n + 1) = 1..n \cup {n + 1}
      BY <2>1
    <3> QED
      BY <3>1
  <2> HIDE DEF First
  <2>6. g[n + 1] = First(n) \cup {entries[n + 1].id}
    BY <2>2, <2>4 DEF Added
  <2> QED
    BY <2>1, <2>5, <2>6
<1> HIDE DEF G
<1>8. Inductive(G, 0, N)
  BY <1>6, <1>7 DEF Inductive
<1>9. N \in G
  <2>1. 0..N \subseteq G /\ N \in 0..N
    BY <1>1, <1>8, Climb
  <2> QED
    BY <2>1
<1> QED
  BY <1>5, <1>9 DEF G

\* No id of an asset is the word for an exception.
NoneRaised(D) == "raised" \notin Ids(D.systems) \cup Ids(D.equipment) \cup Ids(D.sensors)

\* The registry takes every sensor.
LEMMA RegistryIs ==
    ASSUME NEW D \in Documents, Accepted(D), NoneRaised(D)
    PROVE  Registry(D) = Ids(D.sensors)
<1>1. /\ D.systems \in Seq(Assets) /\ D.equipment \in Seq(Assets) /\ D.sensors \in Seq(Measures)
      /\ Parents(D.systems) \subseteq {D.residence}
  BY DocumentTyped
<1>2. /\ Unique(D.systems) /\ Unique(D.equipment) /\ Unique(D.sensors)
      /\ Parents(D.equipment) \subseteq Ids(D.systems) /\ Parents(D.sensors) \subseteq Ids(D.equipment)
  BY DEF Accepted, ReferencesHold
<1>3. Grown(D.systems, {D.residence}) = Ids(D.systems)
  BY <1>1, <1>2, GrownIs DEF NoneRaised
<1>4. Grown(D.equipment, Ids(D.systems)) = Ids(D.equipment)
  BY <1>1, <1>2, GrownIs DEF NoneRaised
<1>5. Grown(D.sensors, Ids(D.equipment)) = Ids(D.sensors)
  BY <1>1, <1>2, GrownIs DEF NoneRaised
<1> QED
  BY <1>3, <1>4, <1>5 DEF Registry

\* The kinds of requests a cycle is made of.
Kinds == {"registers", "probes", "bits"}

\* What a request may be called.
Called(name, source) == IF name = "bits" THEN BitsId(source) ELSE source

Inquiries == [id: STRING \cup {BitsId(source) : source \in STRING}, name: Kinds, asks: SUBSET STRING]

\* Each request is called after its bus, and asks for something if the bus is read.
NamedAfter(s, name, buses, entries) ==
    \A i \in 1..Len(buses) :
        /\ s[i].id = Called(name, buses[i].id)
        /\ s[i].asks # {} <=> buses[i].id \in Sources(entries)

\* Whether a request asks for a read.
AsksFor(request, name, id) == request.name = name /\ id \in request.asks

\* One request of some asks for a read.
OnlyAt(s, t, name, id) == \A i \in 1..Len(s) : AsksFor(s[i], name, id) <=> i = t

\* And so for each read of a table.
OneAsks(s, name, entries) ==
    \A j \in 1..Len(entries) : \E t \in 1..Len(s) : OnlyAt(s, t, name, entries[j].id)

\* A request for each bus, of which one asks for a read of one of them.
LEMMA OnEachIs ==
    ASSUME NEW buses \in Seq(Buses), Unique(buses), NEW name \in Kinds, NEW X,
           NEW entries \in Seq(X), \A e \in X : e.id \in STRING
    PROVE  /\ OnEach(buses, name, entries) \in Seq(Inquiries)
           /\ Len(OnEach(buses, name, entries)) = Len(buses)
           /\ \A i \in 1..Len(buses) : OnEach(buses, name, entries)[i].name = name
           /\ NamedAfter(OnEach(buses, name, entries), name, buses, entries)
           /\ (Unique(entries) /\ Sources(entries) \subseteq Ids(buses)
               => OneAsks(OnEach(buses, name, entries), name, entries))
<1> DEFINE n == Len(buses)
           s == OnEach(buses, name, entries)
           asks(i) == {e.id : e \in {d \in ToSet(entries) : d.source = buses[i].id}}
<1>1. n \in Nat /\ DOMAIN buses = 1..n /\ DOMAIN entries = 1..Len(entries)
  OBVIOUS
<1>2. s = [i \in 1..n |-> [id |-> Called(name, buses[i].id), name |-> name, asks |-> asks(i)]]
  BY <1>1 DEF OnEach, Request, Called
<1>3. \A e \in ToSet(entries) : e.id \in STRING
  BY DEF ToSet
<1>4. ASSUME NEW i \in 1..n
      PROVE  [id |-> Called(name, buses[i].id), name |-> name, asks |-> asks(i)] \in Inquiries
  <2>1. buses[i].id \in STRING
    <3>1. buses[i] \in Buses
      BY <1>1
    <3> QED
      BY <3>1 DEF Buses
  <2>2. asks(i) \in SUBSET STRING
    BY <1>3
  <2>3. Called(name, buses[i].id) \in STRING \cup {BitsId(source) : source \in STRING}
    BY <2>1 DEF Called
  <2> QED
    BY <2>2, <2>3 DEF Inquiries
<1>5. \A i \in 1..n : \A id : id \in asks(i) <=>
         \E k \in 1..Len(entries) : entries[k].source = buses[i].id /\ entries[k].id = id
  BY <1>1 DEF ToSet
<1> HIDE DEF asks
<1>6. s \in Seq(Inquiries) /\ Len(s) = n
  <2> HIDE DEF s, n
  <2> QED
    BY <1>1, <1>2, <1>4
<1>7. \A i \in 1..n : s[i].name = name /\ s[i].asks = asks(i) /\ s[i].id = Called(name, buses[i].id)
  BY <1>2
<1> HIDE DEF s
<1>10. NamedAfter(s, name, buses, entries)
  <2>1. ASSUME NEW i \in 1..n PROVE asks(i) # {} <=> buses[i].id \in Sources(entries)
    <3>1. \A k \in 1..Len(entries) : entries[k].source = buses[i].id => entries[k].id \in asks(i)
      BY <1>5
    <3>2. asks(i) # {} => \E k \in 1..Len(entries) : entries[k].source = buses[i].id
      BY <1>5
    <3> QED
      BY <1>1, <3>1, <3>2 DEF Sources
  <2> QED
    BY <1>7, <2>1 DEF NamedAfter
<1>8. ASSUME Unique(entries), Sources(entries) \subseteq Ids(buses), NEW j \in 1..Len(entries)
      PROVE  \E b \in 1..n : \A i \in 1..n : AsksFor(s[i], name, entries[j].id) <=> i = b
  <2>1. PICK b \in 1..n : buses[b].id = entries[j].source
    BY <1>1, <1>8 DEF Sources, Ids
  <2>2. \A i \in 1..n : buses[i].id = buses[b].id => i = b
    BY NoTwo
  <2>3. \A k \in 1..Len(entries) : entries[k].id = entries[j].id => k = j
    BY <1>8, NoTwo
  <2>4. ASSUME NEW i \in 1..n PROVE entries[j].id \in asks(i) <=> i = b
    BY <1>5, <2>1, <2>2, <2>3
  <2> QED
    BY <1>7, <2>4 DEF AsksFor
<1>9. Unique(entries) /\ Sources(entries) \subseteq Ids(buses) => OneAsks(s, name, entries)
  BY <1>6, <1>8 DEF OneAsks, OnlyAt
<1> QED
  BY <1>6, <1>7, <1>9, <1>10 DEF s, n

\* The requests that ask for something, and how many ask for a read.
Asking(s) == Chosen(s, {i \in DOMAIN s : s[i].asks # {}})

\* How often a cycle asks for a read.
AskedBy(plan, name, id) == Cardinality({i \in DOMAIN plan : plan[i].name = name /\ id \in plan[i].asks})

\* What one request asks for is asked for once by the plan.
LEMMA PlannedOnce ==
    ASSUME NEW s \in Seq(Inquiries), NEW t \in 1..Len(s), NEW name, NEW id,
           OnlyAt(s, t, name, id)
    PROVE  AskedBy(Asking(s), name, id) = 1
<1> DEFINE places == {i \in DOMAIN s : s[i].asks # {}}
           plan == Chosen(s, places)
           T == {i \in DOMAIN plan : plan[i].name = name /\ id \in plan[i].asks}
<1>0. \A i \in 1..Len(s) : AsksFor(s[i], name, id) <=> i = t
  BY DEF OnlyAt
<1>1. places \in SUBSET (1..Len(s)) /\ t \in places
  BY <1>0 DEF AsksFor
<1> HIDE DEF places
<1>2. /\ plan \in Seq(Inquiries)
      /\ \E order : Picks(order, plan, s, places)
  BY <1>1, ChosenIs
<1>3. PICK order : Picks(order, plan, s, places)
  BY <1>2
<1> HIDE DEF plan
<1>4. /\ order \in [1..Len(plan) -> places]
      /\ \A k \in 1..Len(plan) : order[k] \in places /\ plan[k] = s[order[k]]
      /\ \A i \in places : \E k \in 1..Len(plan) : order[k] = i
      /\ \A j, k \in 1..Len(plan) : j < k <=> order[j] < order[k]
  BY <1>3 DEF Picks
<1>5. PICK k \in 1..Len(plan) : order[k] = t
  BY <1>1, <1>4
<1>6. ASSUME NEW j \in 1..Len(plan) PROVE AsksFor(plan[j], name, id) <=> j = k
  <2>1. AsksFor(plan[j], name, id) <=> order[j] = t
    BY <1>0, <1>1, <1>4
  <2>2. order[j] = order[k] => j = k
    <3>1. ~(j < k) /\ ~(k < j) => j = k
      OBVIOUS
    <3>2. order[j] \in Int /\ order[k] \in Int
      <4>1. order[j] \in places /\ order[k] \in places
        BY <1>4
      <4>2. places \subseteq Int
        BY <1>1
      <4> QED
        BY <4>1, <4>2
    <3> QED
      BY <1>4, <3>1, <3>2
  <2> QED
    BY <1>5, <2>1, <2>2
<1>7. DOMAIN plan = 1..Len(plan)
  BY <1>2
<1>8. T = {k}
  BY <1>5, <1>6, <1>7 DEF AsksFor
<1> HIDE DEF T
<1>9. Cardinality(T) = 1
  BY <1>8, FS_Singleton
<1> QED
  BY <1>9 DEF T, plan, places, Asking, AskedBy

\* Three runs of requests, joined.
OneAfterTheOther(s, A, B, C) ==
    /\ s \in Seq(Inquiries)
    /\ Len(s) = Len(A) + Len(B) + Len(C)
    /\ \A i \in 1..Len(A) : s[i] = A[i]
    /\ \A i \in 1..Len(B) : s[Len(A) + i] = B[i]
    /\ \A i \in 1..Len(C) : s[(Len(A) + Len(B)) + i] = C[i]

\* A request of one name among those of three names, one after the other.
LEMMA OneOfThree ==
    ASSUME NEW A \in Seq(Inquiries), NEW B \in Seq(Inquiries), NEW C \in Seq(Inquiries)
    PROVE  OneAfterTheOther(A \o B \o C, A, B, C)
<1> DEFINE AB == A \o B
<1>1. /\ AB \in Seq(Inquiries) /\ Len(AB) = Len(A) + Len(B)
      /\ \A i \in 1..Len(A) : AB[i] = A[i]
      /\ \A i \in 1..Len(B) : AB[Len(A) + i] = B[i]
  BY Joined
<1>2. A \o B \o C = AB \o C
  OBVIOUS
<1> HIDE DEF AB
<1>3. /\ AB \o C \in Seq(Inquiries) /\ Len(AB \o C) = Len(AB) + Len(C)
      /\ \A i \in 1..Len(AB) : (AB \o C)[i] = AB[i]
      /\ \A i \in 1..Len(C) : (AB \o C)[Len(AB) + i] = C[i]
  <2>1. AB \in Seq(Inquiries)
    BY <1>1
  <2>2. ASSUME NEW x \in Seq(Inquiries)
        PROVE  /\ x \o C \in Seq(Inquiries) /\ Len(x \o C) = Len(x) + Len(C)
               /\ \A i \in 1..Len(x) : (x \o C)[i] = x[i]
               /\ \A i \in 1..Len(C) : (x \o C)[Len(x) + i] = C[i]
    BY Joined
  <2> QED
    BY <2>1, <2>2
<1> DEFINE a == Len(A)
           b == Len(B)
           c == Len(C)
           ab == Len(AB)
           s == AB \o C
<1>4. a \in Nat /\ b \in Nat /\ c \in Nat
  OBVIOUS
<1>5. ab = a + b
  BY <1>1
<1>6. \A i \in 1..a : AB[i] = A[i]
  BY <1>1
<1>7. \A i \in 1..b : AB[a + i] = B[i]
  BY <1>1
<1>8. s \in Seq(Inquiries) /\ Len(s) = ab + c /\ \A i \in 1..ab : s[i] = AB[i]
  BY <1>3
<1>9. \A i \in 1..c : s[ab + i] = C[i]
  BY <1>3
<1> HIDE DEF a, b, c, ab, s
<1>10. \A i \in 1..a : s[i] = A[i]
  BY <1>4, <1>5, <1>6, <1>8
<1>11. \A i \in 1..b : s[a + i] = B[i]
  BY <1>4, <1>5, <1>7, <1>8
<1>12. Len(s) = a + b + c
  BY <1>4, <1>5, <1>8
<1>13. \A i \in 1..c : s[(a + b) + i] = C[i]
  BY <1>5, <1>9
<1> QED
  BY <1>2, <1>8, <1>10, <1>11, <1>12, <1>13 DEF a, b, c, s, OneAfterTheOther

\* Of a run of requests that begins after some others, the one at a place, if it
\* is in it, and no other asks for a read.
AllAskAt(s, from, t, name, id) == \A i \in 1..Len(s) : AsksFor(s[i], name, id) <=> from + i = t

\* A read in one of three runs of requests, that the others do not ask for, is
\* asked for once.
LEMMA OneInThree ==
    ASSUME NEW D, NEW A \in Seq(Inquiries), NEW B \in Seq(Inquiries), NEW C \in Seq(Inquiries),
           Requests(D) = A \o B \o C, NEW name, NEW id,
           NEW a \in Nat, NEW b \in Nat, NEW c \in Nat, a = Len(A), b = Len(B), c = Len(C),
           NEW t \in 1..((a + b) + c),
           AllAskAt(A, 0, t, name, id), AllAskAt(B, a, t, name, id),
           AllAskAt(C, a + b, t, name, id)
    PROVE  Asks(D, name, id) = 1
<1>0. /\ \A i \in 1..a : AsksFor(A[i], name, id) <=> i = t
      /\ \A i \in 1..b : AsksFor(B[i], name, id) <=> a + i = t
      /\ \A i \in 1..c : AsksFor(C[i], name, id) <=> (a + b) + i = t
  BY DEF AllAskAt
<1> DEFINE s == Requests(D)
<1>s. s = A \o B \o C
  OBVIOUS
<1> HIDE DEF s
<1>1. OneAfterTheOther(s, A, B, C)
  BY <1>s, OneOfThree
<1>2. /\ s \in Seq(Inquiries)
      /\ Len(s) = (a + b) + c
      /\ \A i \in 1..a : s[i] = A[i]
      /\ \A i \in 1..b : s[a + i] = B[i]
      /\ \A i \in 1..c : s[(a + b) + i] = C[i]
  BY <1>1 DEF OneAfterTheOther
<1>3. ASSUME NEW i \in 1..Len(s) PROVE AsksFor(s[i], name, id) <=> i = t
  <2>1. CASE i \in 1..a
    BY <1>0, <1>2, <2>1
  <2>2. ASSUME NEW k \in 1..b, i = a + k PROVE AsksFor(s[i], name, id) <=> i = t
    BY <1>0, <1>2, <2>2
  <2>3. ASSUME NEW k \in 1..c, i = (a + b) + k PROVE AsksFor(s[i], name, id) <=> i = t
    BY <1>0, <1>2, <2>3
  <2>4. \/ i \in 1..a
        \/ \E k \in 1..b : i = a + k
        \/ \E k \in 1..c : i = (a + b) + k
    <3> DEFINE n == Len(s)
    <3>1. i \in 1..n /\ n = (a + b) + c
      BY <1>2
    <3> HIDE DEF n
    <3>2. i \in 1..a \/ i - a \in 1..b \/ i - (a + b) \in 1..c
      BY <3>1
    <3>3. i = a + (i - a) /\ i = (a + b) + (i - (a + b))
      BY <3>1
    <3> QED
      BY <3>2, <3>3
  <2> QED
    BY <2>1, <2>2, <2>3, <2>4
<1>4. t \in 1..Len(s) /\ OnlyAt(s, t, name, id)
  BY <1>2, <1>3 DEF OnlyAt
<1>5. AskedBy(Asking(s), name, id) = 1
  BY <1>2, <1>4, PlannedOnce
<1>6. Plan(D) = Asking(s)
  BY DEF Plan, s, Asking
<1> QED
  BY <1>5, <1>6 DEF Asks, AskedBy

\* A cycle asks for every read of an accepted configuration once.
LEMMA AskedOnce ==
    ASSUME NEW D \in Documents, Accepted(D)
    PROVE  /\ \A j \in 1..Len(D.reads) : Asks(D, "registers", D.reads[j].id) = 1
           /\ \A j \in 1..Len(D.probes) : Asks(D, "probes", D.probes[j].id) = 1
           /\ \A j \in 1..Len(D.bits) : Asks(D, "bits", D.bits[j].id) = 1
<1> DEFINE A == OnEach(D.serial, "registers", D.reads)
           B == OnEach(D.onewire, "probes", D.probes)
           C == OnEach(D.serial, "bits", D.bits)
           a == Len(A)
           b == Len(B)
           c == Len(C)
<1>1. /\ D.probes \in Seq(ProbeReads) /\ D.reads \in Seq(RegisterReads) /\ D.bits \in Seq(BitReads)
      /\ D.onewire \in Seq(Buses) /\ D.serial \in Seq(Buses)
  BY DocumentTyped
<1>2. /\ Unique(D.serial) /\ Unique(D.onewire)
      /\ Unique(D.reads) /\ Unique(D.probes) /\ Unique(D.bits)
      /\ Sources(D.reads) \subseteq Ids(D.serial)
      /\ Sources(D.probes) \subseteq Ids(D.onewire)
      /\ Sources(D.bits) \subseteq Ids(D.serial)
  BY DEF Accepted, ReferencesHold, OneWireReferencesHold, BitReferencesHold
<1>3. /\ \A e \in RegisterReads : e.id \in STRING
      /\ \A e \in ProbeReads : e.id \in STRING
      /\ \A e \in BitReads : e.id \in STRING
  BY DEF RegisterReads, ProbeReads, BitReads
<1>4. /\ A \in Seq(Inquiries) /\ a = Len(D.serial)
      /\ \A i \in 1..a : A[i].name = "registers"
      /\ OneAsks(A, "registers", D.reads)
  <2>1. ASSUME NEW buses \in Seq(Buses), Unique(buses), NEW entries \in Seq(RegisterReads), Unique(entries),
               Sources(entries) \subseteq Ids(buses), NEW name \in Kinds
        PROVE  /\ OnEach(buses, name, entries) \in Seq(Inquiries)
               /\ Len(OnEach(buses, name, entries)) = Len(buses)
               /\ \A i \in 1..Len(buses) : OnEach(buses, name, entries)[i].name = name
               /\ OneAsks(OnEach(buses, name, entries), name, entries)
    BY <1>3, <2>1, OnEachIs
  <2>2. "registers" \in Kinds
    BY DEF Kinds
  <2>3. /\ OnEach(D.serial, "registers", D.reads) \in Seq(Inquiries)
        /\ Len(OnEach(D.serial, "registers", D.reads)) = Len(D.serial)
        /\ \A i \in 1..Len(D.serial) : OnEach(D.serial, "registers", D.reads)[i].name = "registers"
        /\ OneAsks(OnEach(D.serial, "registers", D.reads), "registers", D.reads)
    <3> HIDE DEF A, B, C, a, b, c
    <3> QED
      BY <1>1, <1>2, <2>1, <2>2
  <2> QED
    BY <2>3
<1>5. /\ B \in Seq(Inquiries) /\ b = Len(D.onewire)
      /\ \A i \in 1..b : B[i].name = "probes"
      /\ OneAsks(B, "probes", D.probes)
  <2>1. ASSUME NEW buses \in Seq(Buses), Unique(buses), NEW entries \in Seq(ProbeReads), Unique(entries),
               Sources(entries) \subseteq Ids(buses), NEW name \in Kinds
        PROVE  /\ OnEach(buses, name, entries) \in Seq(Inquiries)
               /\ Len(OnEach(buses, name, entries)) = Len(buses)
               /\ \A i \in 1..Len(buses) : OnEach(buses, name, entries)[i].name = name
               /\ OneAsks(OnEach(buses, name, entries), name, entries)
    BY <1>3, <2>1, OnEachIs
  <2>2. "probes" \in Kinds
    BY DEF Kinds
  <2>3. /\ OnEach(D.onewire, "probes", D.probes) \in Seq(Inquiries)
        /\ Len(OnEach(D.onewire, "probes", D.probes)) = Len(D.onewire)
        /\ \A i \in 1..Len(D.onewire) : OnEach(D.onewire, "probes", D.probes)[i].name = "probes"
        /\ OneAsks(OnEach(D.onewire, "probes", D.probes), "probes", D.probes)
    <3> HIDE DEF A, B, C, a, b, c
    <3> QED
      BY <1>1, <1>2, <2>1, <2>2
  <2> QED
    BY <2>3
<1>6. /\ C \in Seq(Inquiries) /\ c = Len(D.serial)
      /\ \A i \in 1..c : C[i].name = "bits"
      /\ OneAsks(C, "bits", D.bits)
  <2>1. ASSUME NEW buses \in Seq(Buses), Unique(buses), NEW entries \in Seq(BitReads), Unique(entries),
               Sources(entries) \subseteq Ids(buses), NEW name \in Kinds
        PROVE  /\ OnEach(buses, name, entries) \in Seq(Inquiries)
               /\ Len(OnEach(buses, name, entries)) = Len(buses)
               /\ \A i \in 1..Len(buses) : OnEach(buses, name, entries)[i].name = name
               /\ OneAsks(OnEach(buses, name, entries), name, entries)
    BY <1>3, <2>1, OnEachIs
  <2>2. "bits" \in Kinds
    BY DEF Kinds
  <2>3. /\ OnEach(D.serial, "bits", D.bits) \in Seq(Inquiries)
        /\ Len(OnEach(D.serial, "bits", D.bits)) = Len(D.serial)
        /\ \A i \in 1..Len(D.serial) : OnEach(D.serial, "bits", D.bits)[i].name = "bits"
        /\ OneAsks(OnEach(D.serial, "bits", D.bits), "bits", D.bits)
    <3> HIDE DEF A, B, C, a, b, c
    <3> QED
      BY <1>1, <1>2, <2>1, <2>2
  <2> QED
    BY <2>3
<1>7. Requests(D) = A \o B \o C
  BY DEF Requests
<1>8. a \in Nat /\ b \in Nat /\ c \in Nat
  BY <1>4, <1>5, <1>6
<1> HIDE DEF A, B, C
<1>9. /\ a = Len(A) /\ b = Len(B) /\ c = Len(C)
  OBVIOUS
<1>10. A \in Seq(Inquiries) /\ B \in Seq(Inquiries) /\ C \in Seq(Inquiries)
  BY <1>4, <1>5, <1>6
<1> HIDE DEF a, b, c
<1>11. ASSUME NEW name, NEW id, NEW t \in 1..((a + b) + c),
              AllAskAt(A, 0, t, name, id), AllAskAt(B, a, t, name, id), AllAskAt(C, a + b, t, name, id)
       PROVE  Asks(D, name, id) = 1
  BY <1>7, <1>8, <1>9, <1>10, <1>11, OneInThree
<1>12. ASSUME NEW j \in 1..Len(D.reads) PROVE Asks(D, "registers", D.reads[j].id) = 1
  <2> DEFINE id == D.reads[j].id
             t(u) == (0) + u
  <2>1. PICK u \in 1..a : OnlyAt(A, u, "registers", id)
    BY <1>4, <1>5, <1>6, <1>9 DEF OneAsks
  <2> HIDE DEF id
  <2>2. \A i \in 1..a : AsksFor(A[i], "registers", id) <=> i = u
    BY <1>9, <2>1 DEF OnlyAt
  <2>3. AllAskAt(A, 0, t(u), "registers", id)
    BY <1>8, <1>9, <2>2 DEF AllAskAt
  <2>4. AllAskAt(B, a, t(u), "registers", id)
    <3>1. \A i \in 1..b : B[i].name # "registers"
      BY <1>4, <1>5, <1>6
    <3>2. \A i \in 1..b : (a) + i # t(u)
      BY <1>8
    <3> QED
      BY <1>9, <3>1, <3>2 DEF AllAskAt, AsksFor
  <2>5. AllAskAt(C, a + b, t(u), "registers", id)
    <3>1. \A i \in 1..c : C[i].name # "registers"
      BY <1>4, <1>5, <1>6
    <3>2. \A i \in 1..c : (a + b) + i # t(u)
      BY <1>8
    <3> QED
      BY <1>9, <3>1, <3>2 DEF AllAskAt, AsksFor
  <2>6. t(u) \in 1..((a + b) + c)
    BY <1>8
  <2> HIDE DEF t
  <2>7. Asks(D, "registers", id) = 1
    BY <1>11, <2>3, <2>4, <2>5, <2>6
  <2> QED
    BY <2>7 DEF id
<1>13. ASSUME NEW j \in 1..Len(D.probes) PROVE Asks(D, "probes", D.probes[j].id) = 1
  <2> DEFINE id == D.probes[j].id
             t(u) == (a) + u
  <2>1. PICK u \in 1..b : OnlyAt(B, u, "probes", id)
    BY <1>4, <1>5, <1>6, <1>9 DEF OneAsks
  <2> HIDE DEF id
  <2>2. \A i \in 1..b : AsksFor(B[i], "probes", id) <=> i = u
    BY <1>9, <2>1 DEF OnlyAt
  <2>3. AllAskAt(A, 0, t(u), "probes", id)
    <3>1. \A i \in 1..a : A[i].name # "probes"
      BY <1>4, <1>5, <1>6
    <3>2. \A i \in 1..a : (0) + i # t(u)
      BY <1>8
    <3> QED
      BY <1>9, <3>1, <3>2 DEF AllAskAt, AsksFor
  <2>4. AllAskAt(B, a, t(u), "probes", id)
    BY <1>8, <1>9, <2>2 DEF AllAskAt
  <2>5. AllAskAt(C, a + b, t(u), "probes", id)
    <3>1. \A i \in 1..c : C[i].name # "probes"
      BY <1>4, <1>5, <1>6
    <3>2. \A i \in 1..c : (a + b) + i # t(u)
      BY <1>8
    <3> QED
      BY <1>9, <3>1, <3>2 DEF AllAskAt, AsksFor
  <2>6. t(u) \in 1..((a + b) + c)
    BY <1>8
  <2> HIDE DEF t
  <2>7. Asks(D, "probes", id) = 1
    BY <1>11, <2>3, <2>4, <2>5, <2>6
  <2> QED
    BY <2>7 DEF id
<1>14. ASSUME NEW j \in 1..Len(D.bits) PROVE Asks(D, "bits", D.bits[j].id) = 1
  <2> DEFINE id == D.bits[j].id
             t(u) == (a + b) + u
  <2>1. PICK u \in 1..c : OnlyAt(C, u, "bits", id)
    BY <1>4, <1>5, <1>6, <1>9 DEF OneAsks
  <2> HIDE DEF id
  <2>2. \A i \in 1..c : AsksFor(C[i], "bits", id) <=> i = u
    BY <1>9, <2>1 DEF OnlyAt
  <2>3. AllAskAt(A, 0, t(u), "bits", id)
    <3>1. \A i \in 1..a : A[i].name # "bits"
      BY <1>4, <1>5, <1>6
    <3>2. \A i \in 1..a : (0) + i # t(u)
      BY <1>8
    <3> QED
      BY <1>9, <3>1, <3>2 DEF AllAskAt, AsksFor
  <2>4. AllAskAt(B, a, t(u), "bits", id)
    <3>1. \A i \in 1..b : B[i].name # "bits"
      BY <1>4, <1>5, <1>6
    <3>2. \A i \in 1..b : (a) + i # t(u)
      BY <1>8
    <3> QED
      BY <1>9, <3>1, <3>2 DEF AllAskAt, AsksFor
  <2>5. AllAskAt(C, a + b, t(u), "bits", id)
    BY <1>8, <1>9, <2>2 DEF AllAskAt
  <2>6. t(u) \in 1..((a + b) + c)
    BY <1>8
  <2> HIDE DEF t
  <2>7. Asks(D, "bits", id) = 1
    BY <1>11, <2>3, <2>4, <2>5, <2>6
  <2> QED
    BY <2>7 DEF id
<1> QED
  BY <1>12, <1>13, <1>14

\* Requests that ask for something have ids of their own.
OwnIds(s) ==
    \A i, j \in 1..Len(s) : s[i].asks # {} /\ s[j].asks # {} /\ s[i].id = s[j].id => i = j

\* As many ids as entries, if no two have one.
LEMMA DifferentIds ==
    ASSUME NEW X, NEW entries \in Seq(X),
           \A i, j \in 1..Len(entries) : entries[i].id = entries[j].id => i = j
    PROVE  Unique(entries)
<1> DEFINE n == Len(entries)
           T == Ids(entries)
           g == [i \in 1..n |-> entries[i].id]
<1>1. n \in Nat /\ DOMAIN entries = 1..n
  OBVIOUS
<1>2. T = {g[i] : i \in 1..n} /\ \A i, j \in 1..n : g[i] = g[j] => i = j
  BY <1>1 DEF Ids
<1>3. g \in [1..n -> T]
  BY <1>1, <1>2
<1> HIDE DEF n, T, g
<1>4. g \in Bijection(1..n, T)
  <2>1. \A t \in T : \E i \in 1..n : g[i] = t
    BY <1>2
  <2> QED
    BY <1>2, <1>3, <2>1 DEF Bijection, Injection, IsInjective, Surjection
<1>5. IsFiniteSet(1..n) /\ Cardinality(1..n) = n
  BY <1>1, FS_Interval
<1>6. Cardinality(T) = n
  <2>1. ExistsBijection(1..n, T)
    BY <1>4 DEF ExistsBijection
  <2> QED
    BY <1>5, <2>1, FS_Bijection
<1> QED
  BY <1>6 DEF T, n, Unique

\* The plan has no two requests of one id if those that ask for something have not.
LEMMA PlanDiffers ==
    ASSUME NEW s \in Seq(Inquiries)
    PROVE  Unique(Asking(s)) <=> OwnIds(s)
<1> DEFINE places == {i \in DOMAIN s : s[i].asks # {}}
           plan == Chosen(s, places)
<1>1. places \in SUBSET (1..Len(s)) /\ \A i \in 1..Len(s) : i \in places <=> s[i].asks # {}
  OBVIOUS
<1> HIDE DEF places
<1>2. /\ plan \in Seq(Inquiries)
      /\ \E order : Picks(order, plan, s, places)
  BY <1>1, ChosenIs
<1>3. PICK order : Picks(order, plan, s, places)
  BY <1>2
<1> HIDE DEF plan
<1>4. /\ order \in [1..Len(plan) -> places]
      /\ \A k \in 1..Len(plan) : order[k] \in places /\ plan[k] = s[order[k]]
      /\ \A i \in places : \E k \in 1..Len(plan) : order[k] = i
      /\ \A j, k \in 1..Len(plan) : j < k <=> order[j] < order[k]
  BY <1>3 DEF Picks
<1>5. ASSUME Unique(plan), NEW i \in places, NEW j \in places, s[i].id = s[j].id PROVE i = j
  <2>1. \A k, l \in 1..Len(plan) : plan[k].id = plan[l].id => k = l
    BY <1>2, <1>5, NoTwo
  <2>2. PICK k \in 1..Len(plan) : order[k] = i
    BY <1>4
  <2>3. PICK l \in 1..Len(plan) : order[l] = j
    BY <1>4
  <2>4. plan[k].id = plan[l].id
    BY <1>4, <1>5, <2>2, <2>3
  <2> QED
    BY <2>1, <2>2, <2>3, <2>4
<1>6. ASSUME OwnIds(s) PROVE Unique(plan)
  <2>1. ASSUME NEW k \in 1..Len(plan), NEW l \in 1..Len(plan), plan[k].id = plan[l].id PROVE k = l
    <3>1. order[k] = order[l]
      <4>1. order[k] \in places /\ order[l] \in places /\ s[order[k]].id = s[order[l]].id
        BY <1>4, <2>1
      <4>2. /\ order[k] \in 1..Len(s) /\ s[order[k]].asks # {}
            /\ order[l] \in 1..Len(s) /\ s[order[l]].asks # {}
        BY <1>1, <4>1
      <4>3. \A i, j \in 1..Len(s) : s[i].asks # {} /\ s[j].asks # {} /\ s[i].id = s[j].id => i = j
        BY <1>6 DEF OwnIds
      <4> QED
        BY <4>1, <4>2, <4>3
    <3>2. order[k] \in Int
      <4>1. order[k] \in places /\ places \subseteq Int
        BY <1>1, <1>4
      <4> QED
        BY <4>1
    <3>3. ~(order[k] < order[l]) /\ ~(order[l] < order[k])
      BY <3>1, <3>2
    <3>4. ~(k < l) /\ ~(l < k)
      BY <1>4, <3>3
    <3> QED
      BY <3>4
  <2> QED
    BY <1>2, <2>1, DifferentIds
<1>7. Unique(plan) => OwnIds(s)
  BY <1>1, <1>5 DEF OwnIds
<1> QED
  BY <1>6, <1>7 DEF plan, places, Asking

\* The requests for the bits of two buses are called differently.
EndingsTell(D) == \A one, other \in Ids(D.serial) : BitsId(one) = BitsId(other) => one = other

\* The bits of a bus go by the name of a bus that is read.
BitsClash(D) == \E bus \in Sources(D.bits) : BitsId(bus) \in Sources(D.reads) \cup Sources(D.probes)

\* A request at a place of the plan: of the registers, the probes, the bits of a bus.
OfRegisters(D, s, i, a) ==
    \E k \in 1..a : /\ i = k /\ s[i].id = D.serial[k].id
                    /\ s[i].asks # {} <=> D.serial[k].id \in Sources(D.reads)
OfProbes(D, s, i, a, b) ==
    \E k \in 1..b : /\ i = a + k /\ s[i].id = D.onewire[k].id
                    /\ s[i].asks # {} <=> D.onewire[k].id \in Sources(D.probes)
OfBits(D, s, i, ab, c) ==
    \E k \in 1..c : /\ i = ab + k /\ s[i].id = BitsId(D.serial[k].id)
                    /\ s[i].asks # {} <=> D.serial[k].id \in Sources(D.bits)

\* Only the bits of a bus can go by the name of another request.
LEMMA OnlyBitsClash ==
    ASSUME NEW D \in Documents, Accepted(D), EndingsTell(D)
    PROVE  Unique(Plan(D)) <=> ~BitsClash(D)
<1> DEFINE A == OnEach(D.serial, "registers", D.reads)
           B == OnEach(D.onewire, "probes", D.probes)
           C == OnEach(D.serial, "bits", D.bits)
           a == Len(D.serial)
           b == Len(D.onewire)
           s == Requests(D)
<1>1. /\ D.probes \in Seq(ProbeReads) /\ D.reads \in Seq(RegisterReads) /\ D.bits \in Seq(BitReads)
      /\ D.onewire \in Seq(Buses) /\ D.serial \in Seq(Buses)
  BY DocumentTyped
<1>2. /\ Unique(D.serial) /\ Unique(D.onewire)
      /\ Sources(D.reads) \subseteq Ids(D.serial)
      /\ Sources(D.probes) \subseteq Ids(D.onewire)
      /\ Sources(D.bits) \subseteq Ids(D.serial)
      /\ Ids(D.onewire) \cap Ids(D.serial) = {}
  BY DEF Accepted, ReferencesHold, OneWireReferencesHold, BitReferencesHold
<1>3. /\ \A i, j \in 1..a : D.serial[i].id = D.serial[j].id => i = j
      /\ \A i, j \in 1..b : D.onewire[i].id = D.onewire[j].id => i = j
  BY <1>1, <1>2, NoTwo
<1>4. /\ a \in Nat /\ b \in Nat
      /\ Ids(D.serial) = {D.serial[i].id : i \in 1..a}
      /\ Ids(D.onewire) = {D.onewire[i].id : i \in 1..b}
  BY <1>1 DEF Ids
<1>5. /\ A \in Seq(Inquiries) /\ Len(A) = a /\ NamedAfter(A, "registers", D.serial, D.reads)
      /\ B \in Seq(Inquiries) /\ Len(B) = b /\ NamedAfter(B, "probes", D.onewire, D.probes)
      /\ C \in Seq(Inquiries) /\ Len(C) = a /\ NamedAfter(C, "bits", D.serial, D.bits)
  <2>1. ASSUME NEW buses \in Seq(Buses), Unique(buses), NEW name \in Kinds, NEW X,
               NEW entries \in Seq(X), \A e \in X : e.id \in STRING
        PROVE  /\ OnEach(buses, name, entries) \in Seq(Inquiries)
               /\ Len(OnEach(buses, name, entries)) = Len(buses)
               /\ NamedAfter(OnEach(buses, name, entries), name, buses, entries)
    BY <2>1, OnEachIs
  <2>2. /\ \A e \in RegisterReads : e.id \in STRING
        /\ \A e \in ProbeReads : e.id \in STRING
        /\ \A e \in BitReads : e.id \in STRING
    BY DEF RegisterReads, ProbeReads, BitReads
  <2>3. "registers" \in Kinds /\ "probes" \in Kinds /\ "bits" \in Kinds
    BY DEF Kinds
  <2>4. A \in Seq(Inquiries) /\ Len(A) = a /\ NamedAfter(A, "registers", D.serial, D.reads)
    BY <1>1, <1>2, <2>1, <2>2, <2>3
  <2>5. B \in Seq(Inquiries) /\ Len(B) = b /\ NamedAfter(B, "probes", D.onewire, D.probes)
    BY <1>1, <1>2, <2>1, <2>2, <2>3
  <2>6. C \in Seq(Inquiries) /\ Len(C) = a /\ NamedAfter(C, "bits", D.serial, D.bits)
    BY <1>1, <1>2, <2>1, <2>2, <2>3
  <2> QED
    BY <2>4, <2>5, <2>6
<1>6. s = A \o B \o C /\ Plan(D) = Asking(s)
  BY DEF Requests, Plan, Asking
<1> HIDE DEF A, B, C, a, b, s
<1>7. OneAfterTheOther(s, A, B, C)
  BY <1>5, <1>6, OneOfThree
<1>8. /\ s \in Seq(Inquiries) /\ Len(s) = (a + b) + a
      /\ \A i \in 1..a : s[i] = A[i]
      /\ \A i \in 1..b : s[a + i] = B[i]
      /\ \A i \in 1..a : s[(a + b) + i] = C[i]
  BY <1>5, <1>7 DEF OneAfterTheOther
<1>9. /\ \A k \in 1..a : OfRegisters(D, s, k, a)
      /\ \A k \in 1..b : OfProbes(D, s, a + k, a, b)
      /\ \A k \in 1..a : OfBits(D, s, (a + b) + k, a + b, a)
  <2>1. ASSUME NEW k \in 1..a PROVE OfRegisters(D, s, k, a)
    <3>1. /\ A[k].id = D.serial[k].id
          /\ A[k].asks # {} <=> D.serial[k].id \in Sources(D.reads)
      BY <1>5 DEF NamedAfter, Called, a
    <3>2. s[k] = A[k]
      BY <1>8
    <3> QED
      BY <3>1, <3>2 DEF OfRegisters
  <2>2. ASSUME NEW k \in 1..b PROVE OfProbes(D, s, a + k, a, b)
    <3>1. /\ B[k].id = D.onewire[k].id
          /\ B[k].asks # {} <=> D.onewire[k].id \in Sources(D.probes)
      BY <1>5 DEF NamedAfter, Called, b
    <3>2. s[a + k] = B[k]
      BY <1>8
    <3> QED
      BY <3>1, <3>2 DEF OfProbes
  <2>3. ASSUME NEW k \in 1..a PROVE OfBits(D, s, (a + b) + k, a + b, a)
    <3>1. /\ C[k].id = BitsId(D.serial[k].id)
          /\ C[k].asks # {} <=> D.serial[k].id \in Sources(D.bits)
      BY <1>5 DEF NamedAfter, Called, a
    <3>2. s[(a + b) + k] = C[k]
      BY <1>8
    <3> QED
      BY <3>1, <3>2 DEF OfBits
  <2> QED
    BY <2>1, <2>2, <2>3
<1>10. ASSUME NEW i \in 1..Len(s)
       PROVE  OfRegisters(D, s, i, a) \/ OfProbes(D, s, i, a, b) \/ OfBits(D, s, i, a + b, a)
  <2> DEFINE n == Len(s)
  <2>1. i \in 1..n /\ n = (a + b) + a
    BY <1>8
  <2> HIDE DEF n
  <2>2. i \in 1..a \/ i - a \in 1..b \/ i - (a + b) \in 1..a
    BY <1>4, <2>1
  <2>3. i = a + (i - a) /\ i = (a + b) + (i - (a + b))
    BY <1>4, <2>1
  <2> QED
    BY <1>9, <2>2, <2>3
<1>11. ASSUME ~BitsClash(D) PROVE OwnIds(s)
  <2> DEFINE Same(i, j) == s[i].asks # {} /\ s[j].asks # {} /\ s[i].id = s[j].id
  <2>1. ASSUME NEW i, NEW j, Same(i, j), OfRegisters(D, s, i, a), OfRegisters(D, s, j, a) PROVE i = j
    BY <1>3, <2>1 DEF OfRegisters
  <2>2. ASSUME NEW i, NEW j, Same(i, j), OfProbes(D, s, i, a, b), OfProbes(D, s, j, a, b) PROVE i = j
    BY <1>3, <2>2 DEF OfProbes
  <2>3. ASSUME NEW i, NEW j, Same(i, j), OfBits(D, s, i, a + b, a), OfBits(D, s, j, a + b, a) PROVE i = j
    <3>1. PICK k \in 1..a : i = (a + b) + k /\ s[i].id = BitsId(D.serial[k].id)
      BY <2>3 DEF OfBits
    <3>2. PICK l \in 1..a : j = (a + b) + l /\ s[j].id = BitsId(D.serial[l].id)
      BY <2>3 DEF OfBits
    <3>3. D.serial[k].id = D.serial[l].id
      BY <1>4, <2>3, <3>1, <3>2 DEF EndingsTell
    <3> QED
      BY <1>3, <3>1, <3>2, <3>3
  <2>4. ASSUME NEW i, NEW j, Same(i, j), OfRegisters(D, s, i, a), OfProbes(D, s, j, a, b) PROVE FALSE
    BY <1>2, <1>4, <2>4 DEF OfRegisters, OfProbes
  <2>5. ASSUME NEW i, NEW j, Same(i, j), OfRegisters(D, s, i, a), OfBits(D, s, j, a + b, a) PROVE FALSE
    BY <1>11, <2>5 DEF OfRegisters, OfBits, BitsClash
  <2>6. ASSUME NEW i, NEW j, Same(i, j), OfProbes(D, s, i, a, b), OfBits(D, s, j, a + b, a) PROVE FALSE
    BY <1>11, <2>6 DEF OfProbes, OfBits, BitsClash
  <2>7. \A i, j : Same(i, j) => Same(j, i)
    OBVIOUS
  <2> HIDE DEF Same
  <2>8. ASSUME NEW i \in 1..Len(s), NEW j \in 1..Len(s), Same(i, j) PROVE i = j
    <3>1. CASE OfRegisters(D, s, i, a)
      BY <1>10, <2>1, <2>4, <2>5, <2>8, <3>1
    <3>2. CASE OfProbes(D, s, i, a, b)
      BY <1>10, <2>2, <2>4, <2>6, <2>7, <2>8, <3>2
    <3>3. CASE OfBits(D, s, i, a + b, a)
      BY <1>10, <2>3, <2>5, <2>6, <2>7, <2>8, <3>3
    <3> QED
      BY <1>10, <3>1, <3>2, <3>3
  <2> QED
    BY <2>8 DEF OwnIds, Same
<1>12. ASSUME BitsClash(D) PROVE ~OwnIds(s)
  <2>1. PICK bus \in Sources(D.bits) : BitsId(bus) \in Sources(D.reads) \cup Sources(D.probes)
    BY <1>12 DEF BitsClash
  <2>2. PICK l \in 1..a : D.serial[l].id = bus
    BY <1>2, <1>4
  <2>3. s[(a + b) + l].id = BitsId(bus) /\ s[(a + b) + l].asks # {}
    <3>1. PICK m \in 1..a : /\ (a + b) + l = (a + b) + m
                            /\ s[(a + b) + l].id = BitsId(D.serial[m].id)
                            /\ s[(a + b) + l].asks # {} <=> D.serial[m].id \in Sources(D.bits)
      BY <1>9 DEF OfBits
    <3>2. m = l
      BY <1>4, <3>1
    <3> QED
      BY <2>2, <3>1, <3>2
  <2>4. \E i \in 1..(a + b) : s[i].id = BitsId(bus) /\ s[i].asks # {}
    <3>1. CASE BitsId(bus) \in Sources(D.reads)
      <4>1. PICK k \in 1..a : D.serial[k].id = BitsId(bus)
        BY <1>2, <1>4, <3>1
      <4>2. s[k].id = BitsId(bus) /\ s[k].asks # {}
        BY <1>9, <3>1, <4>1 DEF OfRegisters
      <4> QED
        BY <1>4, <4>2
    <3>2. CASE BitsId(bus) \in Sources(D.probes)
      <4>1. PICK k \in 1..b : D.onewire[k].id = BitsId(bus)
        BY <1>2, <1>4, <3>2
      <4>2. s[a + k].id = BitsId(bus) /\ s[a + k].asks # {}
        <5>1. PICK m \in 1..b : /\ a + k = a + m
                                /\ s[a + k].id = D.onewire[m].id
                                /\ s[a + k].asks # {} <=> D.onewire[m].id \in Sources(D.probes)
          BY <1>9 DEF OfProbes
        <5>2. m = k
          BY <1>4, <5>1
        <5> QED
          BY <3>2, <4>1, <5>1, <5>2
      <4>3. a + k \in 1..(a + b)
        BY <1>4
      <4> QED
        BY <4>2, <4>3
    <3> QED
      BY <2>1, <3>1, <3>2
  <2>5. PICK i \in 1..(a + b) : s[i].id = BitsId(bus) /\ s[i].asks # {}
    BY <2>4
  <2>6. (a + b) + l \in 1..Len(s) /\ i \in 1..Len(s) /\ i # (a + b) + l
    <3>1. Len(s) = (a + b) + a
      BY <1>8
    <3>2. (a + b) + l \in 1..((a + b) + a) /\ i \in 1..((a + b) + a) /\ i # (a + b) + l
      BY <1>4
    <3> QED
      BY <3>1, <3>2
  <2> QED
    BY <2>3, <2>5, <2>6 DEF OwnIds
<1> QED
  BY <1>6, <1>8, <1>11, <1>12, PlanDiffers

\* Whether building the plan raises.
LEMMA RaisesWhen ==
    ASSUME NEW D \in Documents, Accepted(D), EndingsTell(D)
    PROVE  PlanRaises(D) <=> (\E i \in DOMAIN D.reads : ~RegisterTaken(D.reads[i])) \/ BitsClash(D)
<1>1. Sources(D.reads) \subseteq Ids(D.serial)
  BY DEF Accepted, ReferencesHold
<1>2. Unique(Plan(D)) <=> ~BitsClash(D)
  BY OnlyBitsClash
<1>3. (\E read \in ToSet(D.reads) : read.source \in Ids(D.serial) /\ ~RegisterTaken(read))
      <=> (\E i \in DOMAIN D.reads : ~RegisterTaken(D.reads[i]))
  BY <1>1 DEF ToSet, Sources
<1> QED
  BY <1>2, <1>3 DEF PlanRaises

\* What is accepted gives a registry, and a plan unless it asks for what cannot be.
LEMMA AcceptedBuilds ==
    ASSUME doc \in Documents, NoneRaised(doc), EndingsTell(doc)
    PROVE  AcceptedConfigurationBuilds
<1> SUFFICES ASSUME Accepted(doc) PROVE AcceptedConfigurationBuilds
  BY DEF AcceptedConfigurationBuilds
<1>1. Registry(doc) = Ids(doc.sensors)
  BY RegistryIs
<1>2. /\ DOMAIN doc.reads = 1..Len(doc.reads) /\ DOMAIN doc.probes = 1..Len(doc.probes)
      /\ DOMAIN doc.bits = 1..Len(doc.bits)
  BY DocumentTyped
<1>3. /\ SensorsOf(doc.reads) \subseteq Ids(doc.sensors)
      /\ SensorsOf(doc.probes) \subseteq Ids(doc.sensors)
      /\ SensorsOf(doc.bits) \subseteq Ids(doc.sensors)
      /\ Sources(doc.targets) \subseteq Ids(doc.serial)
      /\ Ids(doc.onewire) \cap Ids(doc.serial) = {}
  BY DEF Accepted, ReferencesHold, OneWireReferencesHold, BitReferencesHold, ControlReferencesHold
<1>4. /\ \A i \in DOMAIN doc.reads : doc.reads[i].sensor \in Registry(doc)
      /\ \A i \in DOMAIN doc.probes : doc.probes[i].sensor \in Registry(doc)
      /\ \A i \in DOMAIN doc.bits : doc.bits[i].sensor \in Registry(doc)
  BY <1>1, <1>3 DEF SensorsOf
<1>5. /\ \A i \in DOMAIN doc.reads : Asks(doc, "registers", doc.reads[i].id) = 1
      /\ \A i \in DOMAIN doc.probes : Asks(doc, "probes", doc.probes[i].id) = 1
      /\ \A i \in DOMAIN doc.bits : Asks(doc, "bits", doc.bits[i].id) = 1
  BY <1>2, AskedOnce
<1>6. Sources(doc.targets) \subseteq Ids(doc.serial) \ Ids(doc.onewire)
  BY <1>3
<1>7. PlanRaises(doc) <=>
         \/ \E i \in DOMAIN doc.reads : ~RegisterTaken(doc.reads[i])
         \/ \E bus \in Sources(doc.bits) : BitsId(bus) \in Sources(doc.reads) \cup Sources(doc.probes)
  BY RaisesWhen DEF BitsClash
<1> QED
  BY <1>1, <1>4, <1>5, <1>6, <1>7 DEF AcceptedConfigurationBuilds

\* The names in the file, but for those of the probes, are those of the start.
NamesKept(D) == NoneRaised(D) /\ EndingsTell(D)

\* A calibration changes none of the names.
LEMMA NamesKeptNext ==
    Bathed /\ Bathed' /\ Recorded /\ NamesKept(doc) /\ [Next]_vars => NamesKept(doc)'
<1> SUFFICES ASSUME Recorded, NamesKept(doc), [Next]_vars PROVE NamesKept(doc)'
  OBVIOUS
<1>1. CASE Paste
  <2>1. doc \in [residence: STRING, systems: Seq(Assets), equipment: Seq(Assets), sensors: Seq(Measures),
                 serial: Seq(Buses), onewire: Seq(Buses), reads: Seq(RegisterReads),
                 probes: Seq(ProbeReads), bits: Seq(BitReads), targets: Seq(Relays), enabled: BOOLEAN]
    BY DEF Recorded, Documents
  <2>2. PICK probes : doc' = [doc EXCEPT !.probes = probes]
    BY <1>1 DEF Paste
  <2>3. doc'.systems = doc.systems /\ doc'.equipment = doc.equipment /\ doc'.sensors = doc.sensors
        /\ doc'.serial = doc.serial
    BY <2>1, <2>2
  <2> QED
    BY <2>3 DEF NamesKept, NoneRaised, EndingsTell
<1>2. CASE doc' = doc
  BY <1>2 DEF NamesKept, NoneRaised, EndingsTell
<1>3. Paste \/ doc' = doc
  BY DEF Next, PageStep, BenchStep, Reload, Probe, Cycle, Round, vars, benchVars
<1> QED
  BY <1>1, <1>2, <1>3

\* What is accepted gives a registry with every sensor, and a plan unless a register
\* read cannot be requested or decoded or the bits of a bus go by the name of another
\* bus that is read; a cycle asks for every read once (configuration.py:444,
\* runtime.py:302, acquisition_runner.py:56).
THEOREM AcceptedConfigurationBuildsAlways == Spec => []AcceptedConfigurationBuilds
<1>1. Recorded /\ NamesKept(doc) => AcceptedConfigurationBuilds
  BY AcceptedBuilds DEF Recorded, NamesKept
<1>2. Init => NamesKept(doc)
  BY InstallationAssumption DEF Init, NamesKept, NoneRaised, EndingsTell
<1>3. Init => Bathed /\ Recorded
  BY BathedInit, RecordedInit
<1>4. Bathed /\ Recorded /\ NamesKept(doc) /\ [Next]_vars
      => Bathed' /\ Recorded' /\ NamesKept(doc)'
  BY BathedNext, RecordedNext, NamesKeptNext
<1> QED
  BY <1>1, <1>2, <1>3, <1>4, PTL DEF Spec

-------------------------------------------------------------------------------
(***************************************************************************)
(* Bounds and types.                                                       *)
(***************************************************************************)

\* How many commands, and how many restarts, a run may have.
Commands == scene.budget.commands
Restarts == scene.budget.restarts

\* A request carries the token of a service that is or was, and a command its number.
Counted(r, n) ==
    /\ r.kind \in {"state", "command"}
    /\ r.session \in 1..n
    /\ r.load \in Nat /\ r.load >= 1
    /\ r.kind = "command" => r.id \in 1..Commands

\* A page that was loaded has a token; one that was not shows nothing.
Numbered ==
    /\ scene \in Scenes
    /\ left.commands \in 0..Commands /\ left.restarts \in 0..Restarts
    /\ session = 1 + (Restarts - left.restarts)
    /\ journal \in Seq(1..Commands) /\ gate \in 0..Commands
    /\ page.load \in Nat /\ page.session \in 0..session
    /\ page.load > 0 => page.session \in 1..session
    /\ page.picture # NoPicture => page.load > 0
    /\ \A r \in requests : Counted(r, session)

\* The budget is one of counts.
LEMMA BudgetTyped ==
    ASSUME scene \in Scenes
    PROVE  /\ scene.budget \in [commands: Nat, hands: Nat, faults: Nat, restarts: Nat, loads: Nat]
           /\ Commands \in Nat /\ Restarts \in Nat
<1>1. scene.budget \in [commands: Nat, hands: Nat, faults: Nat, restarts: Nat, loads: Nat]
  BY InstallationAssumption
<1> QED
  BY <1>1 DEF Commands, Restarts

\* What a step takes from the budget.
LEMMA SpentIs ==
    ASSUME left \in Left, NEW what \in {"commands", "hands", "faults", "restarts", "loads"},
           Spend(what)
    PROVE  /\ left'.commands = (IF what = "commands" THEN left.commands - 1 ELSE left.commands)
           /\ left'.restarts = (IF what = "restarts" THEN left.restarts - 1 ELSE left.restarts)
           /\ what = "commands" => left.commands > 0
           /\ what = "restarts" => left.restarts > 0
<1>1. CASE what = "commands"
  BY <1>1 DEF Spend, Left
<1>2. CASE what = "restarts"
  BY <1>2 DEF Spend, Left
<1>3. CASE what \in {"hands", "faults", "loads"}
  BY <1>3 DEF Spend, Left
<1> QED
  BY <1>1, <1>2, <1>3

\* At the start nothing was asked or spent.
LEMMA NumberedInit == Init => Numbered
<1> SUFFICES ASSUME Init PROVE Numbered
  OBVIOUS
<1>1. scene \in Scenes /\ PageInit(scene.budget)
  BY DEF Init
<1>2. /\ scene.budget \in [commands: Nat, hands: Nat, faults: Nat, restarts: Nat, loads: Nat]
      /\ Commands \in Nat /\ Restarts \in Nat
  BY <1>1, BudgetTyped
<1>3. /\ session = 1 /\ journal = <<>> /\ gate = 0 /\ requests = {} /\ left = scene.budget
      /\ page.session = 0 /\ page.load = 0 /\ page.picture = NoPicture
  BY <1>1 DEF PageInit, Idle
<1>4. left.commands = Commands /\ left.restarts = Restarts
  BY <1>3 DEF Commands, Restarts
<1>5. journal \in Seq(1..Commands)
  BY <1>3
<1> QED
  BY <1>1, <1>2, <1>3, <1>4, <1>5 DEF Numbered

\* What a step has to leave, if the service goes on.
LEMMA NumberedStep ==
    ASSUME Numbered, UNCHANGED <<scene, session>>,
           left'.commands \in 0..Commands, left'.restarts = left.restarts,
           journal' \in Seq(1..Commands), gate' \in 0..Commands,
           page'.load \in Nat, page'.session \in 0..session,
           page'.load > 0 => page'.session \in 1..session,
           page'.picture # NoPicture => page'.load > 0,
           \A r \in requests' : r \in requests \/ Counted(r, session)
    PROVE  Numbered'
<1>1. \A r \in requests : Counted(r, session)
  BY DEF Numbered
<1>2. Commands' = Commands /\ Restarts' = Restarts
  BY DEF Commands, Restarts
<1>3. \A r \in requests' : Counted(r, session)
  BY <1>1
<1>4. ASSUME NEW r PROVE Counted(r, session)' <=> Counted(r, session)
  BY <1>2 DEF Counted
<1>5. (\A r \in requests : Counted(r, session))'
  BY <1>3, <1>4
<1> QED
  BY <1>2, <1>5 DEF Numbered

\* A request that goes a step further carries what it carried.
LEMMA ReplacedCounted ==
    ASSUME Honest, Numbered, NEW r \in requests, NEW s, Replace(r, s),
           s.kind = r.kind, s.session = r.session, s.load = r.load, s.id = r.id
    PROVE  \A q \in requests' : q \in requests \/ Counted(q, session)
<1>1. Counted(r, session)
  BY DEF Numbered
<1>2. Counted(s, session)
  BY <1>1 DEF Counted
<1> QED
  BY <1>2 DEF Replace

\* A request of a page that was loaded.
LEMMA StateRequestCounted ==
    ASSUME Numbered, page.load > 0
    PROVE  Counted(StateRequest, session)
BY DEF Numbered, Counted, StateRequest

\* The steps of the page and of the hand.
LEMMA PageIsNumbered ==
    ASSUME Honest, Numbered, scene' = scene,
           Load \/ Refresh \/ \E closed \in BOOLEAN : Send(closed) \/ ByHand(closed)
    PROVE  Numbered'
<1>0. /\ page \in Page /\ left \in Left /\ scene \in Scenes /\ session \in Int
  BY DEF Honest, Shape, Numbered
<1>a. /\ Commands \in Nat /\ Restarts \in Nat
      /\ left.commands \in 0..Commands /\ left.restarts \in 0..Restarts
      /\ session = 1 + (Restarts - left.restarts) /\ session >= 1
      /\ journal \in Seq(1..Commands) /\ gate \in 0..Commands
      /\ page.load \in Nat /\ page.session \in 0..session
      /\ page.load > 0 => page.session \in 1..session
      /\ page.picture # NoPicture => page.load > 0
  BY <1>0, BudgetTyped DEF Numbered
<1>1. CASE Load
  <2> DEFINE r == [StateRequest EXCEPT !.load = page.load + 1, !.session = session]
  <2>1. /\ page' = [session |-> session, load |-> page.load + 1, inFlight |-> TRUE,
                    picture |-> NoPicture]
        /\ requests' = requests \cup {r}
        /\ UNCHANGED <<session, coil, journal, gate>> /\ Spend("loads")
    BY <1>1 DEF Load
  <2>2. left'.commands = left.commands /\ left'.restarts = left.restarts
    BY <1>0, <2>1, SpentIs
  <2>3. r.kind = "state" /\ r.load = page.load + 1 /\ r.session = session
    BY DEF StateRequest
  <2> HIDE DEF r
  <2>4. Counted(r, session)
    BY <1>0, <1>a, <2>3 DEF Counted
  <2> QED
    BY <1>0, <1>a, <2>1, <2>2, <2>4, NumberedStep
<1>2. CASE Refresh
  <2>1. /\ page.load > 0 /\ requests' = requests \cup {StateRequest}
        /\ page'.load = page.load /\ page'.session = page.session /\ page'.picture = page.picture
        /\ UNCHANGED <<session, journal, gate, left>>
    BY <1>0, <1>2 DEF Refresh, Page
  <2>2. Counted(StateRequest, session)
    BY <2>1, StateRequestCounted
  <2> QED
    BY <1>a, <2>1, <2>2, NumberedStep
<1>3. ASSUME NEW closed \in BOOLEAN, Send(closed) PROVE Numbered'
  <2> DEFINE r == [StateRequest EXCEPT !.kind = "command", !.closed = closed, !.id = left.commands]
  <2>1. /\ page.picture # NoPicture /\ requests' = requests \cup {r} /\ Spend("commands")
        /\ UNCHANGED <<session, journal, gate, page>>
    BY <1>3 DEF Send
  <2>2. left'.commands = left.commands - 1 /\ left'.restarts = left.restarts /\ left.commands > 0
    BY <1>0, <2>1, SpentIs
  <2>3. r.kind = "command" /\ r.load = page.load /\ r.session = page.session
        /\ r.id = left.commands
    BY DEF StateRequest
  <2> HIDE DEF r
  <2>4. Counted(r, session)
    BY <1>a, <2>1, <2>2, <2>3 DEF Counted
  <2>5. left'.commands \in 0..Commands
    BY <1>a, <2>2
  <2> QED
    BY <1>a, <2>1, <2>2, <2>4, <2>5, NumberedStep
<1>4. ASSUME NEW closed \in BOOLEAN, ByHand(closed) PROVE Numbered'
  <2>1. Spend("hands") /\ UNCHANGED <<session, journal, gate, page, requests>>
    BY <1>4 DEF ByHand
  <2>2. left'.commands = left.commands /\ left'.restarts = left.restarts
    BY <1>0, <2>1, SpentIs
  <2> QED
    BY <1>a, <2>1, <2>2, NumberedStep
<1> QED
  BY <1>1, <1>2, <1>3, <1>4

\* What is known of the numbers before a step, and of the requests.
LEMMA NumberedSays ==
    ASSUME Honest, Numbered
    PROVE  /\ page \in Page /\ left \in Left /\ session \in Int /\ session >= 1
           /\ Commands \in Nat /\ Restarts \in Nat
           /\ left.commands \in 0..Commands /\ left.restarts \in 0..Restarts
           /\ session = 1 + (Restarts - left.restarts)
           /\ journal \in Seq(1..Commands) /\ gate \in 0..Commands
           /\ page.load \in Nat /\ page.session \in 0..session
           /\ page.load > 0 => page.session \in 1..session
           /\ page.picture # NoPicture => page.load > 0
           /\ \A r \in requests : r \in Fetch /\ Counted(r, session) /\ Sound(r, coil, journal)
<1>1. page \in Page /\ left \in Left /\ session \in Int
  BY DEF Honest, Shape
<1>2. Commands \in Nat /\ Restarts \in Nat
  BY BudgetTyped DEF Numbered
<1>3. left.restarts \in 0..Restarts /\ session = 1 + (Restarts - left.restarts)
  BY DEF Numbered
<1>4. session >= 1
  BY <1>2, <1>3
<1>5. \A r \in requests : r \in Fetch /\ Counted(r, session) /\ Sound(r, coil, journal)
  BY DEF Honest, Numbered, Sound
<1> QED
  BY <1>1, <1>2, <1>3, <1>4, <1>5 DEF Numbered

\* The page takes an answer, or its failure.
LEMMA ReceiveIsNumbered ==
    ASSUME Honest, Numbered, scene' = scene, NEW r \in requests, Receive(r) \/ Lose(r)
    PROVE  Numbered'
<1>0. /\ page \in Page /\ left \in Left /\ Commands \in Nat
      /\ left.commands \in 0..Commands
      /\ journal \in Seq(1..Commands) /\ gate \in 0..Commands
      /\ page.load \in Nat /\ page.session \in 0..session
      /\ page.load > 0 => page.session \in 1..session
      /\ page.picture # NoPicture => page.load > 0
      /\ r \in Fetch /\ r.load >= 1
  BY NumberedSays DEF Counted
<1>1. CASE Draw(r)
  <2>1. /\ requests' \subseteq requests /\ UNCHANGED <<session, journal, gate, left>>
        /\ page'.load = page.load /\ page'.session = page.session
        /\ page'.picture = page.picture \/ r.load = page.load
    BY <1>0, <1>1 DEF Draw, Page
  <2> QED
    BY <1>0, <2>1, NumberedStep
<1>2. CASE FetchFails(r)
  <2>1. /\ requests' \subseteq requests /\ UNCHANGED <<session, journal, gate, left>>
        /\ page'.load = page.load /\ page'.session = page.session
        /\ page'.picture = page.picture \/ r.load = page.load
    BY <1>0, <1>2 DEF FetchFails, Page
  <2> QED
    BY <1>0, <2>1, NumberedStep
<1>3. CASE Told(r)
  <2>1. /\ UNCHANGED <<session, journal, gate, left>>
        /\ page'.load = page.load /\ page'.session = page.session /\ page'.picture = page.picture
        /\ \/ requests' = requests \ {r}
           \/ requests' = (requests \ {r}) \cup {StateRequest} /\ page.load = r.load
    BY <1>0, <1>3 DEF Told, Page
  <2>2. page.load = r.load => Counted(StateRequest, session)
    BY <1>0, StateRequestCounted
  <2>3. \A q \in requests' : q \in requests \/ Counted(q, session)
    BY <2>1, <2>2
  <2> QED
    BY <1>0, <2>1, <2>3, NumberedStep
<1>4. CASE Lose(r)
  <2> DEFINE s == [r EXCEPT !.step = "dead"]
  <2>1. Spend("faults") /\ Replace(r, s) /\ UNCHANGED <<session, journal, gate, page>>
    BY <1>4 DEF Lose
  <2>2. s.kind = r.kind /\ s.session = r.session /\ s.load = r.load /\ s.id = r.id
    BY <1>0 DEF Fetch
  <2> HIDE DEF s
  <2>3. left'.commands = left.commands /\ left'.restarts = left.restarts
    BY <1>0, <2>1, SpentIs
  <2>4. \A q \in requests' : q \in requests \/ Counted(q, session)
    BY <2>1, <2>2, ReplacedCounted
  <2> QED
    BY <1>0, <2>1, <2>3, <2>4, NumberedStep
<1> QED
  BY <1>1, <1>2, <1>3, <1>4 DEF Receive

\* The service answers, and records the number of the command.
LEMMA ServeIsNumbered ==
    ASSUME Honest, Numbered, scene' = scene, NEW r \in requests, NEW enabled \in BOOLEAN,
           Serve(r, enabled)
    PROVE  Numbered'
<1>0. /\ page \in Page /\ left \in Left /\ Commands \in Nat
      /\ left.commands \in 0..Commands
      /\ journal \in Seq(1..Commands) /\ gate \in 0..Commands
      /\ page.load \in Nat /\ page.session \in 0..session
      /\ page.load > 0 => page.session \in 1..session
      /\ page.picture # NoPicture => page.load > 0
      /\ r \in Fetch /\ Counted(r, session) /\ Sound(r, coil, journal)
  BY NumberedSays
<1>a. UNCHANGED <<session, page>>
  BY DEF Serve, Forbid, ReadTargets, ReadJournal, Refuse, Intend, Operate, Conclude
<1>1. \A q \in requests' : q \in requests \/ Counted(q, session)
  <2>1. ASSUME NEW s, Replace(r, s), s.kind = r.kind, s.session = r.session, s.load = r.load,
               s.id = r.id
        PROVE  \A q \in requests' : q \in requests \/ Counted(q, session)
    BY <2>1, ReplacedCounted
  <2>2. ASSUME NEW step, Replace(r, [r EXCEPT !.step = step])
        PROVE  \A q \in requests' : q \in requests \/ Counted(q, session)
    <3> DEFINE s == [r EXCEPT !.step = step]
    <3>1. s.kind = r.kind /\ s.session = r.session /\ s.load = r.load /\ s.id = r.id
      BY <1>0 DEF Fetch
    <3>2. Replace(r, s)
      BY <2>2
    <3> HIDE DEF s
    <3> QED
      BY <2>1, <3>1, <3>2
  <2>3. ASSUME NEW step, NEW picture, Replace(r, [r EXCEPT !.step = step, !.picture = picture])
        PROVE  \A q \in requests' : q \in requests \/ Counted(q, session)
    <3> DEFINE s == [r EXCEPT !.step = step, !.picture = picture]
    <3>1. s.kind = r.kind /\ s.session = r.session /\ s.load = r.load /\ s.id = r.id
      BY <1>0 DEF Fetch
    <3>2. Replace(r, s)
      BY <2>3
    <3> HIDE DEF s
    <3> QED
      BY <2>1, <3>1, <3>2
  <2>4. CASE ReadJournal(r)
    <3> DEFINE s == [r EXCEPT !.step = "answered", !.picture.journal = RecentOf(journal),
                                                   !.picture.rows = Len(journal)]
    <3>1. s.kind = r.kind /\ s.session = r.session /\ s.load = r.load /\ s.id = r.id
      BY <1>0 DEF Fetch
    <3>2. Replace(r, s)
      BY <2>4 DEF ReadJournal
    <3> HIDE DEF s
    <3> QED
      BY <2>1, <3>1, <3>2
  <2>5. CASE ReadTargets(r, enabled)
    BY <2>3, <2>5 DEF ReadTargets
  <2>6. CASE Forbid(r) \/ Refuse(r) \/ Intend(r) \/ Operate(r) \/ Conclude(r)
    BY <2>2, <2>6 DEF Forbid, Refuse, Intend, Operate, Conclude
  <2> QED
    BY <2>4, <2>5, <2>6 DEF Serve
<1>2. left'.commands = left.commands /\ left'.restarts = left.restarts
  <2>1. left' = left \/ Spend("faults")
    BY DEF Serve, Forbid, ReadTargets, ReadJournal, Refuse, Intend, Operate, Conclude
  <2> QED
    BY <1>0, <2>1, SpentIs
<1>3. journal' \in Seq(1..Commands) /\ gate' \in 0..Commands
  <2>1. CASE Refuse(r) \/ Intend(r) \/ Conclude(r)
    <3>1. r.kind = "command"
      BY <1>0, <2>1 DEF Refuse, Intend, Conclude, Sound
    <3>2. r.id \in 1..Commands
      BY <1>0, <3>1 DEF Counted
    <3>3. journal' = Append(journal, r.id) /\ gate' \in {gate, 0, r.id}
      BY <2>1 DEF Refuse, Intend, Conclude
    <3> QED
      BY <1>0, <3>2, <3>3
  <2>2. CASE Forbid(r) \/ ReadTargets(r, enabled) \/ ReadJournal(r) \/ Operate(r)
    BY <1>0, <2>2 DEF Forbid, ReadTargets, ReadJournal, Operate
  <2> QED
    BY <2>1, <2>2 DEF Serve
<1> QED
  BY <1>0, <1>a, <1>1, <1>2, <1>3, NumberedStep

\* A new process of the service has a new token.
LEMMA RestartIsNumbered ==
    ASSUME Honest, Numbered, scene' = scene, Restart
    PROVE  Numbered'
<1>0. /\ left \in Left /\ Commands \in Nat /\ Restarts \in Nat /\ session \in Int /\ session >= 1
      /\ left.commands \in 0..Commands /\ left.restarts \in 0..Restarts
      /\ session = 1 + (Restarts - left.restarts)
      /\ journal \in Seq(1..Commands) /\ gate \in 0..Commands
      /\ page.load \in Nat /\ page.session \in 0..session
      /\ page.load > 0 => page.session \in 1..session
      /\ page.picture # NoPicture => page.load > 0
      /\ \A r \in requests : r \in Fetch /\ Counted(r, session)
  BY NumberedSays
<1> DEFINE Ended(r) == [r EXCEPT !.step = IF @ = "answered" THEN @ ELSE "dead"]
<1>1. /\ session' = session + 1 /\ gate' = 0 /\ Spend("restarts")
      /\ requests' = {Ended(r) : r \in requests}
      /\ UNCHANGED <<journal, page>>
  BY DEF Restart
<1>2. left'.commands = left.commands /\ left'.restarts = left.restarts - 1 /\ left.restarts > 0
  BY <1>0, <1>1, SpentIs
<1>3. Commands' = Commands /\ Restarts' = Restarts
  BY DEF Commands, Restarts
<1>4. \A r \in requests : /\ Ended(r).kind = r.kind /\ Ended(r).session = r.session
                          /\ Ended(r).load = r.load /\ Ended(r).id = r.id
  BY <1>0 DEF Fetch
<1> HIDE DEF Ended
<1>5. \A r \in requests : Counted(Ended(r), session + 1)
  <2> SUFFICES ASSUME NEW r \in requests PROVE Counted(Ended(r), session + 1)
    OBVIOUS
  <2>1. Counted(r, session) /\ session \in Int
    BY <1>0
  <2>2. 1..session \subseteq 1..(session + 1)
    BY <2>1
  <2>3. r.session \in 1..(session + 1)
    BY <2>1, <2>2 DEF Counted
  <2> QED
    BY <1>4, <2>1, <2>3 DEF Counted
<1>6. (\A r \in requests : Counted(r, session))'
  BY <1>1, <1>3, <1>5 DEF Counted
<1>7. /\ left'.restarts \in 0..Restarts
      /\ session + 1 = 1 + (Restarts - left'.restarts)
      /\ page.session \in 0..(session + 1)
      /\ page.load > 0 => page.session \in 1..(session + 1)
  BY <1>0, <1>2
<1>8. scene' \in Scenes
  BY DEF Numbered
<1> QED
  BY <1>0, <1>1, <1>2, <1>3, <1>6, <1>7, <1>8 DEF Numbered

\* Every step keeps the bounds.
LEMMA NumberedNext == Honest /\ Numbered /\ [Next]_vars => Numbered'
<1> SUFFICES ASSUME Honest, Numbered, [Next]_vars PROVE Numbered'
  OBVIOUS
<1>0. scene' = scene
  BY DEF Next, PageStep, BenchStep, Reload, Probe, Cycle, Round, Paste, vars, benchVars
<1>1. CASE PageStep
  <2> DEFINE enabled == loaded.enabled /\ loaded.targets # <<>>
  <2>1. enabled \in BOOLEAN
    OBVIOUS
  <2>2. PageNext(enabled)
    BY <1>1 DEF PageStep
  <2> HIDE DEF enabled
  <2>3. CASE Load \/ Refresh \/ \E closed \in BOOLEAN : Send(closed) \/ ByHand(closed)
    BY <1>0, <2>3, PageIsNumbered
  <2>4. ASSUME NEW r \in requests, Serve(r, enabled) \/ Receive(r) \/ Lose(r) PROVE Numbered'
    BY <1>0, <2>1, <2>4, ServeIsNumbered, ReceiveIsNumbered
  <2> QED
    BY <2>2, <2>3, <2>4 DEF PageNext
<1>2. CASE Reload
  BY <1>0, <1>2, RestartIsNumbered DEF Reload
<1>3. CASE UNCHANGED pageVars
  <2>1. Commands' = Commands /\ Restarts' = Restarts
    BY <1>0 DEF Commands, Restarts
  <2> QED
    BY <1>0, <1>3, <2>1 DEF pageVars, Numbered, Counted
<1> QED
  BY <1>1, <1>2, <1>3 DEF Next, BenchStep, vars

\* Every variable has its type, and a surface that runs was started with a
\* configuration that is accepted (geopilot_control.py:196, configuration.py:444).
THEOREM InstallationTypeCorrect == Spec => []TypeOK
<1>1. Honest /\ Numbered /\ Bathed /\ Recorded => TypeOK
  <2> SUFFICES ASSUME Honest, Numbered, Bathed, Recorded PROVE TypeOK
    OBVIOUS
  <2>1. session \in 1..(1 + scene.budget.restarts)
    <3>1. Restarts \in Nat /\ left.restarts \in 0..Restarts /\ session = 1 + (Restarts - left.restarts)
      BY NumberedSays
    <3> HIDE DEF Restarts
    <3>2. session \in 1..(1 + Restarts)
      BY <3>1
    <3> QED
      BY <3>2 DEF Restarts
  <2>2. \A i \in DOMAIN coil : coil[i].closed \in BOOLEAN
    <3>1. \A i \in DOMAIN coil : coil[i] \in State
      BY DEF Honest, Shape
    <3> QED
      BY <3>1 DEF State
  <2>3. journal \in Seq(1..scene.budget.commands) /\ gate \in 0..scene.budget.commands
    BY DEF Numbered, Commands
  <2>4. page.inFlight \in BOOLEAN /\ page.session \in 0..session
    BY DEF Honest, Shape, Page, Numbered
  <2>5. \A r \in requests : r.kind \in {"state", "command"} /\ r.session \in 1..session
    BY DEF Numbered, Counted
  <2>6. \A i \in DOMAIN doc.probes : doc.probes[i].offset \in Int
    <3>1. \A i \in DOMAIN doc.probes : doc.probes[i] \in ProbeReads
      BY DEF Bathed
    <3> QED
      BY <3>1 DEF ProbeReads
  <2>7. loaded # Nothing => Accepted(loaded)
    BY DEF Recorded
  <2>8. \A d \in DOMAIN run : run[d] \in Seq(Int)
    BY DEF Bathed, Readings
  <2> QED
    BY <2>1, <2>2, <2>3, <2>4, <2>5, <2>6, <2>7, <2>8 DEF TypeOK
<1>2. Init => Honest /\ Numbered /\ Bathed /\ Recorded
  BY HonestInit, NumberedInit, BathedInit, RecordedInit
<1>3. Honest /\ Numbered /\ Bathed /\ Recorded /\ [Next]_vars
      => Honest' /\ Numbered' /\ Bathed' /\ Recorded'
  BY HonestNext, NumberedNext, BathedNext, RecordedNext
<1> QED
  BY <1>1, <1>2, <1>3, PTL DEF Spec

===============================================================================
