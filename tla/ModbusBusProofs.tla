--------------------------- MODULE ModbusBusProofs ---------------------------
(***************************************************************************)
(* Theorems about the shared segment of ModbusBus, for any processes, any  *)
(* requests, any faults and any number of them.                            *)
(***************************************************************************)
EXTENDS ModbusBus, FiniteSetTheorems, TLAPS

Byte == [frame: Frame, at: Nat]

\* Who asks for something, and who has read the head of a frame.
Occupied ==
    \A c \in Clients : /\ pc[c] \in Exchange \cup {"locking"} => asked[c] \in Requests
                       /\ pc[c] = "body" => head[c] \in Frame
                       /\ pc[c] = "echo" => Asks[asked[c]].kind = "coil"

Typing == TypeOK /\ Occupied

-------------------------------------------------------------------------------
(***************************************************************************)
(* Frames and their bytes.                                                 *)
(***************************************************************************)

\* No frame is shorter than five bytes, and an echo has eight or is an exception.
LEMMA LengthIs ==
    ASSUME NEW f \in Frame
    PROVE  /\ Length(f) \in Nat /\ Length(f) >= 5
           /\ Asks[f.of].kind = "coil" => Length(f) = IF f.form = "exception" THEN 5 ELSE 8
<1>1. /\ f.of \in Requests /\ Asks[f.of].quantity \in Nat
      /\ Asks[f.of].kind \in {"registers", "bits", "coil"}
  BY BusAssumption DEF Frame, Kinds
<1> DEFINE q == Asks[f.of].quantity
           bits == (q + 7) \div 8
<1>2. bits \in Nat
  BY <1>1
<1> HIDE DEF q, bits
<1>3. CASE f.form = "exception"
  BY <1>3 DEF Length
<1>4. CASE f.form # "exception" /\ Asks[f.of].kind = "registers"
  BY <1>1, <1>4 DEF Length, q
<1>5. CASE f.form # "exception" /\ Asks[f.of].kind = "bits"
  <2>1. Length(f) = 5 + bits
    BY <1>5 DEF Length, bits, q
  <2> QED
    BY <1>2, <1>5, <2>1
<1>6. CASE f.form # "exception" /\ Asks[f.of].kind = "coil"
  BY <1>6 DEF Length
<1> QED
  BY <1>1, <1>3, <1>4, <1>5, <1>6

\* What the bytes of a part of a frame are.
LEMMA BytesAre ==
    ASSUME NEW f \in Frame, NEW a \in Nat, a >= 1, NEW b \in Nat, b >= a - 1
    PROVE  /\ Bytes(f, a, b) \in Seq(Byte)
           /\ Len(Bytes(f, a, b)) = b - a + 1
           /\ \A i \in 1..(b - a + 1) : Bytes(f, a, b)[i] = [frame |-> f, at |-> a + i - 1]
<1> DEFINE n == b - a + 1
<1>1. n \in Nat
  OBVIOUS
<1>2. \A i \in 1..n : [frame |-> f, at |-> a + i - 1] \in Byte
  BY DEF Byte
<1>3. Bytes(f, a, b) = [i \in 1..n |-> [frame |-> f, at |-> a + i - 1]]
  BY DEF Bytes
<1> HIDE DEF n
<1> QED
  BY <1>1, <1>2, <1>3 DEF n

\* Two sequences of the same elements are the same.
LEMMA SameSeq ==
    ASSUME NEW S, NEW s \in Seq(S), NEW t \in Seq(S), Len(s) = Len(t),
           \A i \in 1..Len(s) : s[i] = t[i]
    PROVE  s = t
OBVIOUS

\* A frame cut in two.
LEMMA BytesCut ==
    ASSUME NEW f \in Frame, NEW a \in Nat, a >= 1, NEW b \in Nat, b >= a - 1,
           NEW n \in Nat, n <= b - a + 1
    PROVE  /\ SubSeq(Bytes(f, a, b), 1, n) = Bytes(f, a, a + n - 1)
           /\ SubSeq(Bytes(f, a, b), n + 1, Len(Bytes(f, a, b))) = Bytes(f, a + n, b)
<1> DEFINE s == Bytes(f, a, b)
           m == b - a + 1
<1>1. /\ s \in Seq(Byte) /\ Len(s) = m /\ m \in Nat
      /\ \A i \in 1..m : s[i] = [frame |-> f, at |-> a + i - 1]
  BY BytesAre
<1> DEFINE head3 == Bytes(f, a, a + n - 1)
           rest  == Bytes(f, a + n, b)
<1>2. /\ head3 \in Seq(Byte) /\ Len(head3) = n
      /\ \A i \in 1..n : head3[i] = [frame |-> f, at |-> a + i - 1]
  <2>1. a + n - 1 \in Nat /\ a + n - 1 >= a - 1 /\ (a + n - 1) - a + 1 = n
    OBVIOUS
  <2> QED
    BY <2>1, BytesAre
<1>3. /\ rest \in Seq(Byte) /\ Len(rest) = m - n
      /\ \A i \in 1..(m - n) : rest[i] = [frame |-> f, at |-> (a + n) + i - 1]
  <2>1. a + n \in Nat /\ a + n >= 1 /\ b >= (a + n) - 1 /\ b - (a + n) + 1 = m - n
    OBVIOUS
  <2> QED
    BY <2>1, BytesAre
<1> HIDE DEF s, head3, rest, m
<1>4. SubSeq(s, 1, n) = head3
  <2>0. n <= m
    BY DEF m
  <2>1. /\ SubSeq(s, 1, n) \in Seq(Byte) /\ Len(SubSeq(s, 1, n)) = n
        /\ \A i \in 1..n : SubSeq(s, 1, n)[i] = s[i]
    BY <1>1, <2>0
  <2>2. \A i \in 1..n : SubSeq(s, 1, n)[i] = head3[i]
    BY <1>1, <1>2, <2>0, <2>1
  <2> QED
    BY <1>2, <2>1, <2>2, SameSeq
<1>5. SubSeq(s, n + 1, m) = rest
  <2>0. n <= m
    BY DEF m
  <2>1. /\ SubSeq(s, n + 1, m) \in Seq(Byte) /\ Len(SubSeq(s, n + 1, m)) = m - n
        /\ \A i \in 1..(m - n) : SubSeq(s, n + 1, m)[i] = s[n + i]
    BY <1>1, <2>0
  <2>2. \A i \in 1..(m - n) : SubSeq(s, n + 1, m)[i] = rest[i]
    <3> SUFFICES ASSUME NEW i \in 1..(m - n) PROVE SubSeq(s, n + 1, m)[i] = rest[i]
      OBVIOUS
    <3>1. n + i \in 1..m /\ a + (n + i) - 1 = (a + n) + i - 1
      BY <1>1, <2>0
    <3> QED
      BY <1>1, <1>3, <2>1, <3>1
  <2> QED
    BY <1>3, <2>1, <2>2, SameSeq
<1> QED
  BY <1>1, <1>4, <1>5 DEF s, head3, rest

\* A whole frame, its head of three bytes, and what is left of its parts when they are read.
LEMMA WholeFrame ==
    ASSUME NEW f \in Frame
    PROVE  /\ Length(f) \in Nat /\ Length(f) >= 5
           /\ Bytes(f, 1, Length(f)) \in Seq(Byte)
           /\ Len(Bytes(f, 1, Length(f))) = Length(f)
           /\ \A i \in 1..Length(f) : Bytes(f, 1, Length(f))[i] = [frame |-> f, at |-> i]
           /\ Bytes(f, 1, Length(f))[1].frame = f
           /\ SubSeq(Bytes(f, 1, Length(f)), 1, 3) = Bytes(f, 1, 3)
           /\ SubSeq(Bytes(f, 1, Length(f)), 4, Length(f)) = Bytes(f, 4, Length(f))
           /\ SubSeq(Bytes(f, 1, Length(f)), Length(f) + 1, Length(f)) = <<>>
           /\ Len(Bytes(f, 4, Length(f))) = Length(f) - 3
           /\ SubSeq(Bytes(f, 4, Length(f)), Length(f) - 2, Length(f) - 3) = <<>>
<1>1. \E n \in Nat : n = Length(f) /\ n >= 5
  BY LengthIs
<1>2. PICK n \in Nat : n = Length(f) /\ n >= 5
  BY <1>1
<1> DEFINE s == Bytes(f, 1, n)
           t == Bytes(f, 4, n)
<1>3. /\ s \in Seq(Byte) /\ Len(s) = n
      /\ \A i \in 1..n : s[i] = [frame |-> f, at |-> i]
  <2>1. n - 1 + 1 = n /\ n >= 1 - 1 /\ \A i \in 1..n : 1 + i - 1 = i
    BY <1>2
  <2>2. /\ s \in Seq(Byte) /\ Len(s) = n - 1 + 1
        /\ \A i \in 1..(n - 1 + 1) : s[i] = [frame |-> f, at |-> 1 + i - 1]
    BY <2>1, BytesAre
  <2> QED
    BY <2>1, <2>2
<1>4. t \in Seq(Byte) /\ Len(t) = n - 3
  <2>1. n - 4 + 1 = n - 3 /\ n >= 4 - 1 /\ 4 \in Nat /\ 4 >= 1
    BY <1>2
  <2>2. t \in Seq(Byte) /\ Len(t) = n - 4 + 1
    BY <2>1, BytesAre
  <2> QED
    BY <2>1, <2>2
<1>5. SubSeq(s, 1, 3) = Bytes(f, 1, 3) /\ SubSeq(s, 4, n) = t
  <2>1. 3 <= n - 1 + 1 /\ n >= 1 - 1 /\ 1 >= 1 /\ 1 \in Nat /\ 3 \in Nat /\ 1 + 3 - 1 = 3 /\ 3 + 1 = 4 /\ 1 + 3 = 4
    BY <1>2
  <2>2. SubSeq(s, 1, 3) = Bytes(f, 1, 1 + 3 - 1) /\ SubSeq(s, 3 + 1, Len(s)) = Bytes(f, 1 + 3, n)
    BY <2>1, BytesCut
  <2> QED
    BY <1>3, <2>1, <2>2
<1> HIDE DEF s, t
<1>6. SubSeq(s, n + 1, n) = <<>> /\ SubSeq(t, n - 2, n - 3) = <<>>
  BY <1>2, <1>3, <1>4
<1>7. s[1].frame = f
  BY <1>2, <1>3
<1> QED
  BY <1>2, <1>3, <1>4, <1>5, <1>6, <1>7 DEF s, t

\* What a read takes, and what it leaves, are bytes.
LEMMA Taken ==
    ASSUME NEW s \in Seq(Byte), NEW n \in Nat, Len(s) >= n
    PROVE  SubSeq(s, n + 1, Len(s)) \in Seq(Byte)
OBVIOUS

\* What is still to come is an end of what was there.
LEMMA LeftOver ==
    ASSUME line \in Seq(Byte), NEW n \in 0..Len(line), Leave(n)
    PROVE  /\ line' \in Seq(Byte) /\ Len(line') = n
           /\ n > 0 => line'[1].at > 1 /\ line'[1].frame = line[Len(line)].frame
           /\ n = 0 => line' = <<>>
           /\ n = Len(line) => line' = line
           /\ \E m \in 0..Len(line) : line' = SubSeq(line, m + 1, Len(line))
<1> DEFINE m == Len(line) - n
           rest == SubSeq(line, m + 1, Len(line))
<1>1. m \in Nat /\ Len(line) >= m /\ line' = rest
  BY DEF Leave
<1>2. rest \in Seq(Byte) /\ Len(rest) = n
  BY <1>1
<1>3. n > 0 => rest[1] = line[m + 1]
  BY <1>1
<1>4. n > 0 => line[m + 1].at > 1 /\ line[m + 1].frame = line[Len(line)].frame
  BY DEF Leave
<1>5. n = 0 => rest = <<>>
  BY <1>2
<1>6. n = Len(line) => rest = line
  BY <1>1
<1>7. m \in 0..Len(line)
  BY <1>1
<1> HIDE DEF m
<1> QED
  BY <1>1, <1>2, <1>3, <1>4, <1>5, <1>6, <1>7

\* Opening the port takes all, or taints, or leaves a buffer that starts inside a frame.
LEMMA Discarded ==
    ASSUME line \in Seq(Byte), tainted \in BOOLEAN, Discard
    PROVE  /\ line' \in Seq(Byte) /\ tainted' \in BOOLEAN /\ (tainted => tainted')
           /\ tainted' \/ line' = <<>> \/ (line' = line /\ line[1].at > 1)
<1>1. PICK n \in 0..Len(line) : /\ Leave(n)
                               /\ tainted' = (tainted \/ line' \notin {<<>>, line})
  BY DEF Discard
<1>2. line' \in Seq(Byte) /\ (n > 0 => line'[1].at > 1) /\ (n = 0 => line' = <<>>)
  BY <1>1, LeftOver
<1>3. CASE line' \notin {<<>>, line}
  BY <1>1, <1>2, <1>3
<1>4. CASE line' \in {<<>>, line}
  <2>1. tainted' = tainted
    BY <1>1, <1>4
  <2>2. line' = <<>> \/ (line' = line /\ line[1].at > 1)
    BY <1>2, <1>4
  <2> QED
    BY <1>2, <2>1, <2>2
<1> QED
  BY <1>3, <1>4

-------------------------------------------------------------------------------
(***************************************************************************)
(* Type correctness.                                                       *)
(***************************************************************************)

Outcomes == {"unasked", "pending", "answered", "failed", "lost"}

\* The end of an exchange.
LEMMA Finished ==
    ASSUME Typing, NEW c \in Clients, asked[c] \in Requests,
           NEW said \in {"answered", "failed"}, Finish(c, said)
    PROVE  /\ pc' \in [Clients -> Controls] /\ pc'[c] = "idle"
           /\ asked' \in [Clients -> Requests \cup {NoRequest}]
           /\ head' \in [Clients -> Frame \cup {NoFrame}]
           /\ holder' \in Clients \cup {NoClient}
           /\ outcome' \in [Requests -> Outcomes]
           /\ \A d \in Clients \ {c} : pc'[d] = pc[d] /\ asked'[d] = asked[d] /\ head'[d] = head[d]
           /\ Occupied'
<1>1. /\ pc' \in [Clients -> Controls] /\ pc'[c] = "idle"
      /\ asked' \in [Clients -> Requests \cup {NoRequest}]
      /\ head' \in [Clients -> Frame \cup {NoFrame}]
      /\ \A d \in Clients \ {c} : pc'[d] = pc[d] /\ asked'[d] = asked[d] /\ head'[d] = head[d]
  BY DEF Typing, TypeOK, Finish, Controls
<1>2. holder' \in Clients \cup {NoClient}
  BY DEF Typing, TypeOK, Finish
<1>3. outcome' \in [Requests -> Outcomes]
  BY DEF Typing, TypeOK, Finish, Outcomes
<1>4. Occupied'
  BY <1>1 DEF Typing, Occupied, Exchange, Reading
<1> QED
  BY <1>1, <1>2, <1>3, <1>4

\* A fault is counted.
LEMMA Struck ==
    ASSUME strikes \in 0..MaxStrikes, NEW kind, Strike(kind)
    PROVE  strikes' \in 0..MaxStrikes
BY BusAssumption DEF Strike

\* A request that begins.
LEMMA AskTyped ==
    ASSUME Typing, NEW c \in Clients, NEW r \in Requests,
           Ask(c, r) \/ AskOpening(c, r) \/ CannotOpen(c, r)
    PROVE  Typing'
<1>1. CASE Ask(c, r)
  <2>1. TypeOK'
    BY <1>1 DEF Ask, Typing, TypeOK, locking, bus, history, Controls
  <2>2. Occupied'
    BY <1>1 DEF Ask, Typing, TypeOK, Occupied, Exchange, Reading
  <2> QED
    BY <2>1, <2>2 DEF Typing
<1>2. CASE AskOpening(c, r)
  <2>1. line' \in Seq(Byte) /\ tainted' \in BOOLEAN
    BY <1>2, Discarded DEF AskOpening, Typing, TypeOK, Byte
  <2>2. /\ descriptors' \in [Clients -> 0..Descriptors] /\ active' \in [Clients -> BOOLEAN]
        /\ strikes' \in 0..MaxStrikes
    <3>1. OpenLock(c) /\ strikes \in 0..MaxStrikes /\ Descriptors \in Nat
      BY <1>2, BusAssumption DEF AskOpening, Typing, TypeOK
    <3>2. active' \in [Clients -> BOOLEAN]
      BY <3>1 DEF OpenLock, Typing, TypeOK
    <3>4. descriptors' \in [Clients -> 0..Descriptors]
      <4>1. descriptors \in [Clients -> 0..Descriptors]
        BY DEF Typing, TypeOK
      <4>2. CASE UNCHANGED descriptors
        BY <4>1, <4>2
      <4>3. CASE descriptors[c] < Descriptors
                 /\ descriptors' = [descriptors EXCEPT ![c] = descriptors[c] + 1]
        <5>1. descriptors[c] + 1 \in 0..Descriptors
          BY <3>1, <4>1, <4>3
        <5> QED
          BY <4>1, <4>3, <5>1
      <4> QED
        BY <3>1, <4>2, <4>3 DEF OpenLock
    <3>3. strikes' \in 0..MaxStrikes
      BY <3>1, Struck DEF OpenLock
    <3> QED
      BY <3>2, <3>3, <3>4
  <2>3. TypeOK'
    BY <1>2, <2>1, <2>2 DEF AskOpening, Typing, TypeOK, Controls, Byte
  <2>4. Occupied'
    BY <1>2 DEF AskOpening, Typing, TypeOK, Occupied, Exchange, Reading
  <2> QED
    BY <2>3, <2>4 DEF Typing
<1>3. CASE CannotOpen(c, r)
  <2>1. strikes' \in 0..MaxStrikes
    BY <1>3, Struck DEF CannotOpen, Typing, TypeOK
  <2>2. TypeOK'
    BY <1>3, <2>1 DEF CannotOpen, Typing, TypeOK, local, locking, bus, history
  <2>3. Occupied'
    BY <1>3 DEF CannotOpen, Typing, Occupied, local
  <2> QED
    BY <2>2, <2>3 DEF Typing
<1> QED
  BY <1>1, <1>2, <1>3

\* The lock, and the way to the wire.
LEMMA LockTyped ==
    ASSUME Typing, NEW c \in Clients,
           TakeLock(c) \/ GoUncoordinated(c) \/ GiveUp(c) \/ Send(c) \/ CannotSend(c)
    PROVE  Typing'
<1>1. CASE TakeLock(c) \/ GoUncoordinated(c)
  <2>1. TypeOK'
    BY <1>1 DEF TakeLock, GoUncoordinated, Typing, TypeOK, locking, bus, results, history,
                Controls, Exchange
  <2>2. Occupied'
    BY <1>1 DEF TakeLock, GoUncoordinated, Typing, TypeOK, Occupied, Exchange, Reading
  <2> QED
    BY <2>1, <2>2 DEF Typing
<1>2. CASE GiveUp(c)
  <2>1. Finish(c, "failed") /\ asked[c] \in Requests
    BY <1>2 DEF GiveUp, Fail, Typing, Occupied
  <2>2. UNCHANGED <<active, descriptors, bus, strikes, history, source>>
    BY <1>2 DEF GiveUp, Fail
  <2>3. TypeOK'
    BY <2>1, <2>2, Finished DEF Typing, TypeOK, bus, history, Outcomes
  <2> QED
    BY <2>1, <2>3, Finished DEF Typing
<1>3. CASE Send(c)
  <2>1. asked[c] \in Requests
    BY <1>3 DEF Send, Typing, Occupied, Exchange
  <2>2. wire' \in Seq(Requests) /\ pc' \in [Clients -> Controls]
    BY <1>3, <2>1 DEF Send, Typing, TypeOK, Controls, Exchange, Reading
  <2>3. TypeOK'
    BY <1>3, <2>2 DEF Send, Typing, TypeOK, locking, results, history
  <2>4. Occupied'
    BY <1>3, <2>1 DEF Send, Typing, TypeOK, Occupied, Exchange, Reading
  <2> QED
    BY <2>3, <2>4 DEF Typing
<1>4. CASE CannotSend(c)
  <2>1. Finish(c, "failed") /\ asked[c] \in Requests
    BY <1>4 DEF CannotSend, Fail, Typing, Occupied, Exchange
  <2>2. UNCHANGED <<active, descriptors, bus, history, source>> /\ strikes' \in 0..MaxStrikes
    BY <1>4, Struck DEF CannotSend, Fail, Typing, TypeOK
  <2>3. TypeOK'
    BY <2>1, <2>2, Finished DEF Typing, TypeOK, bus, history, Outcomes
  <2> QED
    BY <2>1, <2>3, Finished DEF Typing
<1> QED
  BY <1>1, <1>2, <1>3, <1>4

\* The ends of a read: the source of an answer is a request, whatever was in the buffer.
LEMMA ReadTyped ==
    ASSUME Typing, NEW c \in Clients,
           ReadHeader(c) \/ ReadBody(c) \/ ReadEcho(c) \/ TimeOut(c) \/ CannotRead(c)
    PROVE  Typing'
<1>0. /\ asked[c] \in Requests /\ line \in Seq(Byte) /\ pc[c] \in Reading
      /\ source \in [Requests -> Requests \cup {NoRequest}]
  BY DEF ReadHeader, ReadBody, ReadEcho, TimeOut, CannotRead, Typing, TypeOK, Occupied, Exchange,
         Reading, Byte
<1>1. ASSUME line' \in Seq(Byte), strikes' \in 0..MaxStrikes, tainted' \in BOOLEAN,
             UNCHANGED <<active, descriptors, wire, carried, uncoordinated>>,
             \/ Fail(c)
             \/ \E f \in Frame : Answered(c, f)
      PROVE  Typing'
  <2>1. PICK said \in {"answered", "failed"} : Finish(c, said)
    BY <1>1 DEF Fail, Answered
  <2>2. source' \in [Requests -> Requests \cup {NoRequest}]
    BY <1>0, <1>1 DEF Fail, Answered, Frame
  <2>3. TypeOK'
    BY <1>0, <1>1, <2>1, <2>2, Finished DEF Typing, TypeOK, Outcomes, Byte
  <2> QED
    BY <1>0, <2>1, <2>3, Finished DEF Typing
<1>2. \A n \in Nat : Take(n) => line' \in Seq(Byte)
  BY <1>0, Taken DEF Take
<1>3. \A n \in Nat : Take(n) /\ n > 0 => line[1].frame \in Frame
  <2> SUFFICES ASSUME NEW n \in Nat, Take(n), n > 0 PROVE line[1].frame \in Frame
    OBVIOUS
  <2>1. line[1] \in Byte
    BY <1>0 DEF Take
  <2> QED
    BY <2>1 DEF Byte
<1>4. CASE ReadHeader(c)
  <2> DEFINE f == line[1].frame
  <2>1. line' \in Seq(Byte) /\ f \in Frame
    BY <1>2, <1>3, <1>4 DEF ReadHeader
  <2> HIDE DEF f
  <2>2. CASE Fail(c)
    BY <1>1, <1>4, <2>1, <2>2 DEF ReadHeader, Typing, TypeOK, history
  <2>3. CASE ~Fail(c)
    <3>1. /\ head' = [head EXCEPT ![c] = f]
          /\ pc' = [pc EXCEPT ![c] = "body"]
          /\ UNCHANGED <<asked, holder, results>>
          /\ UNCHANGED <<active, descriptors, wire, strikes, history>>
      BY <1>4, <2>3 DEF ReadHeader, f
    <3>2. TypeOK'
      BY <2>1, <3>1 DEF Typing, TypeOK, results, history, Controls, Exchange, Reading, Byte
    <3>3. Occupied'
      BY <1>0, <2>1, <3>1 DEF Typing, TypeOK, Occupied, Exchange, Reading
    <3> QED
      BY <3>2, <3>3 DEF Typing
  <2> QED
    BY <2>2, <2>3
<1>5. CASE ReadBody(c)
  <2>1. head[c] \in Frame
    BY <1>5 DEF ReadBody, Typing, Occupied
  <2>2. Length(head[c]) - 3 \in Nat
    BY <2>1, LengthIs
  <2>3. line' \in Seq(Byte)
    BY <1>2, <1>5, <2>2 DEF ReadBody
  <2>4. Fail(c) \/ Answered(c, head[c])
    BY <1>5 DEF ReadBody
  <2> QED
    BY <1>1, <1>5, <2>1, <2>3, <2>4 DEF ReadBody, Typing, TypeOK, history
<1>6. CASE ReadEcho(c)
  <2>1. line' \in Seq(Byte) /\ line[1].frame \in Frame
    BY <1>2, <1>3, <1>6 DEF ReadEcho
  <2>2. Fail(c) \/ Answered(c, line[1].frame)
    BY <1>6 DEF ReadEcho
  <2> QED
    BY <1>1, <1>6, <2>1, <2>2 DEF ReadEcho, Typing, TypeOK, history
<1>7. CASE TimeOut(c)
  <2>1. PICK n \in 0..Len(line) :
           /\ Leave(n)
           /\ (UNCHANGED <<strikes, tainted>>) \/ (Strike("late") /\ tainted' = TRUE)
    BY <1>7 DEF TimeOut
  <2>2. line' \in Seq(Byte) /\ Fail(c)
    BY <1>0, <1>7, <2>1, LeftOver DEF TimeOut
  <2>3. strikes' \in 0..MaxStrikes /\ tainted' \in BOOLEAN
    BY <2>1, Struck DEF Typing, TypeOK
  <2> QED
    BY <1>1, <1>7, <2>2, <2>3 DEF TimeOut
<1>8. CASE CannotRead(c)
  <2>1. strikes' \in 0..MaxStrikes
    BY <1>8, Struck DEF CannotRead, Typing, TypeOK
  <2> QED
    BY <1>0, <1>1, <1>8, <2>1 DEF CannotRead, bus
<1> QED
  BY <1>4, <1>5, <1>6, <1>7, <1>8

\* The devices, and the end and the start of a process.
LEMMA RestTyped ==
    ASSUME Typing, Device \/ \E c \in Clients : Crash(c) \/ Start(c)
    PROVE  Typing'
<1>1. CASE Reply
  <2>1. PICK form \in Forms :
          LET f == [of |-> Head(wire), form |-> form] IN
          /\ IF form = "answer" THEN UNCHANGED strikes ELSE Strike(form)
          /\ line' = line \o Bytes(f, 1, Length(f))
          /\ tainted' = (tainted \/ form = "header")
          /\ IF form = "exception" THEN UNCHANGED carried ELSE Obey(f.of)
    BY <1>1 DEF Reply
  <2> DEFINE f == [of |-> Head(wire), form |-> form]
  <2>2. Head(wire) \in Requests /\ wire' \in Seq(Requests)
    BY <1>1 DEF Reply, Typing, TypeOK
  <2>3. f \in Frame
    BY <2>2 DEF Frame
  <2> HIDE DEF f
  <2>4. Bytes(f, 1, Length(f)) \in Seq(Byte)
    BY <2>3, LengthIs, BytesAre
  <2>5. line' \in Seq(Byte)
    BY <2>1, <2>4 DEF Typing, TypeOK, Byte, f
  <2>6. strikes' \in 0..MaxStrikes
    BY <2>1, Struck DEF Typing, TypeOK
  <2>7. carried' \subseteq Requests
    BY <2>1 DEF Obey, Typing, TypeOK
  <2>8. TypeOK'
    BY <1>1, <2>1, <2>2, <2>5, <2>6, <2>7 DEF Reply, Typing, TypeOK, local, locking, results, Byte
  <2> QED
    BY <1>1, <2>8 DEF Reply, Typing, Occupied, local
<1>2. CASE StaySilent
  <2>1. wire' \in Seq(Requests)
    BY <1>2 DEF StaySilent, Typing, TypeOK
  <2>2. strikes' \in 0..MaxStrikes
    BY <1>2, Struck DEF StaySilent, Typing, TypeOK
  <2>3. carried' \subseteq Requests
    BY <1>2 DEF StaySilent, Obey, Typing, TypeOK
  <2>4. TypeOK'
    BY <1>2, <2>1, <2>2, <2>3 DEF StaySilent, Typing, TypeOK, local, locking, results
  <2> QED
    BY <1>2, <2>4 DEF StaySilent, Typing, Occupied, local
<1>3. ASSUME NEW c \in Clients, Crash(c) PROVE Typing'
  <2>1. strikes' \in 0..MaxStrikes
    BY <1>3, Struck DEF Crash, Typing, TypeOK
  <2>2. /\ pc' \in [Clients -> Controls] /\ asked' \in [Clients -> Requests \cup {NoRequest}]
        /\ head' \in [Clients -> Frame \cup {NoFrame}] /\ active' \in [Clients -> BOOLEAN]
    BY <1>3 DEF Crash, Typing, TypeOK, Controls
  <2>3. descriptors' \in [Clients -> 0..Descriptors] /\ holder' \in Clients \cup {NoClient}
    BY <1>3, BusAssumption DEF Crash, Typing, TypeOK
  <2>4. outcome' \in [Requests -> Outcomes] /\ tainted' \in BOOLEAN
    BY <1>3 DEF Crash, Typing, TypeOK, Outcomes
  <2>5. TypeOK'
    BY <1>3, <2>1, <2>2, <2>3, <2>4 DEF Crash, Typing, TypeOK, bus, Outcomes
  <2>6. Occupied'
    BY <1>3 DEF Crash, Typing, TypeOK, Occupied, Exchange, Reading
  <2> QED
    BY <2>5, <2>6 DEF Typing
<1>4. ASSUME NEW c \in Clients, Start(c) PROVE Typing'
  <2>1. strikes' \in 0..MaxStrikes /\ active' \in [Clients -> BOOLEAN]
    BY <1>4, Struck DEF Start, Typing, TypeOK
  <2>2. line' \in Seq(Byte) /\ tainted' \in BOOLEAN
    BY <1>4, Discarded DEF Start, Typing, TypeOK, Byte
  <2>3. TypeOK'
    BY <1>4, <2>1, <2>2 DEF Start, Typing, TypeOK, results, Controls, Byte
  <2>4. Occupied'
    BY <1>4 DEF Start, Typing, TypeOK, Occupied, Exchange, Reading
  <2> QED
    BY <2>3, <2>4 DEF Typing
<1> QED
  BY <1>1, <1>2, <1>3, <1>4 DEF Device

\* Before anything is asked, everything has its type.
LEMMA TypingInit == Init => Typing
<1> SUFFICES ASSUME Init PROVE Typing
  OBVIOUS
<1>1. 0 \in 0..Descriptors /\ 0 \in 0..MaxStrikes
  BY BusAssumption
<1>2. descriptors \in [Clients -> 0..Descriptors] /\ strikes \in 0..MaxStrikes
  BY <1>1 DEF Init
<1>3. wire \in Seq(Requests) /\ line \in Seq(Byte)
  BY DEF Init
<1>4. TypeOK
  BY <1>2, <1>3 DEF Init, TypeOK, Byte, Controls
<1>5. Occupied
  BY DEF Init, Occupied, Exchange, Reading
<1> QED
  BY <1>4, <1>5 DEF Typing

\* Every step keeps the types.
LEMMA TypingNext == Typing /\ [Next]_vars => Typing'
<1> SUFFICES ASSUME Typing, [Next]_vars PROVE Typing'
  OBVIOUS
<1>1. CASE UNCHANGED vars
  BY <1>1 DEF vars, local, locking, bus, results, history, Typing, TypeOK, Occupied
<1> QED
  BY <1>1, AskTyped, LockTyped, ReadTyped, RestTyped DEF Next, Proceed

\* Every variable of the bus has its type, for any processes, requests and faults.
THEOREM TypeCorrect == Spec => []TypeOK
<1>1. Typing => TypeOK
  BY DEF Typing
<1> QED
  BY <1>1, TypingInit, TypingNext, PTL DEF Spec

-------------------------------------------------------------------------------
(***************************************************************************)
(* The order of exchanges.  As long as the lock is used and no byte comes  *)
(* after the end of its exchange, whoever is in an exchange holds the      *)
(* lock, and what is on the wire and in the buffer is what that exchange   *)
(* is waiting for.                                                         *)
(***************************************************************************)

Quiet == wire = <<>> /\ line = <<>>

\* The whole undamaged answer to what c asked, or nothing.
Whole(c) ==
    \/ line = <<>>
    \/ \E form \in Forms \ {"header"} :
          LET f == [of |-> asked[c], form |-> form] IN line = Bytes(f, 1, Length(f))

Turn(c) ==
    /\ pc[c] = "sending" => Quiet
    /\ pc[c] \in {"header", "echo"} => \/ wire = <<asked[c]>> /\ line = <<>>
                                       \/ wire = <<>> /\ Whole(c)
    /\ pc[c] = "body" => /\ wire = <<>> /\ head[c].of = asked[c]
                         /\ line \in {<<>>, Bytes(head[c], 4, Length(head[c]))}

Orderly ==
    /\ \A c \in Clients : pc[c] \in Exchange => holder = c
    /\ holder = NoClient => Quiet
    /\ \A c \in Clients : Turn(c)
    /\ \A r \in Requests : ~Foreign(r)

Held == \A c \in Clients : holder = c => pc[c] \in Exchange

Settled == uncoordinated \/ tainted \/ Orderly

Order == Typing /\ Held /\ Settled

\* Only who is in an exchange holds the lock, with or without faults.
LEMMA HeldNext == Typing /\ Held /\ [Next]_vars => Held'
<1> SUFFICES ASSUME Typing, Held, [Next]_vars PROVE Held'
  OBVIOUS
<1>0. NoClient \notin Clients /\ pc \in [Clients -> Controls]
  BY BusAssumption DEF Typing, TypeOK
<1>1. ASSUME NEW c \in Clients, NEW said, Finish(c, said) PROVE Held'
  BY <1>0, <1>1 DEF Finish, Held
<1>2. ASSUME NEW c \in Clients, NEW r \in Requests,
             Ask(c, r) \/ AskOpening(c, r) \/ CannotOpen(c, r)
      PROVE  Held'
  BY <1>0, <1>2 DEF Ask, AskOpening, CannotOpen, Held, Exchange, Reading, locking, local
<1>3. ASSUME NEW c \in Clients, Proceed(c) PROVE Held'
  <2>1. CASE TakeLock(c) \/ GoUncoordinated(c) \/ Send(c)
    BY <1>0, <2>1 DEF TakeLock, GoUncoordinated, Send, Held, Exchange, Reading, locking
  <2>2. CASE GiveUp(c) \/ CannotSend(c) \/ ReadBody(c) \/ ReadEcho(c) \/ TimeOut(c) \/ CannotRead(c)
    BY <1>1, <2>2 DEF GiveUp, CannotSend, ReadBody, ReadEcho, TimeOut, CannotRead, Fail, Answered
  <2>3. CASE ReadHeader(c)
    <3>1. CASE Fail(c)
      BY <1>1, <3>1 DEF Fail
    <3>2. CASE ~Fail(c)
      <4>1. UNCHANGED holder /\ pc' = [pc EXCEPT ![c] = "body"]
        BY <2>3, <3>2 DEF ReadHeader
      <4> QED
        BY <1>0, <4>1 DEF Held, Exchange, Reading
    <3> QED
      BY <3>1, <3>2
  <2> QED
    BY <1>3, <2>1, <2>2, <2>3 DEF Proceed
<1>4. ASSUME NEW c \in Clients, Crash(c) \/ Start(c) PROVE Held'
  BY <1>0, <1>4 DEF Crash, Start, Held, Exchange, Reading
<1>5. CASE Device \/ UNCHANGED vars
  BY <1>5 DEF Device, Reply, StaySilent, Held, local, locking, vars
<1> QED
  BY <1>2, <1>3, <1>4, <1>5 DEF Next

\* An exchange that ends with its answer, or without one, leaves the segment quiet.
LEMMA EndsOrderly ==
    ASSUME Typing, Held, Orderly, NEW c \in Clients, pc[c] \in Exchange, Quiet',
           \/ Fail(c)
           \/ \E f \in Frame : f.of = asked[c] /\ Answered(c, f)
    PROVE  Orderly'
<1>1. /\ holder = c /\ pc \in [Clients -> Controls] /\ asked[c] \in Requests
      /\ outcome \in [Requests -> Outcomes] /\ source \in [Requests -> Requests \cup {NoRequest}]
  BY DEF Orderly, Typing, TypeOK, Occupied, Outcomes
<1>2. PICK said \in {"answered", "failed"} : Finish(c, said)
  BY DEF Fail, Answered
<1>3. \A d \in Clients : pc'[d] \notin Exchange
  <2>1. \A d \in Clients \ {c} : pc[d] \notin Exchange
    BY <1>1 DEF Orderly
  <2> QED
    BY <1>1, <1>2, <2>1 DEF Finish, Exchange, Reading
<1>4. \A d \in Clients : Turn(d)'
  BY <1>3 DEF Turn, Exchange, Reading
<1>5. \A r \in Requests : ~Foreign(r)'
  <2>1. CASE Fail(c)
    BY <1>1, <2>1 DEF Fail, Finish, Foreign, Orderly
  <2>2. ASSUME NEW f \in Frame, f.of = asked[c], Answered(c, f)
        PROVE  \A r \in Requests : ~Foreign(r)'
    BY <1>1, <2>2 DEF Answered, Finish, Foreign, Orderly
  <2> QED
    BY <2>1, <2>2
<1> QED
  BY <1>3, <1>4, <1>5 DEF Orderly

\* A step beside the exchange, if there is one: perhaps the buffer is emptied.
LEMMA AsideOrderly ==
    ASSUME Typing, Orderly, UNCHANGED <<holder, wire>>, line' \in {<<>>, line},
           \A c \in Clients : \/ pc'[c] \notin Exchange
                              \/ pc'[c] = pc[c] /\ asked'[c] = asked[c] /\ head'[c] = head[c],
           \A r \in Requests : ~Foreign(r)'
    PROVE  Orderly'
<1>1. \A c \in Clients : pc'[c] \in Exchange => holder' = c
  BY DEF Orderly
<1>2. holder' = NoClient => Quiet'
  BY DEF Orderly, Quiet
<1>3. ASSUME NEW c \in Clients PROVE Turn(c)'
  <2>1. CASE pc'[c] \notin Exchange
    BY <2>1 DEF Turn, Exchange, Reading
  <2>2. CASE pc'[c] = pc[c] /\ asked'[c] = asked[c] /\ head'[c] = head[c]
    <3>1. Turn(c)
      BY DEF Orderly
    <3>2. CASE line' = line
      BY <2>2, <3>1, <3>2 DEF Turn, Quiet, Whole
    <3>3. CASE line' = <<>>
      BY <2>2, <3>1, <3>3 DEF Turn, Quiet, Whole
    <3> QED
      BY <3>2, <3>3
  <2> QED
    BY <2>1, <2>2
<1> QED
  BY <1>1, <1>2, <1>3 DEF Orderly

\* A request that begins, or cannot.
LEMMA AskOrderly ==
    ASSUME Typing, Held, Orderly, ~tainted', NEW c \in Clients, NEW r \in Requests,
           Ask(c, r) \/ AskOpening(c, r) \/ CannotOpen(c, r)
    PROVE  Orderly'
<1>1. /\ pc \in [Clients -> Controls] /\ asked \in [Clients -> Requests \cup {NoRequest}]
      /\ outcome \in [Requests -> Outcomes] /\ line \in Seq(Byte) /\ tainted \in BOOLEAN
  BY DEF Typing, TypeOK, Outcomes, Byte
<1>2. line' \in {<<>>, line} /\ UNCHANGED <<holder, wire, source>>
  BY <1>1, Discarded DEF Ask, AskOpening, CannotOpen, locking, bus
<1>3. \A d \in Clients : \/ pc'[d] \notin Exchange
                         \/ pc'[d] = pc[d] /\ asked'[d] = asked[d] /\ head'[d] = head[d]
  BY <1>1 DEF Ask, AskOpening, CannotOpen, local, Exchange, Reading
<1>4. \A q \in Requests : ~Foreign(q)'
  BY <1>1, <1>2 DEF Ask, AskOpening, CannotOpen, Foreign, Orderly
<1> QED
  BY <1>2, <1>3, <1>4, AsideOrderly

\* The lock is taken on a quiet segment, and given up without a trace.
LEMMA LockOrderly ==
    ASSUME Typing, Held, Orderly, ~uncoordinated', NEW c \in Clients,
           TakeLock(c) \/ GoUncoordinated(c) \/ GiveUp(c) \/ Send(c) \/ CannotSend(c)
    PROVE  Orderly'
<1>0. /\ pc \in [Clients -> Controls] /\ asked \in [Clients -> Requests \cup {NoRequest}]
      /\ outcome \in [Requests -> Outcomes] /\ NoClient \notin Clients
      /\ wire \in Seq(Requests)
  BY BusAssumption DEF Typing, TypeOK, Outcomes
<1>1. CASE TakeLock(c)
  <2>1. /\ holder = NoClient /\ holder' = c /\ pc' = [pc EXCEPT ![c] = "sending"]
        /\ UNCHANGED <<asked, head, wire, line, outcome, source>>
    BY <1>1 DEF TakeLock, bus, results
  <2>2. Quiet /\ \A d \in Clients : pc[d] \notin Exchange
    BY <1>0, <2>1 DEF Orderly
  <2>3. \A d \in Clients \ {c} : pc'[d] \notin Exchange
    BY <1>0, <2>1, <2>2
  <2>4. \A d \in Clients : Turn(d)'
    BY <1>0, <2>1, <2>2, <2>3 DEF Turn, Exchange, Reading, Quiet
  <2>5. \A r \in Requests : ~Foreign(r)'
    BY <2>1 DEF Foreign, Orderly
  <2> QED
    BY <1>0, <2>1, <2>3, <2>4, <2>5 DEF Orderly
<1>2. CASE GoUncoordinated(c)
  BY <1>2 DEF GoUncoordinated
<1>3. CASE GiveUp(c)
  <2>1. holder # c /\ asked[c] \in Requests
    BY <1>3 DEF GiveUp, Held, Exchange, Reading, Typing, Occupied
  <2>2. UNCHANGED <<holder, wire, line, source>>
    BY <1>3, <2>1 DEF GiveUp, Fail, Finish, bus
  <2>3. \A d \in Clients : \/ pc'[d] \notin Exchange
                           \/ pc'[d] = pc[d] /\ asked'[d] = asked[d] /\ head'[d] = head[d]
    BY <1>0, <1>3, <2>1, Finished DEF GiveUp, Fail, Exchange, Reading
  <2>4. \A r \in Requests : ~Foreign(r)'
    BY <1>0, <1>3, <2>1, <2>2 DEF GiveUp, Fail, Finish, Foreign, Orderly
  <2> QED
    BY <2>2, <2>3, <2>4, AsideOrderly
<1>4. CASE Send(c)
  <2>1. /\ wire' = Append(wire, asked[c]) /\ UNCHANGED <<asked, head, holder, line, outcome, source>>
        /\ pc[c] = "sending" /\ asked[c] \in Requests
        /\ pc' = [pc EXCEPT ![c] = IF Asks[asked[c]].kind = "coil" THEN "echo" ELSE "header"]
    BY <1>4 DEF Send, locking, results, Typing, Occupied, Exchange
  <2>2. Quiet /\ holder = c /\ \A d \in Clients \ {c} : pc[d] \notin Exchange
    BY <2>1 DEF Orderly, Turn, Exchange
  <2>3. wire' = <<asked[c]>> /\ line' = <<>>
    BY <2>1, <2>2 DEF Quiet
  <2>4. \A d \in Clients \ {c} : pc'[d] \notin Exchange
    BY <1>0, <2>1, <2>2
  <2>5. pc'[c] \in {"header", "echo"}
    BY <1>0, <2>1
  <2>6. \A d \in Clients : Turn(d)'
    BY <2>1, <2>3, <2>4, <2>5 DEF Turn, Exchange, Reading
  <2>7. \A r \in Requests : ~Foreign(r)'
    BY <2>1 DEF Foreign, Orderly
  <2> QED
    BY <1>0, <2>1, <2>2, <2>4, <2>6, <2>7 DEF Orderly
<1>5. CASE CannotSend(c)
  <2>1. pc[c] = "sending" /\ Fail(c) /\ UNCHANGED <<wire, line>>
    BY <1>5 DEF CannotSend, bus
  <2>2. Quiet
    BY <2>1 DEF Orderly, Turn
  <2>3. Quiet'
    BY <2>1, <2>2 DEF Quiet
  <2> QED
    BY <2>1, <2>3, EndsOrderly DEF Exchange
<1> QED
  BY <1>1, <1>2, <1>3, <1>4, <1>5

\* A read gets the answer it waits for, in its two parts or at once.
LEMMA ReadOrderly ==
    ASSUME Typing, Held, Orderly, ~tainted', NEW c \in Clients,
           ReadHeader(c) \/ ReadBody(c) \/ ReadEcho(c) \/ TimeOut(c) \/ CannotRead(c)
    PROVE  Orderly'
<1>0. /\ asked[c] \in Requests /\ line \in Seq(Byte) /\ pc[c] \in Reading /\ pc[c] \in Exchange
      /\ pc \in [Clients -> Controls] /\ head \in [Clients -> Frame \cup {NoFrame}]
      /\ holder = c /\ Turn(c) /\ \A d \in Clients \ {c} : pc[d] \notin Exchange
  BY DEF ReadHeader, ReadBody, ReadEcho, TimeOut, CannotRead, Typing, TypeOK, Occupied, Exchange,
         Reading, Byte, Orderly
<1>1. ASSUME pc[c] \in {"header", "echo"}, NEW n \in Nat, n > 0, Take(n)
      PROVE  /\ wire = <<>>
             /\ \E f \in Frame : /\ f.of = asked[c] /\ f.form # "header"
                                 /\ line = Bytes(f, 1, Length(f)) /\ line[1].frame = f
                                 /\ Length(f) >= n
  <2>1. line # <<>>
    BY <1>1 DEF Take
  <2>2. wire = <<>> /\ Whole(c)
    BY <1>0, <1>1, <2>1 DEF Turn
  <2>3. PICK form \in Forms \ {"header"} :
          LET f == [of |-> asked[c], form |-> form] IN line = Bytes(f, 1, Length(f))
    BY <2>1, <2>2 DEF Whole
  <2> DEFINE f == [of |-> asked[c], form |-> form]
  <2>4. f \in Frame /\ f.of = asked[c] /\ f.form # "header"
    BY <1>0, <2>3 DEF Frame
  <2>5. line = Bytes(f, 1, Length(f))
    BY <2>3
  <2> HIDE DEF f
  <2>6. Length(f) \in Nat /\ Len(line) = Length(f) /\ line[1].frame = f
    BY <2>4, <2>5, WholeFrame
  <2>8. Length(f) >= n
    BY <1>1, <2>6 DEF Take
  <2> QED
    BY <2>2, <2>4, <2>5, <2>6, <2>8
<1>2. CASE ReadHeader(c)
  <2>1. wire = <<>>
    BY <1>1, <1>2 DEF ReadHeader
  <2>2. PICK f \in Frame : /\ f.of = asked[c] /\ f.form # "header"
                           /\ line = Bytes(f, 1, Length(f)) /\ line[1].frame = f
    BY <1>1, <1>2 DEF ReadHeader
  <2>4. First(3) = Bytes(f, 1, 3) /\ SubSeq(line, 4, Len(line)) = Bytes(f, 4, Length(f))
    BY <2>2, WholeFrame DEF First
  <2>5. Opens(First(3), asked[c], f)
    BY <2>2, <2>4 DEF Opens, Alike, Frame, Forms
  <2>6. /\ head' = [head EXCEPT ![c] = f] /\ pc' = [pc EXCEPT ![c] = "body"]
        /\ UNCHANGED <<asked, holder, results, wire>> /\ line' = SubSeq(line, 3 + 1, Len(line))
    BY <1>2, <2>2, <2>5 DEF ReadHeader, Take
  <2>7. line' = Bytes(f, 4, Length(f)) /\ wire' = <<>>
    BY <2>1, <2>4, <2>6
  <2>8. \A d \in Clients \ {c} : pc'[d] \notin Exchange
    BY <1>0, <2>6
  <2>9. \A d \in Clients : Turn(d)'
    <3>1. Turn(c)'
      BY <1>0, <2>2, <2>6, <2>7 DEF Turn
    <3>2. \A d \in Clients \ {c} : Turn(d)'
      BY <2>8 DEF Turn, Exchange, Reading
    <3> QED
      BY <3>1, <3>2
  <2>10. holder' = c /\ c # NoClient
    BY <1>0, <2>6, BusAssumption
  <2>11. \A r \in Requests : ~Foreign(r)'
    BY <2>6 DEF results, Foreign, Orderly
  <2> QED
    BY <2>8, <2>9, <2>10, <2>11 DEF Orderly
<1>3. CASE ReadBody(c)
  <2> DEFINE f == head[c]
             n == Length(f) - 3
  <2>1. f \in Frame /\ pc[c] = "body" /\ Take(n) /\ wire' = wire
    BY <1>3 DEF ReadBody, Typing, Occupied
  <2> HIDE DEF f
  <2>2. Length(f) \in Nat /\ Length(f) >= 5 /\ n \in Nat /\ n > 0
    BY <2>1, LengthIs
  <2>3. wire = <<>> /\ f.of = asked[c] /\ line = Bytes(f, 4, Length(f))
    <3>1. line # <<>>
      BY <2>1, <2>2 DEF Take
    <3> QED
      BY <1>0, <2>1, <3>1 DEF Turn, f
  <2>4. line' = <<>>
    <3>1. line' = SubSeq(line, n + 1, Len(line))
      BY <2>1 DEF Take
    <3>2. n + 1 = Length(f) - 2 /\ Len(line) = Length(f) - 3
      BY <2>1, <2>2, <2>3, WholeFrame
    <3> HIDE DEF n
    <3> QED
      BY <2>1, <2>3, <3>1, <3>2, WholeFrame
  <2>5. Fail(c) \/ Answered(c, f)
    BY <1>3 DEF ReadBody, f
  <2>6. Quiet'
    BY <2>1, <2>3, <2>4 DEF Quiet
  <2> QED
    BY <1>0, <2>1, <2>3, <2>5, <2>6, EndsOrderly
<1>4. CASE ReadEcho(c)
  <2>1. wire = <<>> /\ wire' = wire
    BY <1>1, <1>4 DEF ReadEcho
  <2>2. PICK f \in Frame : /\ f.of = asked[c] /\ f.form # "header"
                           /\ line = Bytes(f, 1, Length(f)) /\ line[1].frame = f
                           /\ Length(f) >= 8
    BY <1>1, <1>4 DEF ReadEcho
  <2>3. Asks[f.of].kind = "coil"
    BY <1>4, <2>2 DEF ReadEcho, Typing, Occupied
  <2>4. Length(f) = 8
    BY <2>2, <2>3, LengthIs
  <2>5. line' = <<>>
    <3>1. line' = SubSeq(line, 8 + 1, Len(line))
      BY <1>4 DEF ReadEcho, Take
    <3>2. Len(line) = 8 /\ SubSeq(line, Length(f) + 1, Length(f)) = <<>>
      BY <2>2, <2>4, WholeFrame
    <3> QED
      BY <2>4, <3>1, <3>2
  <2>6. Fail(c) \/ Answered(c, f)
    BY <1>4, <2>2 DEF ReadEcho
  <2>7. Quiet'
    BY <2>1, <2>5 DEF Quiet
  <2> QED
    BY <1>0, <2>2, <2>6, <2>7, EndsOrderly
<1>5. CASE TimeOut(c)
  <2>1. /\ \A i \in DOMAIN wire : wire[i] # asked[c]
        /\ 0 \in 0..Len(line) /\ Leave(0) /\ wire' = wire /\ Fail(c)
    BY <1>5 DEF TimeOut
  <2>2. wire # <<asked[c]>>
    BY <2>1
  <2>3. wire = <<>>
    BY <1>0, <2>2 DEF Turn, Reading
  <2>4. Quiet' /\ Fail(c)
    BY <1>0, <2>1, <2>3, LeftOver DEF Quiet
  <2> QED
    BY <1>0, <2>4, EndsOrderly
<1>6. CASE CannotRead(c)
  BY <1>6 DEF CannotRead
<1> QED
  BY <1>2, <1>3, <1>4, <1>5, <1>6

\* The devices answer the one who waits; a process that ends or starts leaves no trace.
LEMMA RestOrderly ==
    ASSUME Typing, Held, Orderly, ~tainted',
           Device \/ \E c \in Clients : Crash(c) \/ Start(c)
    PROVE  Orderly'
<1>0. /\ pc \in [Clients -> Controls] /\ asked \in [Clients -> Requests \cup {NoRequest}]
      /\ outcome \in [Requests -> Outcomes] /\ NoClient \notin Clients
      /\ wire \in Seq(Requests) /\ line \in Seq(Byte) /\ tainted \in BOOLEAN
      /\ holder \in Clients \cup {NoClient}
  BY BusAssumption DEF Typing, TypeOK, Outcomes, Byte
<1>1. CASE Device
  <2>1. /\ wire # <<>> /\ wire' = Tail(wire) /\ UNCHANGED <<pc, asked, head, holder, outcome, source>>
    BY <1>1 DEF Device, Reply, StaySilent, local, locking, results
  <2>0. PICK h \in Clients : h = holder
    BY <1>0, <2>1 DEF Orderly, Quiet
  <2>2. h \in Clients /\ pc[h] \in Exchange /\ \A d \in Clients \ {h} : pc[d] \notin Exchange
    BY <1>0, <2>1, <2>0 DEF Orderly, Held
  <2>3. pc[h] \in {"header", "echo"} /\ wire = <<asked[h]>> /\ line = <<>>
    <3>1. Turn(h)
      BY <2>2 DEF Orderly
    <3> QED
      BY <2>1, <2>2, <3>1 DEF Turn, Quiet, Exchange, Reading
  <2>4. wire' = <<>> /\ asked[h] \in Requests /\ Head(wire) = asked[h]
    BY <2>1, <2>2, <2>3 DEF Typing, Occupied
  <2>5. Whole(h)'
    <3>1. CASE StaySilent
      BY <2>3, <3>1 DEF StaySilent, Whole
    <3>2. CASE Reply
      <4>1. PICK form \in Forms :
              LET f == [of |-> Head(wire), form |-> form] IN
              /\ line' = line \o Bytes(f, 1, Length(f))
              /\ tainted' = (tainted \/ form = "header")
        BY <3>2 DEF Reply
      <4> DEFINE f == [of |-> asked[h], form |-> form]
      <4>2. f \in Frame /\ form # "header"
        BY <2>4, <4>1 DEF Frame
      <4>3. line' = line \o Bytes(f, 1, Length(f))
        BY <2>4, <4>1
      <4> HIDE DEF f
      <4>4. Bytes(f, 1, Length(f)) \in Seq(Byte)
        BY <4>2, WholeFrame
      <4>5. line' = Bytes(f, 1, Length(f))
        BY <2>3, <4>3, <4>4
      <4>6. asked'[h] = asked[h]
        BY <2>1
      <4> QED
        <5>1. \E g \in Forms \ {"header"} : line' = Bytes([of |-> asked'[h], form |-> g], 1,
                                                          Length([of |-> asked'[h], form |-> g]))
          BY <4>1, <4>2, <4>5, <4>6 DEF f
        <5> QED
          BY <5>1 DEF Whole
    <3> QED
      BY <1>1, <3>1, <3>2 DEF Device
  <2>6. Turn(h)'
    BY <2>1, <2>3, <2>4, <2>5 DEF Turn
  <2>7. \A d \in Clients \ {h} : Turn(d)'
    BY <2>1, <2>2 DEF Turn, Exchange, Reading
  <2>8. \A r \in Requests : ~Foreign(r)'
    BY <2>1 DEF Foreign, Orderly
  <2> QED
    BY <1>0, <2>1, <2>0, <2>2, <2>6, <2>7, <2>8 DEF Orderly
<1>2. ASSUME NEW c \in Clients, Crash(c) PROVE Orderly'
  <2>1. pc[c] \notin Reading /\ pc' = [pc EXCEPT ![c] = "down"] /\ UNCHANGED <<wire, line, source>>
    BY <1>0, <1>2 DEF Crash, bus
  <2>2. /\ asked' = [asked EXCEPT ![c] = NoRequest] /\ head' = [head EXCEPT ![c] = NoFrame]
        /\ holder' = IF holder = c THEN NoClient ELSE holder
    BY <1>2 DEF Crash
  <2>3. \A r \in Requests : ~Foreign(r)'
    BY <1>0, <1>2, <2>1 DEF Crash, Foreign, Orderly
  <2>4. \A d \in Clients : \/ pc'[d] \notin Exchange
                           \/ pc'[d] = pc[d] /\ asked'[d] = asked[d] /\ head'[d] = head[d]
    <3>1. pc'[c] \notin Exchange
      BY <1>0, <2>1 DEF Exchange, Reading
    <3>2. \A d \in Clients \ {c} : pc'[d] = pc[d] /\ asked'[d] = asked[d] /\ head'[d] = head[d]
      BY <1>0, <2>1, <2>2 DEF Typing, TypeOK
    <3> QED
      BY <3>1, <3>2
  <2>5. CASE holder = c
    <3>1. pc[c] = "sending"
      BY <2>1, <2>5 DEF Held, Exchange
    <3>2. Quiet'
      BY <2>1, <3>1 DEF Orderly, Turn, Quiet
    <3>3. \A d \in Clients : pc'[d] \notin Exchange
      BY <1>0, <2>1, <2>5 DEF Orderly, Exchange, Reading
    <3>4. \A d \in Clients : Turn(d)'
      BY <3>3 DEF Turn, Exchange, Reading
    <3> QED
      BY <2>3, <3>2, <3>3, <3>4 DEF Orderly
  <2>6. CASE holder # c
    BY <2>1, <2>2, <2>3, <2>4, <2>6, AsideOrderly
  <2> QED
    BY <2>5, <2>6
<1>3. ASSUME NEW c \in Clients, Start(c) PROVE Orderly'
  <2>1. line' \in {<<>>, line}
    BY <1>0, <1>3, Discarded DEF Start
  <2>2. UNCHANGED <<holder, wire, outcome, source, asked, head>> /\ pc' = [pc EXCEPT ![c] = "idle"]
    BY <1>3 DEF Start, results
  <2>3. \A d \in Clients : \/ pc'[d] \notin Exchange
                           \/ pc'[d] = pc[d] /\ asked'[d] = asked[d] /\ head'[d] = head[d]
    BY <1>0, <2>2 DEF Exchange, Reading
  <2>4. \A r \in Requests : ~Foreign(r)'
    BY <2>2 DEF Foreign, Orderly
  <2> QED
    BY <2>1, <2>2, <2>3, <2>4, AsideOrderly
<1> QED
  BY <1>1, <1>2, <1>3

\* The segment is quiet at the start.
LEMMA OrderInit == Init => Order
<1> SUFFICES ASSUME Init PROVE Order
  OBVIOUS
<1>1. Held
  BY BusAssumption DEF Init, Held
<1>2. Orderly
  BY DEF Init, Orderly, Turn, Quiet, Foreign, Exchange, Reading
<1> QED
  BY <1>1, <1>2, TypingInit DEF Order, Settled

\* Every step keeps the order, or ends the conditions for it.
LEMMA OrderNext == Order /\ [Next]_vars => Order'
<1> SUFFICES ASSUME Order, [Next]_vars PROVE Order'
  OBVIOUS
<1>0. Typing /\ Held /\ tainted \in BOOLEAN /\ uncoordinated \in BOOLEAN
      /\ line \in Seq(Byte)
  BY DEF Order, Typing, TypeOK, Byte
<1>1. (tainted => tainted') /\ (uncoordinated => uncoordinated')
  <2>1. ASSUME NEW c \in Clients, NEW r \in Requests, Ask(c, r) \/ AskOpening(c, r) \/ CannotOpen(c, r)
        PROVE  (tainted => tainted') /\ (uncoordinated => uncoordinated')
    BY <1>0, <2>1, Discarded DEF Ask, AskOpening, CannotOpen, history
  <2>2. ASSUME NEW c \in Clients, Proceed(c)
        PROVE  (tainted => tainted') /\ (uncoordinated => uncoordinated')
    BY <1>0, <2>2 DEF Proceed, TakeLock, GoUncoordinated, GiveUp, Send, CannotSend, ReadHeader,
                      ReadBody, ReadEcho, TimeOut, CannotRead, history
  <2>3. ASSUME NEW c \in Clients, Crash(c) \/ Start(c)
        PROVE  (tainted => tainted') /\ (uncoordinated => uncoordinated')
    BY <1>0, <2>3, Discarded DEF Crash, Start
  <2>4. CASE Device
    BY <1>0, <2>4 DEF Device, Reply, StaySilent
  <2>5. CASE UNCHANGED vars
    BY <2>5 DEF vars, history
  <2> QED
    BY <2>1, <2>2, <2>3, <2>4, <2>5 DEF Next
<1>2. ASSUME ~tainted', ~uncoordinated' PROVE Orderly'
  <2>1. Orderly
    BY <1>1, <1>2 DEF Order, Settled
  <2>2. CASE UNCHANGED vars
    <3>1. UNCHANGED <<pc, asked, head, holder, wire, line, outcome, source>>
      BY <2>2 DEF vars, local, locking, bus, results
    <3> QED
      BY <2>1, <3>1 DEF Orderly, Turn, Whole, Quiet, Foreign
  <2> QED
    BY <1>0, <1>2, <2>1, <2>2, AskOrderly, LockOrderly, ReadOrderly, RestOrderly DEF Next, Proceed
<1>3. Typing' /\ Held'
  BY <1>0, TypingNext, HeldNext
<1> QED
  BY <1>2, <1>3 DEF Order, Settled

\* As long as the lock works and no byte comes after the end of its exchange, what a
\* caller gets is the answer to its own request (modbus_pyserial_transport.py).
THEOREM OwnAnswerAlways == Spec => []OwnAnswer
<1>1. Order => OwnAnswer
  BY DEF Order, Settled, Orderly, OwnAnswer
<1> QED
  BY <1>1, OrderInit, OrderNext, PTL DEF Spec

\* Whoever is in an exchange holds the lock, unless somebody did without.
Covered == uncoordinated \/ \A c \in Clients : pc[c] \in Exchange => holder = c

\* No step takes the lock from whoever is in an exchange.
LEMMA CoveredNext == Typing /\ Covered /\ [Next]_vars => Covered'
<1> SUFFICES ASSUME Typing, Covered, [Next]_vars PROVE Covered'
  OBVIOUS
<1>0. /\ pc \in [Clients -> Controls] /\ uncoordinated \in BOOLEAN /\ NoClient \notin Clients
      /\ holder \in Clients \cup {NoClient}
  BY BusAssumption DEF Typing, TypeOK
<1>1. ASSUME NEW c \in Clients, NEW said, Finish(c, said), UNCHANGED uncoordinated
      PROVE  Covered'
  BY <1>0, <1>1 DEF Finish, Covered, Exchange, Reading
<1>2. ASSUME NEW c \in Clients, NEW r \in Requests,
             Ask(c, r) \/ AskOpening(c, r) \/ CannotOpen(c, r)
      PROVE  Covered'
  BY <1>0, <1>2 DEF Ask, AskOpening, CannotOpen, Covered, Exchange, Reading, locking, local,
                    history
<1>3. ASSUME NEW c \in Clients, TakeLock(c) \/ GoUncoordinated(c) \/ Send(c) PROVE Covered'
  BY <1>0, <1>3 DEF TakeLock, GoUncoordinated, Send, Covered, Exchange, Reading, locking, history
<1>4. ASSUME NEW c \in Clients,
             GiveUp(c) \/ CannotSend(c) \/ ReadBody(c) \/ ReadEcho(c) \/ TimeOut(c) \/ CannotRead(c)
      PROVE  Covered'
  BY <1>1, <1>4 DEF GiveUp, CannotSend, ReadBody, ReadEcho, TimeOut, CannotRead, Fail, Answered,
                    history
<1>5. ASSUME NEW c \in Clients, ReadHeader(c) PROVE Covered'
  <2>1. CASE Fail(c)
    BY <1>1, <1>5, <2>1 DEF ReadHeader, Fail, history
  <2>2. CASE ~Fail(c)
    <3>1. /\ pc[c] = "header" /\ pc' = [pc EXCEPT ![c] = "body"]
          /\ UNCHANGED <<holder, uncoordinated>>
      BY <1>5, <2>2 DEF ReadHeader, history
    <3> QED
      BY <1>0, <3>1 DEF Covered, Exchange, Reading
  <2> QED
    BY <2>1, <2>2
<1>6. ASSUME NEW c \in Clients, Crash(c) \/ Start(c) PROVE Covered'
  BY <1>0, <1>6 DEF Crash, Start, Covered, Exchange, Reading
<1>7. CASE Device \/ UNCHANGED vars
  BY <1>7 DEF Device, Reply, StaySilent, Covered, local, locking, vars, history
<1> QED
  BY <1>2, <1>3, <1>4, <1>5, <1>6, <1>7 DEF Next, Proceed

\* When the lock is free nobody waits for a device, late answers and crashes included;
\* where nothing is still to come the segment is quiet (port_lock.py).
THEOREM CleanHandoverAlways == Spec => []CleanHandover
<1>1. Init => Covered
  BY DEF Init, Covered, Exchange, Reading
<1>2. Order /\ Covered => CleanHandover
  BY BusAssumption DEF Order, Settled, Orderly, Quiet, Covered, CleanHandover
<1>3. Order => Typing
  BY DEF Order
<1> QED
  BY <1>1, <1>2, <1>3, OrderInit, OrderNext, CoveredNext, PTL DEF Spec

-------------------------------------------------------------------------------
(***************************************************************************)
(* Confirmed writes, with the lock or without it.  An opened port has no   *)
(* beginning of a frame in its buffer, so whatever echo is read whole was  *)
(* sent by a device after the command had begun.                           *)
(***************************************************************************)

\* Who operates a coil opens the port for it, as SerialBus does.
WritesPerCommand ==
    \A r \in Requests : Asks[r].kind = "coil" => Asks[r].client \in PerCommand

\* The bytes of a frame stay together and in order.
Blocks ==
    \A i, j \in 1..Len(line) :
        i <= j /\ line[i].frame.of = line[j].frame.of
        => \A k \in i..j : line[k].frame = line[i].frame /\ line[k].at = line[i].at + (k - i)

\* What was sent is waited for, or no longer asked.
OnItsWay(r) ==
    /\ outcome[r] # "unasked"
    /\ \A c \in Clients : asked[c] = r => pc[c] \in Reading

\* A request is sent once and answered once.
Once ==
    /\ \A i, j \in 1..Len(wire) : wire[i] = wire[j] => i = j
    /\ \A r \in Requests, i \in 1..Len(wire) : wire[i] = r => OnItsWay(r)
    /\ \A r \in Requests, j \in 1..Len(line) : line[j].frame.of = r => OnItsWay(r)
    /\ \A i \in 1..Len(wire), j \in 1..Len(line) : wire[i] # line[j].frame.of

\* Who asks has a request of its own, which is not decided.
Asking ==
    \A c \in Clients :
        /\ asked[c] # NoRequest => outcome[asked[c]] = "pending" /\ Asks[asked[c]].client = c
        /\ pc[c] \in {"idle", "down"} => asked[c] = NoRequest
        /\ pc[c] \in {"header", "body"} => Asks[asked[c]].kind # "coil"

\* Where an echo begins that would confirm a command, the command was carried out.
Echoes ==
    \A c \in Clients, i \in 1..Len(line) :
        /\ asked[c] # NoRequest
        /\ line[i].at = 1 /\ line[i].frame.form = "answer"
        /\ SameWrite(line[i].frame.of, asked[c])
        => asked[c] \in carried

Carrying ==
    /\ WritesPerCommand /\ Typing
    /\ Blocks /\ Once /\ Asking /\ Echoes
    /\ ConfirmedMeansCarriedOut

\* The types the arguments below need.
LEMMA CarryingTypes ==
    ASSUME Carrying
    PROVE  /\ line \in Seq(Byte) /\ wire \in Seq(Requests) /\ carried \subseteq Requests
           /\ Len(line) \in Nat /\ Len(wire) \in Nat
           /\ pc \in [Clients -> Controls] /\ asked \in [Clients -> Requests \cup {NoRequest}]
           /\ outcome \in [Requests -> Outcomes] /\ NoRequest \notin Requests
           /\ \A i \in 1..Len(line) : /\ line[i] \in Byte /\ line[i].frame.of \in Requests
                                      /\ line[i].at \in Nat
           /\ \A i \in 1..Len(wire) : wire[i] \in Requests
<1>1. /\ line \in Seq(Byte) /\ wire \in Seq(Requests) /\ carried \subseteq Requests
      /\ pc \in [Clients -> Controls] /\ asked \in [Clients -> Requests \cup {NoRequest}]
      /\ outcome \in [Requests -> Outcomes] /\ NoRequest \notin Requests
  BY BusAssumption DEF Carrying, Typing, TypeOK, Outcomes, Byte
<1>2. ASSUME NEW i \in 1..Len(line)
      PROVE  line[i] \in Byte /\ line[i].frame.of \in Requests /\ line[i].at \in Nat
  <2>1. line[i] \in Byte
    BY <1>1
  <2> QED
    BY <2>1 DEF Byte, Frame
<1>3. Len(line) \in Nat /\ Len(wire) \in Nat
  BY <1>1
<1>4. \A i \in 1..Len(wire) : wire[i] \in Requests
  BY <1>1
<1> QED
  BY <1>1, <1>2, <1>3, <1>4

\* An end of the buffer.
LEMMA Shorter ==
    ASSUME line \in Seq(Byte), NEW m \in 0..Len(line), line' = SubSeq(line, m + 1, Len(line))
    PROVE  /\ Len(line') = Len(line) - m
           /\ \A i \in 1..Len(line') : line'[i] = line[m + i] /\ m + i \in 1..Len(line)
OBVIOUS

\* A step that takes bytes from the buffer, or a request from the wire, and lets nobody
\* ask for a coil write while a beginning of a frame is in the buffer.
LEMMA KeptCarrying ==
    ASSUME Carrying, NEW m \in 0..Len(line), line' = SubSeq(line, m + 1, Len(line)),
           wire' = wire \/ (wire # <<>> /\ wire' = Tail(wire)),
           carried \subseteq carried',
           \A r \in Requests : OnItsWay(r) => OnItsWay(r)',
           \A c \in Clients : \/ asked'[c] \in {asked[c], NoRequest}
                              \/ Asks[asked'[c]].kind # "coil"
                              \/ \A i \in 1..Len(line') : line'[i].at # 1
    PROVE  Blocks' /\ Once' /\ Echoes'
<1>0. /\ line \in Seq(Byte) /\ wire \in Seq(Requests) /\ Len(line) \in Nat /\ Len(wire) \in Nat
      /\ \A i \in 1..Len(line) : line[i].frame.of \in Requests
      /\ \A i \in 1..Len(wire) : wire[i] \in Requests
  BY CarryingTypes
<1>1. /\ Len(line') = Len(line) - m /\ Len(line') \in Nat /\ m \in Nat
      /\ \A i \in 1..Len(line') : line'[i] = line[m + i] /\ m + i \in 1..Len(line)
  BY <1>0, Shorter
<1>2. PICK o \in {0, 1} :
         /\ Len(wire') = Len(wire) - o /\ Len(wire') \in Nat
         /\ \A i \in 1..Len(wire') : wire'[i] = wire[o + i] /\ o + i \in 1..Len(wire)
  <2>1. CASE wire' = wire
    <3>1. /\ Len(wire') = Len(wire) - 0
          /\ \A i \in 1..Len(wire') : wire'[i] = wire[0 + i] /\ 0 + i \in 1..Len(wire)
      BY <1>0, <2>1
    <3> QED
      BY <1>0, <2>1, <3>1
  <2>2. CASE wire # <<>> /\ wire' = Tail(wire)
    <3>1. /\ Len(wire') = Len(wire) - 1 /\ Len(wire') \in Nat
          /\ \A i \in 1..Len(wire') : wire'[i] = wire[1 + i] /\ 1 + i \in 1..Len(wire)
      BY <1>0, <2>2
    <3> QED
      BY <3>1
  <2> QED
    BY <2>1, <2>2
<1>3. Blocks'
  <2> SUFFICES ASSUME NEW i \in 1..Len(line'), NEW j \in 1..Len(line'), i <= j,
                      line'[i].frame.of = line'[j].frame.of, NEW k \in i..j
               PROVE  line'[k].frame = line'[i].frame /\ line'[k].at = line'[i].at + (k - i)
    BY DEF Blocks
  <2>1. /\ m + i \in 1..Len(line) /\ m + j \in 1..Len(line) /\ m + i <= m + j
        /\ m + k \in (m + i)..(m + j) /\ k \in 1..Len(line') /\ (m + k) - (m + i) = k - i
    BY <1>1
  <2>2. line'[i] = line[m + i] /\ line'[j] = line[m + j] /\ line'[k] = line[m + k]
    BY <1>1, <2>1
  <2>3. line[m + i].frame.of = line[m + j].frame.of
    BY <2>2
  <2>4. /\ line[m + k].frame = line[m + i].frame
        /\ line[m + k].at = line[m + i].at + ((m + k) - (m + i))
    BY <2>1, <2>3 DEF Carrying, Blocks
  <2> QED
    BY <2>1, <2>2, <2>4
<1>4. Once'
  <2>1. \A i, j \in 1..Len(wire') : wire'[i] = wire'[j] => i = j
    <3> SUFFICES ASSUME NEW i \in 1..Len(wire'), NEW j \in 1..Len(wire'), wire'[i] = wire'[j]
                 PROVE  i = j
      OBVIOUS
    <3>1. o + i = o + j
      BY <1>2 DEF Carrying, Once
    <3> QED
      BY <1>2, <3>1
  <2>2. \A r \in Requests, i \in 1..Len(wire') : wire'[i] = r => OnItsWay(r)'
    BY <1>0, <1>2 DEF Carrying, Once
  <2>3. \A r \in Requests, j \in 1..Len(line') : line'[j].frame.of = r => OnItsWay(r)'
    BY <1>0, <1>1 DEF Carrying, Once
  <2>4. \A i \in 1..Len(wire'), j \in 1..Len(line') : wire'[i] # line'[j].frame.of
    BY <1>1, <1>2 DEF Carrying, Once
  <2> QED
    BY <2>1, <2>2, <2>3, <2>4 DEF Once
<1>5. Echoes'
  <2> SUFFICES ASSUME NEW c \in Clients, NEW i \in 1..Len(line'),
                      asked'[c] # NoRequest, line'[i].at = 1, line'[i].frame.form = "answer",
                      SameWrite(line'[i].frame.of, asked'[c])
               PROVE  asked'[c] \in carried'
    BY DEF Echoes, SameWrite, Alike
  <2>1. Asks[asked'[c]].kind = "coil"
    BY DEF SameWrite, Alike
  <2>2. asked'[c] = asked[c]
    BY <2>1
  <2>3. line'[i] = line[m + i] /\ m + i \in 1..Len(line)
    BY <1>1
  <2>4. asked[c] \in carried
    BY <2>2, <2>3 DEF Carrying, Echoes
  <2> QED
    BY <2>2, <2>4
<1> QED
  BY <1>3, <1>4, <1>5

\* The end of an exchange: an answer to a coil write needs it carried out.
LEMMA EndCarrying ==
    ASSUME Carrying, Typing', NEW c \in Clients, asked[c] \in Requests,
           NEW said \in {"answered", "failed"}, Finish(c, said),
           said = "answered" /\ Asks[asked[c]].kind = "coil" => asked[c] \in carried,
           NEW m \in 0..Len(line), line' = SubSeq(line, m + 1, Len(line)),
           UNCHANGED <<wire, carried>>
    PROVE  Carrying'
<1>0. /\ pc \in [Clients -> Controls] /\ asked \in [Clients -> Requests \cup {NoRequest}]
      /\ outcome \in [Requests -> Outcomes] /\ NoRequest \notin Requests
  BY CarryingTypes
<1>1. /\ pc'[c] = "idle" /\ asked'[c] = NoRequest
      /\ \A d \in Clients \ {c} : pc'[d] = pc[d] /\ asked'[d] = asked[d]
      /\ outcome'[asked[c]] = said /\ \A r \in Requests \ {asked[c]} : outcome'[r] = outcome[r]
  BY <1>0 DEF Finish
<1>2. Asking'
  <2>1. \A d \in Clients \ {c} : asked[d] # NoRequest => asked[d] \in Requests \ {asked[c]}
    BY <1>0 DEF Carrying, Asking
  <2> QED
    BY <1>1, <2>1 DEF Carrying, Asking
<1>3. \A r \in Requests : OnItsWay(r) => OnItsWay(r)'
  BY <1>0, <1>1 DEF OnItsWay
<1>4. \A d \in Clients : asked'[d] \in {asked[d], NoRequest}
  BY <1>1
<1>5. ConfirmedMeansCarriedOut'
  BY <1>1 DEF Carrying, ConfirmedMeansCarriedOut
<1>6. Blocks' /\ Once' /\ Echoes'
  BY <1>3, <1>4, KeptCarrying
<1> QED
  BY <1>2, <1>5, <1>6 DEF Carrying, WritesPerCommand

\* A step that ends nothing and asks nothing, and takes what it takes in order.
LEMMA StepCarrying ==
    ASSUME Carrying, Typing', NEW m \in 0..Len(line), line' = SubSeq(line, m + 1, Len(line)),
           wire' = wire \/ (wire # <<>> /\ wire' = Tail(wire)),
           carried \subseteq carried', UNCHANGED <<asked, outcome>>,
           \A c \in Clients : \/ pc'[c] = pc[c]
                              \/ pc[c] = "header" /\ pc'[c] = "body"
                              \/ pc[c] = "locking" /\ pc'[c] = "sending"
                              \/ pc[c] = "down" /\ pc'[c] = "idle"
    PROVE  Carrying'
<1>1. Asking'
  BY DEF Carrying, Asking
<1>2. \A r \in Requests : OnItsWay(r) => OnItsWay(r)'
  BY DEF OnItsWay, Reading
<1>3. ConfirmedMeansCarriedOut'
  BY DEF Carrying, ConfirmedMeansCarriedOut
<1>4. Blocks' /\ Once' /\ Echoes'
  BY <1>2, KeptCarrying
<1> QED
  BY <1>1, <1>3, <1>4 DEF Carrying, WritesPerCommand

\* An opened port has no beginning of a frame in its buffer.
LEMMA OpenedHeadless ==
    ASSUME Carrying, Discard
    PROVE  \E m \in 0..Len(line) : /\ line' = SubSeq(line, m + 1, Len(line))
                                   /\ \A i \in 1..Len(line') : line'[i].at # 1
<1>0. line \in Seq(Byte) /\ Len(line) \in Nat /\ \A i \in 1..Len(line) : line[i].at \in Nat
  BY CarryingTypes
<1>1. PICK n \in 0..Len(line) : Leave(n)
  BY DEF Discard
<1>2. /\ Len(line') = n
      /\ n > 0 => line'[1].at > 1 /\ line'[1].frame = line[Len(line)].frame
  BY <1>0, <1>1, LeftOver
<1>3. PICK m \in 0..Len(line) : line' = SubSeq(line, m + 1, Len(line))
  BY <1>0, <1>1, LeftOver
<1>4. /\ line' = SubSeq(line, m + 1, Len(line))
      /\ n > 0 => line'[1].at > 1 /\ line'[1].frame = line[Len(line)].frame
  BY <1>2, <1>3
<1>5. /\ Len(line') = Len(line) - m
      /\ \A i \in 1..Len(line') : line'[i] = line[m + i] /\ m + i \in 1..Len(line)
  BY <1>0, <1>4, Shorter
<1>6. ASSUME NEW i \in 1..Len(line') PROVE line'[i].at # 1
  <2>1. /\ n > 0 /\ m + 1 \in 1..Len(line) /\ Len(line) \in 1..Len(line) /\ m + 1 <= Len(line)
        /\ m + i \in (m + 1)..Len(line) /\ (m + i) - (m + 1) >= 0 /\ 1 \in 1..Len(line')
    BY <1>0, <1>2, <1>5
  <2>2. line[m + 1].at > 1 /\ line[m + 1].frame.of = line[Len(line)].frame.of
    BY <1>4, <1>5, <2>1
  <2>3. line[m + i].at = line[m + 1].at + ((m + i) - (m + 1))
    BY <2>1, <2>2 DEF Carrying, Blocks
  <2> QED
    BY <1>0, <1>5, <2>1, <2>2, <2>3
<1> QED
  BY <1>4, <1>6

\* A request that begins: only a port that was just opened waits for an echo.
LEMMA AskCarrying ==
    ASSUME Carrying, Typing', NEW c \in Clients, NEW r \in Requests,
           Ask(c, r) \/ AskOpening(c, r) \/ CannotOpen(c, r)
    PROVE  Carrying'
<1>0. /\ pc \in [Clients -> Controls] /\ asked \in [Clients -> Requests \cup {NoRequest}]
      /\ outcome \in [Requests -> Outcomes] /\ NoRequest \notin Requests
      /\ line \in Seq(Byte) /\ Len(line) \in Nat
  BY CarryingTypes
<1>1. SubSeq(line, 0 + 1, Len(line)) = line /\ 0 \in 0..Len(line)
  BY <1>0
<1>2. CASE CannotOpen(c, r)
  <2>1. /\ UNCHANGED <<pc, asked, wire, line, carried>>
        /\ outcome[r] = "unasked" /\ outcome' = [outcome EXCEPT ![r] = "failed"]
    BY <1>2 DEF CannotOpen, local, bus, history
  <2>2. Asking'
    BY <1>0, <2>1 DEF Carrying, Asking
  <2>3. \A q \in Requests : OnItsWay(q) => OnItsWay(q)'
    BY <1>0, <2>1 DEF OnItsWay
  <2>4. ConfirmedMeansCarriedOut'
    BY <1>0, <2>1 DEF Carrying, ConfirmedMeansCarriedOut
  <2>5. Blocks' /\ Once' /\ Echoes'
    BY <1>1, <2>1, <2>3, KeptCarrying
  <2> QED
    BY <2>2, <2>4, <2>5 DEF Carrying, WritesPerCommand
<1>3. CASE Ask(c, r) \/ AskOpening(c, r)
  <2>1. /\ pc[c] = "idle" /\ Asks[r].client = c /\ UNCHANGED <<wire, carried>>
        /\ outcome[r] = "unasked" /\ outcome' = [outcome EXCEPT ![r] = "pending"]
        /\ asked' = [asked EXCEPT ![c] = r] /\ pc' = [pc EXCEPT ![c] = "locking"]
    BY <1>3 DEF Ask, AskOpening, bus, history
  <2>2. Asking'
    BY <1>0, <2>1 DEF Carrying, Asking
  <2>3. \A q \in Requests : OnItsWay(q) => OnItsWay(q)'
    BY <1>0, <2>1 DEF OnItsWay, Reading
  <2>4. ConfirmedMeansCarriedOut'
    BY <1>0, <2>1 DEF Carrying, ConfirmedMeansCarriedOut
  <2>5. \A d \in Clients \ {c} : asked'[d] = asked[d]
    BY <1>0, <2>1
  <2>6. PICK m \in 0..Len(line) :
           /\ line' = SubSeq(line, m + 1, Len(line))
           /\ Asks[asked'[c]].kind # "coil" \/ \A i \in 1..Len(line') : line'[i].at # 1
    <3>1. CASE Ask(c, r)
      <4>1. Asks[asked'[c]].kind # "coil" /\ line' = line
        BY <1>0, <2>1, <3>1 DEF Ask, bus, Carrying, WritesPerCommand
      <4> QED
        BY <1>1, <4>1
    <3>2. CASE AskOpening(c, r)
      BY <3>2, OpenedHeadless DEF AskOpening
    <3> QED
      BY <1>3, <3>1, <3>2
  <2>7. \A d \in Clients : \/ asked'[d] \in {asked[d], NoRequest}
                           \/ Asks[asked'[d]].kind # "coil"
                           \/ \A i \in 1..Len(line') : line'[i].at # 1
    BY <2>5, <2>6
  <2>8. Blocks' /\ Once' /\ Echoes'
    BY <2>1, <2>3, <2>6, <2>7, KeptCarrying
  <2> QED
    BY <2>2, <2>4, <2>8 DEF Carrying, WritesPerCommand
<1> QED
  BY <1>2, <1>3

\* A request goes onto the wire, where it was not before.
LEMMA SendCarrying ==
    ASSUME Carrying, Typing', NEW c \in Clients, Send(c)
    PROVE  Carrying'
<1>0. /\ pc \in [Clients -> Controls] /\ asked \in [Clients -> Requests \cup {NoRequest}]
      /\ outcome \in [Requests -> Outcomes] /\ NoRequest \notin Requests
      /\ wire \in Seq(Requests) /\ Len(wire) \in Nat
      /\ \A i \in 1..Len(line) : line[i].frame.of \in Requests
      /\ \A i \in 1..Len(wire) : wire[i] \in Requests
  BY CarryingTypes
<1>1. /\ pc[c] = "sending" /\ asked[c] \in Requests /\ wire' = Append(wire, asked[c])
      /\ UNCHANGED <<asked, outcome, line, carried>>
      /\ pc' = [pc EXCEPT ![c] = IF Asks[asked[c]].kind = "coil" THEN "echo" ELSE "header"]
  BY DEF Send, results, history, Carrying, Typing, Occupied, Exchange
<1>10. PICK q \in Requests : q = asked[c]
  BY <1>1
<1>2. pc'[c] \in Reading /\ \A d \in Clients \ {c} : pc'[d] = pc[d]
  BY <1>0, <1>1 DEF Reading
<1>3. Asking'
  BY <1>0, <1>1 DEF Carrying, Asking
<1>4. \A r \in Requests : OnItsWay(r) => OnItsWay(r)'
  BY <1>1, <1>2 DEF OnItsWay
<1>5. ~OnItsWay(q)
  BY <1>1, <1>10 DEF OnItsWay, Reading
<1>6. OnItsWay(q)'
  <2>1. outcome[q] = "pending"
    BY <1>0, <1>1, <1>10 DEF Carrying, Asking
  <2>2. \A d \in Clients \ {c} : asked[d] # q
    BY <1>0, <1>1, <1>10 DEF Carrying, Asking
  <2> QED
    BY <1>1, <1>2, <1>10, <2>1, <2>2 DEF OnItsWay
<1>7. /\ Len(wire') = Len(wire) + 1 /\ wire'[Len(wire) + 1] = q
      /\ \A i \in 1..Len(wire) : wire'[i] = wire[i] /\ wire[i] # q
  <2>1. \A i \in 1..Len(wire) : wire[i] # q
    BY <1>5 DEF Carrying, Once
  <2> QED
    BY <1>0, <1>1, <1>10, <2>1
<1>8. Once'
  <2>0. \A i \in 1..Len(wire') : i \in 1..Len(wire) \/ i = Len(wire) + 1
    BY <1>0, <1>7
  <2>1. \A i, j \in 1..Len(wire') : wire'[i] = wire'[j] => i = j
    BY <1>7, <2>0 DEF Carrying, Once
  <2>2. \A r \in Requests, i \in 1..Len(wire') : wire'[i] = r => OnItsWay(r)'
    BY <1>0, <1>4, <1>6, <1>7, <2>0 DEF Carrying, Once
  <2>3. \A r \in Requests, j \in 1..Len(line') : line'[j].frame.of = r => OnItsWay(r)'
    BY <1>0, <1>1, <1>4 DEF Carrying, Once
  <2>4. \A i \in 1..Len(wire'), j \in 1..Len(line') : wire'[i] # line'[j].frame.of
    <3>1. \A j \in 1..Len(line) : line[j].frame.of # q
      BY <1>5 DEF Carrying, Once
    <3> QED
      BY <1>1, <1>7, <2>0, <3>1 DEF Carrying, Once
  <2> QED
    BY <2>1, <2>2, <2>3, <2>4 DEF Once
<1>9. Blocks' /\ Echoes' /\ ConfirmedMeansCarriedOut'
  BY <1>1 DEF Carrying, Blocks, Echoes, ConfirmedMeansCarriedOut
<1> QED
  BY <1>3, <1>8, <1>9 DEF Carrying, WritesPerCommand

\* What is appended to the buffer.
LEMMA Joined ==
    ASSUME NEW s \in Seq(Byte), NEW t \in Seq(Byte)
    PROVE  /\ Len(s \o t) = Len(s) + Len(t) /\ Len(s) \in Nat /\ Len(t) \in Nat
           /\ \A i \in 1..Len(s) : (s \o t)[i] = s[i]
           /\ \A i \in 1..Len(s \o t) : i \notin 1..Len(s) =>
                 (s \o t)[i] = t[i - Len(s)] /\ i - Len(s) \in 1..Len(t)
OBVIOUS

\* A device answers, and obeys for everybody who asks for the same.
LEMMA ReplyCarrying ==
    ASSUME Carrying, Typing', Reply
    PROVE  Carrying'
<1>0. /\ asked \in [Clients -> Requests \cup {NoRequest}] /\ NoRequest \notin Requests
      /\ wire \in Seq(Requests) /\ Len(wire) \in Nat /\ line \in Seq(Byte) /\ Len(line) \in Nat
      /\ \A i \in 1..Len(line) : line[i].frame.of \in Requests
      /\ \A i \in 1..Len(wire) : wire[i] \in Requests
  BY CarryingTypes
<1>1. wire # <<>> /\ wire' = Tail(wire) /\ UNCHANGED <<pc, asked, outcome>>
  BY DEF Reply, local, results
<1>2. PICK form \in Forms :
        LET f == [of |-> Head(wire), form |-> form] IN
        /\ line' = line \o Bytes(f, 1, Length(f))
        /\ IF form = "exception" THEN UNCHANGED carried ELSE Obey(f.of)
  BY DEF Reply
<1>3. \E f \in Frame : f = [of |-> wire[1], form |-> form] /\ wire[1] \in Requests
  <2>1. wire[1] \in Requests
    BY <1>0, <1>1
  <2> QED
    BY <1>2, <2>1 DEF Frame
<1>4. PICK f \in Frame : f = [of |-> wire[1], form |-> form] /\ wire[1] \in Requests
  BY <1>3
<1>5. /\ line' = line \o Bytes(f, 1, Length(f)) /\ f.of = wire[1]
      /\ carried \subseteq carried'
      /\ f.form = "answer" => Obey(f.of)
  BY <1>0, <1>1, <1>2, <1>4 DEF Obey
<1> DEFINE n == Len(line)
           t == Bytes(f, 1, Length(f))
<1>6. Length(f) \in Nat /\ t \in Seq(Byte) /\ Len(t) = Length(f)
      /\ \A i \in 1..Len(t) : t[i].frame = f /\ t[i].at = i
  <2>1. /\ Length(f) \in Nat /\ t \in Seq(Byte) /\ Len(t) = Length(f)
        /\ \A i \in 1..Length(f) : t[i] = [frame |-> f, at |-> i]
    BY WholeFrame
  <2> HIDE DEF t
  <2> QED
    BY <2>1
<1> HIDE DEF t
<1>7. /\ Len(line') = n + Len(t) /\ n \in Nat /\ Len(t) \in Nat
      /\ \A i \in 1..n : line'[i] = line[i]
      /\ \A i \in 1..Len(line') : i \notin 1..n =>
            line'[i].frame = f /\ line'[i].at = i - n /\ i - n \in 1..Len(t)
  <2>1. line' = line \o t
    BY <1>5 DEF t
  <2>2. line' = line \o t /\ t \in Seq(Byte) /\ line \in Seq(Byte)
    BY <1>0, <1>6, <2>1
  <2>3. /\ Len(line') = n + Len(t) /\ n \in Nat /\ Len(t) \in Nat
        /\ \A i \in 1..n : line'[i] = line[i]
        /\ \A i \in 1..Len(line') : i \notin 1..n =>
              line'[i] = t[i - n] /\ i - n \in 1..Len(t)
    BY <2>2, Joined
  <2> QED
    BY <1>6, <2>3
<1>8. /\ Len(wire') = Len(wire) - 1 /\ Len(wire') \in Nat /\ 1 \in 1..Len(wire)
      /\ \A i \in 1..Len(wire') : wire'[i] = wire[1 + i] /\ 1 + i \in 1..Len(wire)
  BY <1>0, <1>1
<1>9. \A i \in 1..n : line[i].frame.of # f.of
  BY <1>5, <1>8 DEF Carrying, Once
<1> HIDE DEF n
<1>10. Blocks'
  <2> SUFFICES ASSUME NEW i \in 1..Len(line'), NEW j \in 1..Len(line'), i <= j,
                      line'[i].frame.of = line'[j].frame.of, NEW k \in i..j
               PROVE  line'[k].frame = line'[i].frame /\ line'[k].at = line'[i].at + (k - i)
    BY DEF Blocks
  <2>1. k \in 1..Len(line') /\ i \in Int /\ j \in Int /\ k \in Int
    BY <1>7
  <2>2. CASE j \in 1..n
    <3>1. i \in 1..n /\ k \in 1..n
      BY <1>7, <2>1, <2>2
    <3>2. line[i].frame.of = line[j].frame.of
      BY <1>7, <2>2, <3>1
    <3>3. line[k].frame = line[i].frame /\ line[k].at = line[i].at + (k - i)
      BY <2>2, <3>1, <3>2 DEF Carrying, Blocks, n
    <3> QED
      BY <1>7, <3>1, <3>3
  <2>3. CASE j \notin 1..n
    <3>1. line'[j].frame = f
      BY <1>7, <2>3
    <3>2. i \notin 1..n
      BY <1>7, <1>9, <3>1
    <3>3. k \notin 1..n
      BY <1>7, <2>1, <3>2
    <3> QED
      BY <1>7, <2>1, <3>2, <3>3
  <2> QED
    BY <2>2, <2>3
<1>11. Once'
  <2>0. \A q : OnItsWay(q) => OnItsWay(q)'
    BY <1>1 DEF OnItsWay
  <2>1. \A i, j \in 1..Len(wire') : wire'[i] = wire'[j] => i = j
    <3> SUFFICES ASSUME NEW i \in 1..Len(wire'), NEW j \in 1..Len(wire'), wire'[i] = wire'[j]
                 PROVE  i = j
      OBVIOUS
    <3>1. 1 + i = 1 + j
      BY <1>8 DEF Carrying, Once
    <3> QED
      BY <1>8, <3>1
  <2>2. \A r \in Requests, i \in 1..Len(wire') : wire'[i] = r => OnItsWay(r)'
    BY <1>8, <2>0 DEF Carrying, Once
  <2>3. \A r \in Requests, j \in 1..Len(line') : line'[j].frame.of = r => OnItsWay(r)'
    <3>1. OnItsWay(f.of)
      BY <1>0, <1>5, <1>8 DEF Carrying, Once
    <3>2. \A r \in Requests, j \in 1..n : line[j].frame.of = r => OnItsWay(r)
      BY DEF Carrying, Once, n
    <3> QED
      BY <1>7, <2>0, <3>1, <3>2
  <2>4. \A i \in 1..Len(wire'), j \in 1..Len(line') : wire'[i] # line'[j].frame.of
    <3> SUFFICES ASSUME NEW i \in 1..Len(wire'), NEW j \in 1..Len(line')
                 PROVE  wire'[i] # line'[j].frame.of
      OBVIOUS
    <3>1. wire'[i] = wire[1 + i] /\ 1 + i \in 1..Len(wire) /\ 1 + i # 1
      BY <1>8
    <3>2. CASE j \in 1..n
      BY <1>7, <3>1, <3>2 DEF Carrying, Once, n
    <3>3. CASE j \notin 1..n
      <4>1. line'[j].frame.of = wire[1]
        BY <1>5, <1>7, <3>3
      <4> QED
        BY <1>8, <3>1, <4>1 DEF Carrying, Once
    <3> QED
      BY <3>2, <3>3
  <2> QED
    BY <2>1, <2>2, <2>3, <2>4 DEF Once
<1>12. Echoes'
  <2> SUFFICES ASSUME NEW c \in Clients, NEW i \in 1..Len(line'),
                      asked[c] # NoRequest, line'[i].at = 1, line'[i].frame.form = "answer",
                      SameWrite(line'[i].frame.of, asked[c])
               PROVE  asked[c] \in carried'
    BY <1>1 DEF Echoes, SameWrite, Alike
  <2>1. CASE i \in 1..n
    <3>1. asked[c] \in carried
      BY <1>7, <2>1 DEF Carrying, Echoes, n
    <3> QED
      BY <1>5, <3>1
  <2>2. CASE i \notin 1..n
    <3>1. line'[i].frame = f
      BY <1>7, <2>2
    <3>2. Obey(f.of) /\ SameWrite(f.of, asked[c])
      BY <1>5, <3>1
    <3> QED
      BY <3>2 DEF Obey
  <2> QED
    BY <2>1, <2>2
<1>13. Asking' /\ ConfirmedMeansCarriedOut'
  BY <1>1, <1>5 DEF Carrying, Asking, ConfirmedMeansCarriedOut
<1> QED
  BY <1>10, <1>11, <1>12, <1>13 DEF Carrying, WritesPerCommand

\* The steps of a client beside the sending.
LEMMA ProceedCarrying ==
    ASSUME Carrying, Typing', NEW c \in Clients, Proceed(c)
    PROVE  Carrying'
<1>0. /\ line \in Seq(Byte) /\ Len(line) \in Nat /\ pc \in [Clients -> Controls]
      /\ asked \in [Clients -> Requests \cup {NoRequest}]
  BY CarryingTypes
<1>1. SubSeq(line, 0 + 1, Len(line)) = line /\ 0 \in 0..Len(line)
  BY <1>0
<1>3. ASSUME Fail(c), asked[c] \in Requests, UNCHANGED <<wire, line, carried>>
      PROVE  Carrying'
  BY <1>1, <1>3, EndCarrying DEF Fail
<1>4. pc[c] # "idle" /\ pc[c] # "down" => asked[c] \in Requests
  BY <1>0 DEF Carrying, Typing, Occupied, Controls
<1>5. CASE TakeLock(c) \/ GoUncoordinated(c)
  <2>1. /\ UNCHANGED <<asked, outcome, wire, line, carried>>
        /\ pc[c] = "locking" /\ pc' = [pc EXCEPT ![c] = "sending"]
    BY <1>5 DEF TakeLock, GoUncoordinated, bus, results, history
  <2>2. \A d \in Clients : pc'[d] = pc[d] \/ (pc[d] = "locking" /\ pc'[d] = "sending")
    BY <1>0, <2>1
  <2> QED
    BY <1>1, <2>1, <2>2, StepCarrying
<1>6. CASE GiveUp(c) \/ CannotSend(c) \/ CannotRead(c)
  <2>1. Fail(c) /\ UNCHANGED <<wire, line, carried>>
    BY <1>6 DEF GiveUp, CannotSend, CannotRead, bus, history
  <2>2. pc[c] \in Exchange \cup {"locking"}
    BY <1>6 DEF GiveUp, CannotSend, CannotRead, Exchange, Reading
  <2> QED
    BY <1>3, <1>4, <2>1, <2>2 DEF Exchange, Reading
<1>11. CASE TimeOut(c)
  <2>1. PICK n \in 0..Len(line) : Leave(n)
    BY <1>11 DEF TimeOut
  <2>2. PICK m \in 0..Len(line) : line' = SubSeq(line, m + 1, Len(line))
    BY <1>0, <2>1, LeftOver
  <2>3. Fail(c) /\ UNCHANGED <<wire, carried>> /\ asked[c] \in Requests
    BY <1>4, <1>11 DEF TimeOut, Reading
  <2> QED
    BY <2>2, <2>3, EndCarrying DEF Fail
<1>7. CASE Send(c)
  BY <1>7, SendCarrying
<1>8. CASE ReadHeader(c)
  <2>1. /\ pc[c] = "header" /\ UNCHANGED <<wire, carried>> /\ 3 \in 0..Len(line)
        /\ line' = SubSeq(line, 3 + 1, Len(line))
    BY <1>0, <1>8 DEF ReadHeader, Take, history
  <2>2. CASE Fail(c)
    BY <1>4, <2>1, <2>2, EndCarrying DEF Fail
  <2>3. CASE ~Fail(c)
    <3>1. pc' = [pc EXCEPT ![c] = "body"] /\ UNCHANGED <<asked, outcome>>
      BY <1>8, <2>3 DEF ReadHeader, results
    <3>2. \A d \in Clients : pc'[d] = pc[d] \/ (pc[d] = "header" /\ pc'[d] = "body")
      BY <1>0, <2>1, <3>1
    <3> QED
      BY <2>1, <3>1, <3>2, StepCarrying
  <2> QED
    BY <2>2, <2>3
<1>9. CASE ReadBody(c)
  <2>1. pc[c] = "body" /\ head[c] \in Frame /\ UNCHANGED <<wire, carried>>
    BY <1>9 DEF ReadBody, Carrying, Typing, Occupied, history
  <2>2. Length(head[c]) - 3 \in Nat
    BY <2>1, LengthIs
  <2>3. PICK m \in 0..Len(line) : line' = SubSeq(line, m + 1, Len(line))
    <3> DEFINE k == Length(head[c]) - 3
    <3>1. Len(line) >= k /\ line' = SubSeq(line, k + 1, Len(line))
      BY <1>9 DEF ReadBody, Take
    <3>2. k \in Nat
      BY <2>2
    <3> HIDE DEF k
    <3>3. k \in 0..Len(line)
      BY <1>0, <3>1, <3>2
    <3> QED
      BY <3>1, <3>3
  <2>4. Asks[asked[c]].kind # "coil"
    BY <2>1 DEF Carrying, Asking
  <2>5. PICK said \in {"answered", "failed"} : Finish(c, said)
    BY <1>9 DEF ReadBody, Fail, Answered
  <2> QED
    BY <1>4, <2>1, <2>3, <2>4, <2>5, EndCarrying
<1>10. CASE ReadEcho(c)
  <2>1. /\ pc[c] = "echo" /\ UNCHANGED <<wire, carried>> /\ 8 \in 0..Len(line)
        /\ line' = SubSeq(line, 8 + 1, Len(line))
    BY <1>0, <1>10 DEF ReadEcho, Take, history
  <2>2. CASE Fail(c)
    BY <1>4, <2>1, <2>2, EndCarrying DEF Fail
  <2>3. CASE ~Fail(c)
    <3> DEFINE f == line[1].frame
    <3>1. /\ Finish(c, "answered") /\ f.form = "answer" /\ SameWrite(f.of, asked[c])
          /\ First(8) = Bytes(f, 1, 8)
      BY <1>10, <2>3 DEF ReadEcho, Answered
    <3>2. 1 \in 1..Len(line) /\ f \in Frame
      <4>1. 1 \in 1..Len(line) /\ line[1] \in Byte
        BY <1>0, <2>1
      <4> QED
        BY <4>1 DEF Byte
    <3>3. line[1].at = 1
      <4>1. First(8)[1] = line[1]
        BY <1>0, <2>1 DEF First
      <4>2. Bytes(f, 1, 8)[1] = [frame |-> f, at |-> 1]
        BY DEF Bytes
      <4> QED
        BY <3>1, <4>1, <4>2
    <3>4. asked[c] \in Requests
      BY <1>4, <2>1
    <3>5. asked[c] # NoRequest
      BY <3>4, BusAssumption
    <3>6. asked[c] \in carried
      BY <3>1, <3>2, <3>3, <3>5 DEF Carrying, Echoes
    <3> QED
      BY <2>1, <3>1, <3>4, <3>6, EndCarrying
  <2> QED
    BY <2>2, <2>3
<1> QED
  BY <1>5, <1>6, <1>7, <1>8, <1>9, <1>10, <1>11 DEF Proceed

\* A lost request or answer, a process that ends and one that starts.
LEMMA RestCarrying ==
    ASSUME Carrying, Typing', StaySilent \/ \E c \in Clients : Crash(c) \/ Start(c)
    PROVE  Carrying'
<1>0. /\ line \in Seq(Byte) /\ Len(line) \in Nat /\ pc \in [Clients -> Controls]
      /\ asked \in [Clients -> Requests \cup {NoRequest}] /\ NoRequest \notin Requests
      /\ outcome \in [Requests -> Outcomes]
  BY CarryingTypes
<1>1. SubSeq(line, 0 + 1, Len(line)) = line /\ 0 \in 0..Len(line)
  BY <1>0
<1>2. CASE StaySilent
  <2>1. /\ wire # <<>> /\ wire' = Tail(wire) /\ carried \subseteq carried'
        /\ UNCHANGED <<pc, asked, outcome, line>>
    BY <1>2 DEF StaySilent, Obey, local, results
  <2> QED
    BY <1>1, <2>1, StepCarrying
<1>3. ASSUME NEW c \in Clients, Crash(c) PROVE Carrying'
  <2>1. /\ pc' = [pc EXCEPT ![c] = "down"] /\ asked' = [asked EXCEPT ![c] = NoRequest]
        /\ outcome' = [r \in Requests |-> IF r = asked[c] THEN "lost" ELSE outcome[r]]
        /\ UNCHANGED <<wire, line, carried>>
    BY <1>3 DEF Crash, bus
  <2>2. Asking'
    <3>1. \A d \in Clients \ {c} : asked[d] # NoRequest => asked[d] # asked[c] /\ asked[d] \in Requests
      BY <1>0 DEF Carrying, Asking
    <3> QED
      BY <1>0, <2>1, <3>1 DEF Carrying, Asking
  <2>3. \A r \in Requests : OnItsWay(r) => OnItsWay(r)'
    BY <1>0, <2>1 DEF OnItsWay
  <2>4. \A d \in Clients : asked'[d] \in {asked[d], NoRequest}
    BY <1>0, <2>1
  <2>5. ConfirmedMeansCarriedOut'
    BY <2>1 DEF Carrying, ConfirmedMeansCarriedOut
  <2>6. Blocks' /\ Once' /\ Echoes'
    BY <1>1, <2>1, <2>3, <2>4, KeptCarrying
  <2> QED
    BY <2>2, <2>5, <2>6 DEF Carrying, WritesPerCommand
<1>4. ASSUME NEW c \in Clients, Start(c) PROVE Carrying'
  <2>1. /\ pc[c] = "down" /\ pc' = [pc EXCEPT ![c] = "idle"]
        /\ UNCHANGED <<asked, outcome, wire, carried>>
    BY <1>4 DEF Start, results
  <2>2. PICK m \in 0..Len(line) : line' = SubSeq(line, m + 1, Len(line))
    <3>1. CASE Discard
      BY <3>1, OpenedHeadless
    <3>2. CASE UNCHANGED line
      BY <1>1, <3>2
    <3>3. Discard \/ UNCHANGED line
      BY <1>4 DEF Start
    <3> QED
      BY <3>1, <3>2, <3>3
  <2>3. \A d \in Clients : pc'[d] = pc[d] \/ (pc[d] = "down" /\ pc'[d] = "idle")
    BY <1>0, <2>1
  <2> QED
    BY <2>1, <2>2, <2>3, StepCarrying
<1> QED
  BY <1>2, <1>3, <1>4

\* Every step keeps what makes a confirmation true.
LEMMA CarryingNext == Carrying /\ [Next]_vars => Carrying'
<1> SUFFICES ASSUME Carrying, [Next]_vars PROVE Carrying'
  OBVIOUS
<1>1. Typing'
  BY TypingNext DEF Carrying
<1>2. CASE UNCHANGED vars
  <2>1. UNCHANGED <<pc, asked, outcome, wire, line, carried>>
    BY <1>2 DEF vars, local, bus, results, history
  <2> QED
    BY <1>1, <2>1 DEF Carrying, WritesPerCommand, Blocks, Once, OnItsWay, Asking, Echoes,
                      ConfirmedMeansCarriedOut
<1> QED
  BY <1>1, <1>2, AskCarrying, ProceedCarrying, ReplyCarrying, RestCarrying DEF Next, Device

\* Where every coil write opens its port, a confirmed one was carried out while it was
\* being made, with the lock or without, whatever fails (modbus_pyserial_write.py).
THEOREM ConfirmedMeansCarriedOutAlways ==
    WritesPerCommand /\ Spec => []ConfirmedMeansCarriedOut
<1>1. WritesPerCommand /\ Init => Carrying
  <2> SUFFICES ASSUME WritesPerCommand, Init PROVE Carrying
    OBVIOUS
  <2>1. Len(line) = 0 /\ Len(wire) = 0
    BY DEF Init
  <2>2. Blocks /\ Once /\ Echoes
    BY <2>1 DEF Blocks, Once, Echoes
  <2>3. Asking /\ ConfirmedMeansCarriedOut
    BY DEF Init, Asking, ConfirmedMeansCarriedOut
  <2> QED
    BY <2>2, <2>3, TypingInit DEF Carrying
<1>2. Carrying => ConfirmedMeansCarriedOut
  BY DEF Carrying
<1> QED
  BY <1>1, <1>2, CarryingNext, PTL DEF Spec

-------------------------------------------------------------------------------
(***************************************************************************)
(* What the checks on a frame are worth: an answer that is returned has    *)
(* the unit, the kind and the quantity of what was asked, whoever asked    *)
(* for it.                                                                 *)
(***************************************************************************)

\* The head that was read, and the answer that was returned, fit the request.
Fitting ==
    /\ \A c \in Clients : pc[c] = "body" =>
          head[c].form = "exception" \/ Alike(head[c].of, asked[c])
    /\ \A r \in Requests :
          outcome[r] = "answered" => source[r] \in Requests /\ Alike(source[r], r)

\* A step that reads nothing and answers nothing leaves what was read alone.
LEMMA AsideFitting ==
    ASSUME Typing, Fitting, UNCHANGED source,
           \A c \in Clients : \/ pc'[c] # "body"
                              \/ pc'[c] = pc[c] /\ asked'[c] = asked[c] /\ head'[c] = head[c],
           \A r \in Requests : outcome'[r] = "answered" => outcome[r] = "answered"
    PROVE  Fitting'
  BY DEF Fitting, Alike

\* A request that fails is not answered.
LEMMA FailFitting ==
    ASSUME Typing, Fitting, NEW c \in Clients, Fail(c)
    PROVE  Fitting'
<1>1. \A d \in Clients : pc'[d] # "body" \/ (pc'[d] = pc[d] /\ asked'[d] = asked[d] /\ head'[d] = head[d])
  BY DEF Fail, Finish, Typing, TypeOK
<1>2. \A r \in Requests : outcome'[r] = "answered" => outcome[r] = "answered"
  BY DEF Fail, Finish, Typing, TypeOK
<1> QED
  BY <1>1, <1>2, AsideFitting DEF Fail

\* A request that is answered is answered with a frame that fits.
LEMMA AnsweredFitting ==
    ASSUME Typing, Fitting, NEW c \in Clients, asked[c] \in Requests, NEW f, f.of \in Requests,
           Alike(f.of, asked[c]), Answered(c, f)
    PROVE  Fitting'
<1>1. \A d \in Clients : pc'[d] # "body" \/ (pc'[d] = pc[d] /\ asked'[d] = asked[d] /\ head'[d] = head[d])
  BY DEF Answered, Finish, Typing, TypeOK
<1>2. \A r \in Requests : IF r = asked[c] THEN source'[r] = f.of
                          ELSE source'[r] = source[r] /\ outcome'[r] = outcome[r]
  BY DEF Answered, Finish, Typing, TypeOK
<1> QED
  BY <1>1, <1>2 DEF Fitting, Alike

\* Every step keeps it, whatever the lock, the line and the devices do.
LEMMA FittingNext == Typing /\ Fitting /\ [Next]_vars => Fitting'
<1> SUFFICES ASSUME Typing, Fitting, [Next]_vars PROVE Fitting'
  OBVIOUS
<1> USE DEF Typing, TypeOK
<1>1. ASSUME NEW c \in Clients, NEW r \in Requests, Ask(c, r) \/ AskOpening(c, r) \/ CannotOpen(c, r)
      PROVE  Fitting'
  BY <1>1, AsideFitting DEF Ask, AskOpening, CannotOpen, local
<1>2. ASSUME NEW c \in Clients,
             GiveUp(c) \/ CannotSend(c) \/ TimeOut(c) \/ CannotRead(c)
      PROVE  Fitting'
  BY <1>2, FailFitting DEF GiveUp, CannotSend, TimeOut, CannotRead
<1>3. ASSUME NEW c \in Clients, TakeLock(c) \/ GoUncoordinated(c) \/ Send(c) PROVE Fitting'
  BY <1>3, AsideFitting DEF TakeLock, GoUncoordinated, Send, results
<1>4. ASSUME NEW c \in Clients, ReadHeader(c) PROVE Fitting'
  <2>1. CASE Fail(c)
    BY <2>1, FailFitting
  <2>2. CASE ~Fail(c)
    <3> DEFINE f == line[1].frame
    <3>1. /\ f.form = "exception" \/ Alike(f.of, asked[c])
          /\ head' = [head EXCEPT ![c] = f] /\ pc' = [pc EXCEPT ![c] = "body"]
          /\ UNCHANGED <<asked, outcome, source>>
      BY <1>4, <2>2 DEF ReadHeader, Opens, results
    <3> HIDE DEF f
    <3> QED
      BY <3>1 DEF Fitting, Alike
  <2> QED
    BY <2>1, <2>2
<1>5. ASSUME NEW c \in Clients, ReadBody(c) PROVE Fitting'
  <2>1. CASE Fail(c)
    BY <2>1, FailFitting
  <2>2. CASE ~Fail(c)
    <3>1. /\ pc[c] = "body" /\ asked[c] \in Requests /\ head[c] \in Frame
          /\ head[c].form = "answer" /\ Answered(c, head[c])
      BY <1>5, <2>2 DEF ReadBody, Occupied, Exchange, Reading
    <3>2. Alike(head[c].of, asked[c]) /\ head[c].of \in Requests
      BY <3>1 DEF Fitting, Frame
    <3> QED
      BY <3>1, <3>2, AnsweredFitting
  <2> QED
    BY <2>1, <2>2
<1>6. ASSUME NEW c \in Clients, ReadEcho(c) PROVE Fitting'
  <2>1. CASE Fail(c)
    BY <2>1, FailFitting
  <2>2. CASE ~Fail(c)
    <3> DEFINE f == line[1].frame
    <3>1. /\ pc[c] = "echo" /\ asked[c] \in Requests /\ Alike(f.of, asked[c]) /\ Answered(c, f)
      BY <1>6, <2>2 DEF ReadEcho, SameWrite, Occupied, Exchange, Reading
    <3>2. line \in Seq(Byte) /\ Len(line) >= 8
      BY <1>6 DEF ReadEcho, Take, Byte
    <3>3. f \in Frame
      <4>1. line[1] \in Byte
        BY <3>2
      <4> QED
        BY <4>1 DEF Byte
    <3>4. f.of \in Requests
      BY <3>3 DEF Frame
    <3> HIDE DEF f
    <3> QED
      BY <3>1, <3>4, AnsweredFitting
  <2> QED
    BY <2>1, <2>2
<1>7. ASSUME NEW c \in Clients, Crash(c) PROVE Fitting'
  BY <1>7, AsideFitting DEF Crash
<1>8. ASSUME NEW c \in Clients, Start(c) PROVE Fitting'
  BY <1>8, AsideFitting DEF Start, results
<1>9. CASE Device
  BY <1>9, AsideFitting DEF Device, Reply, StaySilent, local, results
<1>10. CASE UNCHANGED vars
  BY <1>10, AsideFitting DEF vars, local, results
<1> QED
  BY <1>1, <1>2, <1>3, <1>4, <1>5, <1>6, <1>7, <1>8, <1>9, <1>10 DEF Next, Proceed

LEMMA FittingAlways == Spec => []Fitting
<1>1. Init => Fitting
  BY DEF Init, Fitting
<1> QED
  BY <1>1, TypingInit, TypingNext, FittingNext, PTL DEF Spec

\* With a broken lock, noise, crashes or lost answers alike: an answer that is not
\* one's own is at least an answer to a request of the same form, for the same unit
\* (modbus_pyserial_transport.py: _validate_read_header, and the echo of the write).
THEOREM ForeignAnswersFit == Spec => [](\A r \in Requests : Foreign(r) => Alike(source[r], r))
<1>1. Fitting => \A r \in Requests : Foreign(r) => Alike(source[r], r)
  BY DEF Fitting, Foreign
<1> QED
  BY <1>1, FittingAlways, PTL

\* No two requests have the same form.
AllDiffer == \A r, q \in Requests : Alike(r, q) => r = q

\* Where no two requests on the segment have the same form, a lost race does produce a
\* failed read, as port_lock.py says, and a damaged byte costs no other reading.
THEOREM LostRacesFail ==
    ASSUME AllDiffer
    PROVE  Spec => [](LostRaceFails /\ ResponsesCorrelated)
<1>1. Typing /\ Fitting => LostRaceFails /\ ResponsesCorrelated
  <2> SUFFICES ASSUME Typing, Fitting PROVE LostRaceFails /\ ResponsesCorrelated
    OBVIOUS
  <2>1. \A r \in Requests : outcome[r] = "answered" => source[r] = r
    BY DEF Fitting, AllDiffer
  <2> QED
    BY <2>1 DEF LostRaceFails, ResponsesCorrelated, Foreign
<1> QED
  BY <1>1, FittingAlways, TypingInit, TypingNext, PTL DEF Spec

-------------------------------------------------------------------------------
(***************************************************************************)
(* The lock, as long as its file opens and descriptors last.               *)
(***************************************************************************)

RequestsOf(c) == {r \in Requests : Asks[r].client = c}

Made(c) == {r \in RequestsOf(c) : outcome[r] # "unasked"}

\* The lock file opens, and a process that opens one lock for each of its exchanges
\* makes no more of them than it may have files open.
LocksLast ==
    /\ "nolock" \notin Faults
    /\ \A c \in PerCommand :
          /\ IsFiniteSet(RequestsOf(c))
          /\ Cardinality(RequestsOf(c)) <= Descriptors

\* Nobody does without the lock.
Locked ==
    \A c \in Clients :
        /\ pc[c] = "locking" => active[c]
        /\ pc[c] # "down" /\ c \notin PerCommand => active[c]
        /\ pc[c] \in Exchange => holder = c

\* A descriptor that is left open was opened for a request.
Counted ==
    \A c \in PerCommand :
        /\ IsFiniteSet(RequestsOf(c))
        /\ descriptors[c] <= Cardinality(Made(c))

\* What has been asked stays asked.
LEMMA MadeGrows ==
    ASSUME Typing, Counted, NEW c \in PerCommand, descriptors' \in [Clients -> Nat],
           descriptors'[c] <= descriptors[c],
           \A r \in Requests : outcome[r] # "unasked" => outcome'[r] # "unasked"
    PROVE  descriptors'[c] <= Cardinality(Made(c)')
<1>1. IsFiniteSet(Made(c)') /\ Made(c) \subseteq Made(c)'
  <2>1. Made(c)' \subseteq RequestsOf(c) /\ Made(c) \subseteq Made(c)'
    BY DEF Made, RequestsOf
  <2> QED
    BY <2>1, FS_Subset DEF Counted
<1>2. /\ Cardinality(Made(c)) \in Nat /\ Cardinality(Made(c)') \in Nat
      /\ Cardinality(Made(c)) <= Cardinality(Made(c)')
  BY <1>1, FS_Subset, FS_CardinalityType
<1>3. descriptors[c] \in Nat /\ descriptors'[c] \in Nat
  BY BusAssumption DEF Typing, TypeOK
<1>4. descriptors[c] <= Cardinality(Made(c))
  BY DEF Counted
<1> HIDE DEF Made
<1> QED
  BY <1>2, <1>3, <1>4

\* A request for which a lock is opened finds a descriptor for it.
LEMMA OpeningLocked ==
    ASSUME LocksLast, Typing, Counted, NEW c \in PerCommand, NEW r \in Requests,
           AskOpening(c, r)
    PROVE  /\ active' = [active EXCEPT ![c] = TRUE]
           /\ descriptors'[c] <= Cardinality(Made(c)')
<1>1. c \in Clients /\ Descriptors \in Nat /\ r \in RequestsOf(c) /\ outcome[r] = "unasked"
  BY BusAssumption DEF AskOpening, RequestsOf
<1>2. descriptors[c] \in 0..Descriptors
  BY <1>1 DEF Typing, TypeOK
<1>3. /\ IsFiniteSet(Made(c)) /\ r \notin Made(c) /\ Made(c)' = Made(c) \cup {r}
      /\ Made(c)' \subseteq RequestsOf(c) /\ IsFiniteSet(RequestsOf(c))
  <2>1. Made(c) \subseteq RequestsOf(c) /\ IsFiniteSet(RequestsOf(c))
    BY DEF Made, Counted
  <2>2. r \notin Made(c) /\ Made(c)' = Made(c) \cup {r}
    BY <1>1 DEF AskOpening, Made, Typing, TypeOK, RequestsOf
  <2> QED
    BY <1>1, <2>1, <2>2, FS_Subset
<1>4. /\ Cardinality(Made(c)) \in Nat /\ Cardinality(Made(c)') = Cardinality(Made(c)) + 1
      /\ Cardinality(Made(c)') <= Cardinality(RequestsOf(c))
      /\ Cardinality(RequestsOf(c)) \in Nat
  BY <1>3, FS_AddElement, FS_Subset, FS_CardinalityType
<1>5. /\ descriptors[c] <= Cardinality(Made(c))
      /\ Cardinality(RequestsOf(c)) <= Descriptors
  BY DEF Counted, LocksLast
<1> HIDE DEF Made, RequestsOf
<1>6. descriptors[c] < Descriptors
  BY <1>1, <1>2, <1>4, <1>5
<1>7. /\ active' = [active EXCEPT ![c] = TRUE]
      /\ descriptors' = [descriptors EXCEPT ![c] = descriptors[c] + 1]
  BY <1>1, <1>2, <1>6 DEF AskOpening, OpenLock, LocksLast, Strike
<1>8. descriptors'[c] = descriptors[c] + 1
  BY <1>1, <1>7 DEF Typing, TypeOK
<1> QED
  BY <1>2, <1>4, <1>5, <1>7, <1>8

\* No step opens a lock that nothing was asked with.
LEMMA CountedNext == LocksLast /\ Typing /\ Counted /\ [Next]_vars => Counted'
<1> SUFFICES ASSUME LocksLast, Typing, Counted, [Next]_vars, NEW c \in PerCommand
             PROVE  descriptors'[c] <= Cardinality(Made(c)')
  BY DEF Counted, RequestsOf
<1>1. c \in Clients /\ descriptors \in [Clients -> Nat] /\ descriptors' \in [Clients -> Nat]
  BY TypingNext, BusAssumption DEF Typing, TypeOK
<1>2. \A n \in Nat : n <= n
  OBVIOUS
<1>3. CASE /\ descriptors'[c] <= descriptors[c]
           /\ \A r \in Requests : outcome[r] # "unasked" => outcome'[r] # "unasked"
  BY <1>1, <1>3, MadeGrows
<1>4. ASSUME NEW d \in Clients, NEW r \in Requests,
             Ask(d, r) \/ CannotOpen(d, r) \/ (AskOpening(d, r) /\ d # c)
      PROVE  /\ descriptors'[c] = descriptors[c]
             /\ \A q \in Requests : outcome[q] # "unasked" => outcome'[q] # "unasked"
  BY <1>1, <1>4 DEF Ask, CannotOpen, AskOpening, OpenLock, locking, Typing, TypeOK
<1>5. ASSUME NEW r \in Requests, AskOpening(c, r)
      PROVE  descriptors'[c] <= Cardinality(Made(c)')
  BY <1>5, OpeningLocked
<1>6. ASSUME NEW d \in Clients, Proceed(d)
      PROVE  /\ descriptors'[c] = descriptors[c]
             /\ \A q \in Requests : outcome[q] # "unasked" => outcome'[q] # "unasked"
  BY <1>6 DEF Proceed, TakeLock, GoUncoordinated, GiveUp, Send, CannotSend, ReadHeader, ReadBody,
              ReadEcho, TimeOut, CannotRead, Fail, Answered, Finish, locking, results,
              Typing, TypeOK
<1>7. ASSUME NEW d \in Clients, Crash(d) \/ Start(d)
      PROVE  /\ descriptors'[c] \in {0, descriptors[c]}
             /\ \A q \in Requests : outcome[q] # "unasked" => outcome'[q] # "unasked"
  BY <1>1, <1>7 DEF Crash, Start, results, Typing, TypeOK
<1>8. CASE Device \/ UNCHANGED vars
  BY <1>1, <1>2, <1>3, <1>8 DEF Device, Reply, StaySilent, locking, results, vars
<1>9. 0 <= descriptors[c] /\ descriptors[c] <= descriptors[c]
  BY <1>1
<1> QED
  BY <1>3, <1>4, <1>5, <1>6, <1>7, <1>8, <1>9 DEF Next

\* Every step of everybody goes through the lock.
LEMMA LockedNext ==
    LocksLast /\ Typing /\ Counted /\ Held /\ Locked /\ [Next]_vars => Locked'
<1> SUFFICES ASSUME LocksLast, Typing, Counted, Held, Locked, [Next]_vars PROVE Locked'
  OBVIOUS
<1>0. /\ pc \in [Clients -> Controls] /\ active \in [Clients -> BOOLEAN]
      /\ NoClient \notin Clients
  BY BusAssumption DEF Typing, TypeOK
<1>1. ASSUME NEW c \in Clients, NEW said, Finish(c, said), UNCHANGED active, pc[c] # "down"
      PROVE  Locked'
  BY <1>0, <1>1 DEF Finish, Locked, Exchange, Reading
<1>2. ASSUME NEW c \in Clients, NEW r \in Requests, Ask(c, r) \/ CannotOpen(c, r) PROVE Locked'
  BY <1>0, <1>2 DEF Ask, CannotOpen, Locked, Exchange, Reading, local, locking
<1>3. ASSUME NEW c \in Clients, NEW r \in Requests, AskOpening(c, r) PROVE Locked'
  <2>1. active' = [active EXCEPT ![c] = TRUE]
    BY <1>3, OpeningLocked DEF AskOpening
  <2> QED
    BY <1>0, <1>3, <2>1 DEF AskOpening, Locked, Exchange, Reading
<1>4. ASSUME NEW c \in Clients, TakeLock(c) PROVE Locked'
  BY <1>0, <1>4 DEF TakeLock, Locked, Exchange, Reading
<1>5. ASSUME NEW c \in Clients, GoUncoordinated(c) PROVE FALSE
  BY <1>5 DEF GoUncoordinated, Locked
<1>6. ASSUME NEW c \in Clients, Send(c) PROVE Locked'
  BY <1>0, <1>6 DEF Send, Locked, Exchange, Reading, locking
<1>7. ASSUME NEW c \in Clients,
             GiveUp(c) \/ CannotSend(c) \/ ReadBody(c) \/ ReadEcho(c) \/ TimeOut(c) \/ CannotRead(c)
      PROVE  Locked'
  BY <1>1, <1>7 DEF GiveUp, CannotSend, ReadBody, ReadEcho, TimeOut, CannotRead, Fail, Answered,
                    Reading
<1>8. ASSUME NEW c \in Clients, ReadHeader(c) PROVE Locked'
  <2>1. CASE Fail(c)
    BY <1>1, <1>8, <2>1 DEF ReadHeader, Fail
  <2>2. CASE ~Fail(c)
    <3>1. /\ pc[c] = "header" /\ pc' = [pc EXCEPT ![c] = "body"] /\ UNCHANGED <<holder, active>>
      BY <1>8, <2>2 DEF ReadHeader
    <3> QED
      BY <1>0, <3>1 DEF Locked, Exchange, Reading
  <2> QED
    BY <2>1, <2>2
<1>9. ASSUME NEW c \in Clients, Crash(c) PROVE Locked'
  BY <1>0, <1>9 DEF Crash, Locked, Exchange, Reading
<1>10. ASSUME NEW c \in Clients, Start(c) PROVE Locked'
  BY <1>0, <1>10 DEF Start, Strike, LocksLast, Locked, Exchange, Reading
<1>11. CASE Device \/ UNCHANGED vars
  BY <1>11 DEF Device, Reply, StaySilent, Locked, local, locking, vars
<1> QED
  BY <1>2, <1>3, <1>4, <1>5, <1>6, <1>7, <1>8, <1>9, <1>10, <1>11 DEF Next, Proceed

\* While the lock file opens and descriptors last, no two exchanges overlap, whatever
\* else fails: "With it, an exchange completes or waits" (port_lock.py).
THEOREM NothingInterleavesWhileLocksLast ==
    ASSUME LocksLast
    PROVE  Spec => []NothingInterleaves
<1>1. Init => Counted /\ Locked
  <2> SUFFICES ASSUME Init PROVE Counted /\ Locked
    OBVIOUS
  <2>1. Locked
    BY DEF Init, Locked, Exchange, Reading
  <2>2. ASSUME NEW c \in PerCommand
        PROVE  IsFiniteSet(RequestsOf(c)) /\ descriptors[c] <= Cardinality(Made(c))
    <3>1. IsFiniteSet(RequestsOf(c)) /\ descriptors[c] = 0
      BY BusAssumption DEF Init, LocksLast
    <3>2. Made(c) \subseteq RequestsOf(c)
      BY DEF Made
    <3>3. Cardinality(Made(c)) \in Nat
      BY <3>1, <3>2, FS_Subset, FS_CardinalityType
    <3> QED
      BY <3>1, <3>3
  <2> QED
    BY <2>1, <2>2 DEF Counted
<1>2. Locked => NothingInterleaves
  BY DEF Locked, NothingInterleaves
<1>3. LocksLast
  OBVIOUS
<1> QED
  BY <1>1, <1>2, <1>3, OrderInit, OrderNext, CountedNext, LockedNext, PTL DEF Spec, Order

-------------------------------------------------------------------------------
(***************************************************************************)
(* One client on the segment, and what leaves bytes behind.                *)
(***************************************************************************)

\* One client, and a line where it reads what it asked for to the end: no answer comes
\* after the read has run out of time, nothing raises and nobody ends in the middle of a
\* read, and no noise hits the head of an answer.
ReadToTheEnd ==
    /\ \A c, d \in Clients : c = d
    /\ {"late", "header", "serial", "crash"} \cap Faults = {}

Untainted == uncoordinated \/ ~tainted

\* An exchange that went ahead without the lock is not forgotten.
LEMMA UncoordinatedStays ==
    ASSUME uncoordinated, Typing, [Next]_vars
    PROVE  uncoordinated'
  BY DEF Next, Ask, AskOpening, CannotOpen, Proceed, TakeLock, GoUncoordinated, GiveUp, Send,
         CannotSend, ReadHeader, ReadBody, ReadEcho, TimeOut, CannotRead, Crash, Start, Device,
         Reply, StaySilent, vars, history

\* Nothing is in the buffer of a client who is in no exchange, when it opens the port.
LEMMA UntaintedNext == ReadToTheEnd /\ Order /\ Untainted /\ [Next]_vars => Untainted'
<1> SUFFICES ASSUME ReadToTheEnd, Order, ~uncoordinated, ~tainted, [Next]_vars
             PROVE  uncoordinated' \/ ~tainted'
  <2>1. ASSUME Order, uncoordinated, [Next]_vars PROVE uncoordinated'
    BY <2>1, UncoordinatedStays DEF Order
  <2> QED
    BY <2>1 DEF Untainted
<1>1. Orderly /\ Held /\ holder \in Clients \cup {NoClient}
  BY DEF Order, Settled, Typing, TypeOK
<1>2. ASSUME NEW c \in Clients, pc[c] \notin Exchange, Discard PROVE ~tainted'
  <2>1. holder = NoClient
    BY <1>1, <1>2 DEF Held, ReadToTheEnd
  <2>2. line = <<>>
    BY <1>1, <2>1 DEF Orderly, Quiet
  <2>3. line' = <<>>
    BY <1>2, <2>2, LeftOver DEF Discard
  <2> QED
    BY <1>2, <2>3 DEF Discard
<1>3. ASSUME NEW c \in Clients, NEW r \in Requests,
             Ask(c, r) \/ AskOpening(c, r) \/ CannotOpen(c, r)
      PROVE  ~tainted'
  BY <1>2, <1>3 DEF Ask, AskOpening, CannotOpen, Exchange, Reading, history
<1>4. ASSUME NEW c \in Clients, Proceed(c) PROVE ~tainted'
  BY <1>4 DEF Proceed, TakeLock, GoUncoordinated, GiveUp, Send, CannotSend, ReadHeader, ReadBody,
              ReadEcho, TimeOut, CannotRead, Strike, ReadToTheEnd, history
<1>5. ASSUME NEW c \in Clients, Crash(c) \/ Start(c) PROVE ~tainted'
  BY <1>2, <1>5 DEF Crash, Start, Strike, ReadToTheEnd, Exchange, Reading
<1>6. CASE Device
  BY <1>6 DEF Device, Reply, StaySilent, Strike, ReadToTheEnd
<1>7. CASE UNCHANGED vars
  BY <1>7 DEF vars, history
<1> QED
  BY <1>3, <1>4, <1>5, <1>6, <1>7 DEF Next

\* For one client whose reads come to their end, every answer is that of its own request,
\* however many are damaged in their body, refused or lost for good: then, and not after an
\* answer that comes late, "The next cycle is the retry"
\* (docs/ACQUISITION_RUNTIME.md:90).
THEOREM RetriesAreOwn ==
    ASSUME ReadToTheEnd
    PROVE  Spec => []ResponsesCorrelated
<1>1. Init => Untainted
  BY DEF Init, Untainted
<1>2. Order /\ Untainted => ResponsesCorrelated
  BY DEF Order, Settled, Untainted, Orderly, ResponsesCorrelated
<1>3. ReadToTheEnd
  OBVIOUS
<1> QED
  BY <1>1, <1>2, <1>3, OrderInit, OrderNext, UntaintedNext, PTL DEF Spec
===============================================================================
