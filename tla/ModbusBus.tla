------------------------------ MODULE ModbusBus ------------------------------
(***************************************************************************)
(* One RS485 segment shared by several GeoPilot processes: the exchanges   *)
(* of modbus_pyserial_transport.py and modbus_pyserial_write.py, held      *)
(* under the advisory lock of port_lock.py, over one serial device file    *)
(* whose input buffer every process that opened it reads from.             *)
(*                                                                         *)
(* A frame is who it answers and in what form; bytes are positions in a    *)
(* frame.  Contents are abstract: bytes that do not make up one undamaged  *)
(* frame from its start never pass the unit, function, count and CRC       *)
(* checks together.                                                        *)
(***************************************************************************)
EXTENDS Integers, Sequences

CONSTANTS
    Clients,      \* processes and request threads that use the segment
    PerCommand,   \* those that open the port for one exchange (SerialBus)
    Requests,     \* requests, each made once
    Asks,         \* what each request asks, and of whom
    Descriptors,  \* lock files one process may have open
    Faults,       \* which of the faults below may happen
    MaxStrikes,   \* how many times one of them may, in one history
    NoClient, NoRequest, NoFrame

(***************************************************************************)
(* "nolock"    the lock file cannot be opened                              *)
(* "port"      the serial port cannot be opened                            *)
(* "serial"    a serial read or write raises                               *)
(* "silence"   a device does not answer, or its answer is lost             *)
(* "late"      a read runs out of time before its answer is through        *)
(* "exception" a device answers with an exception                          *)
(* "header"    noise damages one of the first three bytes of an answer     *)
(* "check"     noise damages a later byte of an answer                     *)
(* "crash"     a process ends in the middle of whatever it does            *)
(***************************************************************************)
AllFaults == {"nolock", "port", "serial", "silence", "late", "exception", "header", "check",
              "crash"}

Kinds == {"registers", "bits", "coil"}

ASSUME BusAssumption ==
    /\ PerCommand \subseteq Clients
    /\ Asks \in [Requests -> [client: Clients, kind: Kinds, unit: Nat, item: Nat,
                              quantity: Nat, closed: BOOLEAN]]
    /\ Descriptors \in Nat
    /\ Faults \subseteq AllFaults
    /\ MaxStrikes \in Nat
    /\ NoClient \notin Clients
    /\ NoRequest \notin Requests

VARIABLES
    pc,             \* control point of each client
    asked,          \* the request each client is making
    head,           \* the frame whose first three bytes a client has read
    active,         \* PortLock.active of the lock a client uses
    descriptors,    \* lock files a process opened and never closed
    holder,         \* owner of the advisory lock
    wire,           \* requests the devices heard and have not dealt with
    line,           \* bytes in the input buffer of the serial device
    outcome,        \* what became of each request
    source,         \* whose answer was returned for each request
    strikes,        \* faults so far
    carried,        \* history: coil writes carried out while they were made
    uncoordinated,  \* history: an exchange went ahead without the lock
    tainted         \* history: bytes of an exchange may have come after its end

local   == <<pc, asked, head>>
locking == <<active, descriptors, holder>>
bus     == <<wire, line>>
results == <<outcome, source>>
history == <<carried, uncoordinated, tainted>>
vars    == <<local, locking, bus, results, strikes, history>>

Reading  == {"header", "body", "echo"}
Exchange == Reading \cup {"sending"}
Controls == Exchange \cup {"idle", "locking", "down"}
Forms    == {"answer", "exception", "header", "check"}
Frame    == [of: Requests, form: Forms]

\* The answer that has the form of another request's answer.
Alike(r, q) == /\ Asks[r].unit = Asks[q].unit
               /\ Asks[r].kind = Asks[q].kind
               /\ Asks[r].quantity = Asks[q].quantity

\* Coil writes whose frames, and so whose echoes, are the same eight bytes.
SameWrite(r, q) == /\ Asks[r].kind = "coil"
                   /\ Alike(r, q)
                   /\ Asks[r].item = Asks[q].item
                   /\ Asks[r].closed = Asks[q].closed

Length(f) ==
    IF f.form = "exception" THEN 5
    ELSE CASE Asks[f.of].kind = "registers" -> 5 + 2 * Asks[f.of].quantity
           [] Asks[f.of].kind = "bits"      -> 5 + (Asks[f.of].quantity + 7) \div 8
           [] Asks[f.of].kind = "coil"      -> 8

Bytes(f, from, to) == [i \in 1..(to - from + 1) |-> [frame |-> f, at |-> from + i - 1]]

First(n) == SubSeq(line, 1, n)

-----------------------------------------------------------------------------
Init ==
    /\ pc = [c \in Clients |-> "down"]
    /\ asked = [c \in Clients |-> NoRequest]
    /\ head = [c \in Clients |-> NoFrame]
    /\ active = [c \in Clients |-> FALSE]
    /\ descriptors = [c \in Clients |-> 0]
    /\ holder = NoClient
    /\ wire = <<>>
    /\ line = <<>>
    /\ outcome = [r \in Requests |-> "unasked"]
    /\ source = [r \in Requests |-> NoRequest]
    /\ strikes = 0
    /\ carried = {}
    /\ uncoordinated = FALSE
    /\ tainted = FALSE

\* The exchange is over, by return or by exception, and the lock is let go.
Finish(c, said) ==
    /\ pc' = [pc EXCEPT ![c] = "idle"]
    /\ asked' = [asked EXCEPT ![c] = NoRequest]
    /\ head' = [head EXCEPT ![c] = NoFrame]
    /\ holder' = IF holder = c THEN NoClient ELSE holder
    /\ outcome' = [outcome EXCEPT ![asked[c]] = said]

Fail(c) == Finish(c, "failed") /\ UNCHANGED source

Answered(c, f) == /\ Finish(c, "answered")
                  /\ source' = [source EXCEPT ![asked[c]] = f.of]

\* One of the faults happens.
Strike(kind) == /\ kind \in Faults
                /\ strikes < MaxStrikes
                /\ strikes' = strikes + 1

-----------------------------------------------------------------------------
(* Opening the port and taking the lock. *)

\* What has arrived is gone; n bytes, the rest of a frame that is arriving at that
\* moment, whoever asked for it, are still to come.
Leave(n) ==
    /\ n > 0 => /\ line[Len(line) - n + 1].at > 1
                /\ line[Len(line) - n + 1].frame = line[Len(line)].frame
    /\ line' = SubSeq(line, Len(line) - n + 1, Len(line))

\* Opening the port discards what has arrived.
Discard ==
    \E n \in 0..Len(line) :
        /\ Leave(n)
        /\ tainted' = (tainted \/ line' \notin {<<>>, line})

\* A client that keeps its port, and its lock, makes one exchange after another.
Ask(c, r) ==
    /\ c \notin PerCommand
    /\ pc[c] = "idle"
    /\ Asks[r].client = c
    /\ outcome[r] = "unasked"
    /\ outcome' = [outcome EXCEPT ![r] = "pending"]
    /\ asked' = [asked EXCEPT ![c] = r]
    /\ pc' = [pc EXCEPT ![c] = "locking"]
    /\ UNCHANGED <<head, locking, bus, source, strikes, history>>

\* Mutant: the transport opens a lock of its own beside the one it is given.
OpenLockTwice(c) ==
    \/ /\ descriptors[c] < Descriptors
       /\ descriptors' = [descriptors EXCEPT ![c] = @ + 2]
       /\ active' = [active EXCEPT ![c] = TRUE]
       /\ UNCHANGED strikes
    \/ /\ Strike("nolock")
       /\ active' = [active EXCEPT ![c] = FALSE]
       /\ UNCHANGED descriptors

\* PortLock.__init__ opens the lock file, or does without; no transport ever calls
\* close(), so each lock made for one exchange leaves its descriptor behind.
OpenLock(c) ==
    \/ /\ descriptors[c] < Descriptors
       /\ descriptors' = [descriptors EXCEPT ![c] = @ + 1]
       /\ active' = [active EXCEPT ![c] = TRUE]
       /\ UNCHANGED strikes
    \/ /\ \/ descriptors[c] = Descriptors /\ UNCHANGED strikes
          \/ Strike("nolock")
       /\ active' = [active EXCEPT ![c] = FALSE]
       /\ UNCHANGED descriptors

\* SerialBus opens the port, outside the lock, and a transport with a new lock.
AskOpening(c, r) ==
    /\ c \in PerCommand
    /\ pc[c] = "idle"
    /\ Asks[r].client = c
    /\ outcome[r] = "unasked"
    /\ outcome' = [outcome EXCEPT ![r] = "pending"]
    /\ asked' = [asked EXCEPT ![c] = r]
    /\ pc' = [pc EXCEPT ![c] = "locking"]
    /\ OpenLock(c)
    /\ Discard
    /\ UNCHANGED <<head, holder, wire, source, carried, uncoordinated>>

\* ModbusTransportError from open_serial_port: nothing was attempted.
CannotOpen(c, r) ==
    /\ Strike("port")
    /\ c \in PerCommand
    /\ pc[c] = "idle"
    /\ Asks[r].client = c
    /\ outcome[r] = "unasked"
    /\ outcome' = [outcome EXCEPT ![r] = "failed"]
    /\ UNCHANGED <<local, locking, bus, source, history>>

\* Mutant: a shared lock.
TakeLockShared(c) ==
    /\ pc[c] = "locking"
    /\ active[c]
    /\ holder' = c
    /\ pc' = [pc EXCEPT ![c] = "sending"]
    /\ UNCHANGED <<asked, head, active, descriptors, bus, results, strikes, history>>

\* flock succeeds.
TakeLock(c) ==
    /\ pc[c] = "locking"
    /\ active[c]
    /\ holder = NoClient
    /\ holder' = c
    /\ pc' = [pc EXCEPT ![c] = "sending"]
    /\ UNCHANGED <<asked, head, active, descriptors, bus, results, strikes, history>>

\* hold() yields False, and its callers go ahead all the same.
GoUncoordinated(c) ==
    /\ pc[c] = "locking"
    /\ ~active[c]
    /\ uncoordinated' = TRUE
    /\ pc' = [pc EXCEPT ![c] = "sending"]
    /\ UNCHANGED <<asked, head, locking, bus, results, strikes, carried, tainted>>

\* PortBusyError: the lock stayed held for the whole timeout.
GiveUp(c) ==
    /\ pc[c] = "locking"
    /\ active[c]
    /\ holder # NoClient
    /\ Fail(c)
    /\ UNCHANGED <<active, descriptors, bus, strikes, history>>

-----------------------------------------------------------------------------
(* The exchange. *)

\* Mutant: the lock covers the write alone.
SendAndLetGo(c) ==
    /\ pc[c] = "sending"
    /\ wire' = Append(wire, asked[c])
    /\ pc' = [pc EXCEPT ![c] = IF Asks[asked[c]].kind = "coil" THEN "echo" ELSE "header"]
    /\ holder' = NoClient
    /\ UNCHANGED <<asked, head, active, descriptors, line, results, strikes, history>>

Send(c) ==
    /\ pc[c] = "sending"
    /\ wire' = Append(wire, asked[c])
    /\ pc' = [pc EXCEPT ![c] = IF Asks[asked[c]].kind = "coil" THEN "echo" ELSE "header"]
    /\ UNCHANGED <<asked, head, locking, line, results, strikes, history>>

\* serial.write raises, or sends a part of the frame, which no device answers.
CannotSend(c) ==
    /\ Strike("serial")
    /\ pc[c] = "sending"
    /\ Fail(c)
    /\ UNCHANGED <<active, descriptors, bus, history>>

\* A read of n bytes takes them from the common buffer.
Take(n) ==
    /\ Len(line) >= n
    /\ line' = SubSeq(line, n + 1, Len(line))

\* The first three bytes of a frame that passes the checks made on them: unit, then
\* function and byte count, or the function with its exception bit.
Opens(bytes, r, f) ==
    /\ bytes = Bytes(f, 1, 3)
    /\ \/ f.form \in {"answer", "check"} /\ Alike(f.of, r)
       \/ /\ f.form = "exception"
          /\ Asks[f.of].unit = Asks[r].unit
          /\ Asks[f.of].kind = Asks[r].kind

\* _read_exact(3).  A header that does not fit ends the exchange there, and what
\* follows it stays in the buffer.
ReadHeader(c) ==
    LET f == line[1].frame IN
    /\ pc[c] = "header"
    /\ Take(3)
    /\ \/ /\ Opens(First(3), asked[c], f)
          /\ head' = [head EXCEPT ![c] = f]
          /\ pc' = [pc EXCEPT ![c] = "body"]
          /\ UNCHANGED <<asked, holder, results>>
       \/ /\ ~Opens(First(3), asked[c], f)
          /\ Fail(c)
    /\ UNCHANGED <<active, descriptors, wire, strikes, history>>

\* The rest of the frame, and its CRC.
ReadBody(c) ==
    LET f == head[c] IN
    /\ pc[c] = "body"
    /\ Take(Length(f) - 3)
    /\ IF f.form = "answer" /\ First(Length(f) - 3) = Bytes(f, 4, Length(f))
       THEN Answered(c, f)
       ELSE Fail(c)
    /\ UNCHANGED <<active, descriptors, wire, strikes, history>>

\* Mutant: any whole answer to a coil write will do.
ReadEchoLenient(c) ==
    LET f == line[1].frame IN
    /\ pc[c] = "echo"
    /\ Take(8)
    /\ IF /\ f.form = "answer"
          /\ Alike(f.of, asked[c])
          /\ First(8) = Bytes(f, 1, 8)
       THEN Answered(c, f)
       ELSE Fail(c)
    /\ UNCHANGED <<active, descriptors, wire, strikes, history>>

\* The write transport reads eight bytes at once and wants its own frame back.
ReadEcho(c) ==
    LET f == line[1].frame IN
    /\ pc[c] = "echo"
    /\ Take(8)
    /\ IF /\ f.form = "answer"
          /\ SameWrite(f.of, asked[c])
          /\ First(8) = Bytes(f, 1, 8)
       THEN Answered(c, f)
       ELSE Fail(c)
    /\ UNCHANGED <<active, descriptors, wire, strikes, history>>

Wanted(c) == CASE pc[c] = "header" -> 3
               [] pc[c] = "body"   -> Length(head[c]) - 3
               [] pc[c] = "echo"   -> 8

\* Mutant: the port is opened without a timeout.
TimeOutIfAny(c) ==
    /\ pc[c] \in Reading
    /\ Len(line) \in 1..(Wanted(c) - 1)
    /\ line' = <<>>
    /\ Fail(c)
    /\ UNCHANGED <<active, descriptors, wire, strikes, history>>

\* The serial timeout returns the bytes there are, too few or none, whatever the
\* device is doing.  When it has still to answer, or is in the middle of its answer,
\* the rest comes all the same, to whoever reads next.
TimeOut(c) ==
    /\ pc[c] \in Reading
    /\ \E n \in 0..Len(line) :
          /\ Leave(n)
          /\ Len(line) - n < Wanted(c)
          /\ IF n = 0 /\ \A i \in DOMAIN wire : wire[i] # asked[c]
             THEN UNCHANGED <<strikes, tainted>>
             ELSE Strike("late") /\ tainted' = TRUE
    /\ Fail(c)
    /\ UNCHANGED <<active, descriptors, wire, carried, uncoordinated>>

\* serial.read raises, as pyserial does when another process takes the bytes.
CannotRead(c) ==
    /\ Strike("serial")
    /\ pc[c] \in Reading
    /\ Fail(c)
    /\ tainted' = TRUE
    /\ UNCHANGED <<active, descriptors, bus, carried, uncoordinated>>

-----------------------------------------------------------------------------
(* The devices, and the end and the start of a process. *)

\* A coil write is carried out for whoever is asking for just that.
Obey(r) == carried' = carried \cup {asked[c] : c \in {d \in Clients :
                /\ asked[d] # NoRequest
                /\ SameWrite(r, asked[d])}}

Reply ==
    /\ wire # <<>>
    /\ wire' = Tail(wire)
    /\ \E form \in Forms :
          LET f == [of |-> Head(wire), form |-> form] IN
          /\ IF form = "answer" THEN UNCHANGED strikes ELSE Strike(form)
          /\ line' = line \o Bytes(f, 1, Length(f))
          /\ tainted' = (tainted \/ form = "header")
          /\ IF form = "exception" THEN UNCHANGED carried ELSE Obey(f.of)
    /\ UNCHANGED <<local, locking, results, uncoordinated>>

\* The request or the answer is lost: the relay may have moved.
StaySilent ==
    /\ Strike("silence")
    /\ wire # <<>>
    /\ wire' = Tail(wire)
    /\ UNCHANGED carried \/ Obey(Head(wire))
    /\ UNCHANGED <<local, locking, line, results, uncoordinated, tainted>>

\* The kernel lets go of a dead process's lock; the answer it asked for still comes.
Crash(c) ==
    /\ Strike("crash")
    /\ pc[c] # "down"
    /\ pc' = [pc EXCEPT ![c] = "down"]
    /\ asked' = [asked EXCEPT ![c] = NoRequest]
    /\ head' = [head EXCEPT ![c] = NoFrame]
    /\ active' = [active EXCEPT ![c] = FALSE]
    /\ descriptors' = [descriptors EXCEPT ![c] = 0]
    /\ holder' = IF holder = c THEN NoClient ELSE holder
    /\ outcome' = [r \in Requests |-> IF r = asked[c] THEN "lost" ELSE outcome[r]]
    /\ tainted' = (tainted \/ pc[c] \in Reading)
    /\ UNCHANGED <<bus, source, carried, uncoordinated>>

\* A process starts, whatever is still to come of what its predecessor asked.  One
\* that keeps its port opens it now.
Start(c) ==
    /\ pc[c] = "down"
    /\ pc' = [pc EXCEPT ![c] = "idle"]
    /\ IF c \in PerCommand
       THEN UNCHANGED <<active, line, strikes, tainted>>
       ELSE /\ Discard
            /\ \E ok \in BOOLEAN :
                  /\ active' = [active EXCEPT ![c] = ok]
                  /\ IF ok THEN UNCHANGED strikes ELSE Strike("nolock")
    /\ UNCHANGED <<asked, head, descriptors, holder, wire, results, carried, uncoordinated>>

-----------------------------------------------------------------------------
Proceed(c) ==
    \/ TakeLock(c)
    \/ GoUncoordinated(c)
    \/ GiveUp(c)
    \/ Send(c)
    \/ CannotSend(c)
    \/ ReadHeader(c)
    \/ ReadBody(c)
    \/ ReadEcho(c)
    \/ TimeOut(c)
    \/ CannotRead(c)

Device == Reply \/ StaySilent

Next ==
    \/ \E c \in Clients, r \in Requests : Ask(c, r) \/ AskOpening(c, r) \/ CannotOpen(c, r)
    \/ \E c \in Clients : Proceed(c) \/ Crash(c) \/ Start(c)
    \/ Device

Spec == Init /\ [][Next]_vars

\* Every wait inside an exchange has a timeout, and the devices deal with what they hear.
Fairness == WF_vars(Device) /\ \A c \in Clients : WF_vars(Proceed(c))

FairSpec == Spec /\ Fairness

-----------------------------------------------------------------------------
(* Properties. *)

\* Every variable holds a value the processes, the lock or the line could give it.
TypeOK ==
    /\ pc \in [Clients -> Controls]
    /\ asked \in [Clients -> Requests \cup {NoRequest}]
    /\ head \in [Clients -> Frame \cup {NoFrame}]
    /\ active \in [Clients -> BOOLEAN]
    /\ descriptors \in [Clients -> 0..Descriptors]
    /\ holder \in Clients \cup {NoClient}
    /\ wire \in Seq(Requests)
    /\ line \in Seq([frame: Frame, at: Nat])
    /\ outcome \in [Requests -> {"unasked", "pending", "answered", "failed", "lost"}]
    /\ source \in [Requests -> Requests \cup {NoRequest}]
    /\ strikes \in 0..MaxStrikes
    /\ carried \in SUBSET Requests
    /\ uncoordinated \in BOOLEAN
    /\ tainted \in BOOLEAN

Foreign(r) == outcome[r] = "answered" /\ source[r] # r

\* As long as the lock works and no byte comes after the end of its exchange, what a
\* caller gets is the answer to its own request, whoever else uses the segment and opens
\* the port.  The condition is needed: an answer that is later than the serial timeout,
\* or the rest of a frame that was rejected by its head, is read in place of the next.
OwnAnswer == uncoordinated \/ tainted \/ \A r \in Requests : ~Foreign(r)

\* A free lock means that nobody waits for a device: what is still to come then, after a
\* timeout or a crash, was given up.  If nothing is, the segment is handed over clean: no
\* request is with a device and no byte is left for the next reader.
CleanHandover ==
    holder = NoClient /\ ~uncoordinated =>
        /\ \A c \in Clients : pc[c] \notin Exchange
        /\ ~tainted => wire = <<>> /\ line = <<>>

\* A confirmed relay command was carried out while it was being made, whatever
\* happens to the lock, the line or the other processes: never a silently wrong one.
ConfirmedMeansCarriedOut ==
    \A r \in Requests :
        outcome[r] = "answered" /\ Asks[r].kind = "coil" => r \in carried

\* Every exchange ends: nobody keeps the bus, and nobody waits for it for ever.
ExchangesEnd ==
    \A c \in Clients : pc[c] \in Exchange \cup {"locking"} ~> pc[c] \in {"idle", "down"}

(* What documents of the repository say of the bus, and the code does not do. *)

\* "A lost race produces a failed read": at worst an exchange without the lock fails.
LostRaceFails == tainted \/ \A r \in Requests : ~Foreign(r)

\* "With it, an exchange completes or waits": no two exchanges overlap.
NothingInterleaves ==
    \A c, d \in Clients : pc[c] \in Exchange /\ pc[d] \in Exchange => c = d

\* "The next cycle is the retry": one damaged byte, or one answer that comes late, costs
\* one reading, and under the lock every answer that is returned is still the answer to
\* its own request.
ResponsesCorrelated == uncoordinated \/ \A r \in Requests : ~Foreign(r)
=============================================================================
