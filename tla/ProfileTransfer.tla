--------------------------- MODULE ProfileTransfer ---------------------------
(***************************************************************************)
(* The browser librarian and the instrument exchange saved records over a  *)
(* serial line: one request at a time, one reply to each, sixteen bytes of *)
(* a record in a frame.  The instrument collects a written record in a     *)
(* buffer and stores it only when it is committed; a read is answered from *)
(* a copy taken at its first chunk.                                        *)
(*                                                                         *)
(* Both lines lose frames; a cut frame leaves the parser of the instrument *)
(* in the middle, where it takes the next frame for the rest.  Frames may  *)
(* wait on the lines for any time, so that a request outlives the          *)
(* librarian's patience.  The instrument may lose power at any moment, and *)
(* its user may save a slot or start outputs between any two frames.       *)
(*                                                                         *)
(* A record is the sequence of its chunks <<record, index>>, a frame is a  *)
(* record, kind and slot are one Slot.  Timers count down in coarse ticks. *)
(***************************************************************************)
EXTENDS Integers, Sequences, FiniteSets

CONSTANTS
    Slots, Records,
    Size,               \* chunks of each record
    Nothing, Unknown,
    Modulus,            \* sequence numbers wrap; 256 in the code
    PartialExpiry,      \* of a cut frame in the parser, 2 s
    HostTimeout,        \* of a request, 8 s
    SessionExpiry,      \* of the instrument's session, 10 s
    MaxJobs             \* bound: jobs that the librarian's user starts

ASSUME TransferAssumption ==
    /\ Size \in [Records -> Nat \ {0}]
    /\ Nothing \notin Records /\ Unknown \notin Records /\ Unknown # Nothing
    /\ Modulus \in Nat \ {0} /\ MaxJobs \in Nat
    /\ PartialExpiry \in Nat \ {0}
    /\ HostTimeout \in Nat \ {0} /\ SessionExpiry \in Nat \ {0}

VARIABLES
    flash,      \* chunks stored in each slot
    dev,        \* Exchange, its parser aside
    partial,    \* ticks until the cut frame in the parser expires, 0: none
    tx,         \* the reply that owns the transmitter, or Nothing
    up, down,   \* frames on the lines
    job,        \* what the librarian is doing
    pending,    \* its unanswered request, or Nothing
    timer,      \* ticks until that request times out
    seq,
    jobs,       \* jobs started
    known,      \* what the librarian has read or verified, or Unknown
    open,       \* history: writes asked for and not yet stored
    local       \* history: slots the instrument saved during the job

device == <<flash, dev, partial, tx>>
librarian == <<job, pending, timer, seq, jobs>>
history == <<known, open, local>>
vars == <<device, up, down, librarian, history>>

Whole(r) == [i \in 1..Size[r] |-> <<r, i>>]
Stored == {Whole(r) : r \in Records} \union {<<>>}

\* Mutant: the number is not cut to its byte.
UnwrappedSeq == seq + 1

NextSeq == (seq + 1) % Modulus

Frame(op, s, at, body, total) ==
    [op |-> op, seq |-> NextSeq, slot |-> s, at |-> at, body |-> body, total |-> total]

Idle == [task |-> "idle", slot |-> Nothing, record |-> Nothing, got |-> <<>>, total |-> 0]

\* A Device that was not greeted is not used.
Failed == IF job.task = "hello" THEN [Idle EXCEPT !.task = "closed"] ELSE Idle

-----------------------------------------------------------------------------
(* The instrument: Exchange::respond for the request f.                    *)

Off == [mode |-> "idle", slot |-> Nothing, bytes |-> <<>>, length |-> 0, session |-> 0]

\* active() has cleared the mode when the session is over.
Session == IF dev.session = 0 THEN [dev EXCEPT !.mode = "idle"] ELSE dev
Renewed(d) == [d EXCEPT !.session = SessionExpiry]
Refused(d) == [Renewed(d) EXCEPT !.mode = "idle"]

Answer(f, status) == [op |-> f.op, seq |-> f.seq, slot |-> f.slot, at |-> f.at,
                      status |-> status, body |-> Nothing, total |-> 0]

Chunk(f, d) == [Answer(f, "ok") EXCEPT !.body = d.bytes[f.at + 1], !.total = d.length]

Reply(f, d, status) ==
    /\ dev' = d
    /\ tx' = Answer(f, status)

Hello(f) ==
    /\ f.op = "hello"
    /\ Reply(f, Renewed(Session), "ok")
    /\ UNCHANGED <<flash, open>>

\* Calibration, outputs or the reference are running.
Busy(f) ==
    /\ f.op # "hello"
    /\ Reply(f, Refused(Session), "busy")
    /\ UNCHANGED <<flash, open>>

Snapshot(f) ==
    [Renewed(Session) EXCEPT !.mode = "reading", !.slot = f.slot,
        !.bytes = flash[f.slot], !.length = Len(flash[f.slot])]

\* Mutant: every chunk is read from flash.
SnapshotEachChunk(f) == TRUE

NeedsSnapshot(f) == f.at = 0

Continues(f) == Session.mode = "reading" /\ Session.slot = f.slot

Read(f) ==
    /\ f.op = "read"
    /\ LET d == IF NeedsSnapshot(f) THEN Snapshot(f) ELSE Renewed(Session)
       IN  \/ /\ NeedsSnapshot(f)
              /\ \/ flash[f.slot] = <<>> /\ Reply(f, Refused(Session), "empty")
                 \/ Reply(f, Refused(Session), "io")
           \/ /\ NeedsSnapshot(f) => flash[f.slot] # <<>>
              /\ NeedsSnapshot(f) \/ Continues(f)
              /\ IF f.at < d.length THEN dev' = d /\ tx' = Chunk(f, d) ELSE Reply(f, d, "order")
           \/ /\ ~NeedsSnapshot(f) /\ ~Continues(f)
              /\ Reply(f, Renewed(Session), "order")
    /\ UNCHANGED <<flash, open>>

Begin(f) ==
    /\ f.op = "begin"
    /\ Reply(f, [Renewed(Session) EXCEPT !.mode = "writing", !.slot = f.slot,
                                         !.bytes = <<>>, !.length = f.total], "ok")
    /\ UNCHANGED <<flash, open>>

Writing(f) == Session.mode = "writing" /\ Session.slot = f.slot

InOrder(f) == Writing(f) /\ f.at = Len(Session.bytes) /\ f.at < Session.length

Write(f) ==
    /\ f.op = "write"
    /\ IF InOrder(f)
       THEN Reply(f, [Renewed(Session) EXCEPT !.bytes = Append(@, f.body)], "ok")
       ELSE Reply(f, Renewed(Session), "order")
    /\ UNCHANGED <<flash, open>>

\* Mutant: only the length is compared.
CommitsWithoutMode(f) == Len(Session.bytes) = Session.length

Complete(f) == Writing(f) /\ Len(Session.bytes) = Session.length

Closed == Refused(Session)

\* The writes up to the one that f commits leave the open ones.
After(f) ==
    LET done == {i \in 1..Len(open) : open[i].slot = f.slot /\ Whole(open[i].record) = Session.bytes}
    IN  IF done = {} THEN open
        ELSE SubSeq(open, 1 + (CHOOSE i \in done : \A j \in done : i <= j), Len(open))

Store(f) ==
    /\ flash' = [flash EXCEPT ![f.slot] = Session.bytes]
    /\ open' = After(f)

\* The record may fail to decode, and the journal may fail before or after the
\* record is in it.
Commit(f) ==
    /\ f.op = "commit"
    /\ \/ ~Complete(f) /\ Reply(f, Renewed(Session), "order") /\ UNCHANGED <<flash, open>>
       \/ /\ Complete(f)
          /\ \/ Store(f) /\ \E status \in {"ok", "io"} : Reply(f, Closed, status)
             \/ UNCHANGED <<flash, open>> /\ \E status \in {"invalid", "io"} : Reply(f, Closed, status)

Respond(f) == Hello(f) \/ Busy(f) \/ Read(f) \/ Begin(f) \/ Write(f) \/ Commit(f)

\* The one reply owns the transmitter: until it is out no request is read.
Deliver ==
    /\ tx = Nothing /\ up # <<>>
    /\ partial = 0
    /\ Respond(Head(up))
    /\ up' = Tail(up)
    /\ UNCHANGED <<partial, down, librarian, known, local>>

\* The parser takes the frame for the rest of the cut one; what is left of it
\* may look like the beginning of another.
Swallow ==
    /\ tx = Nothing /\ up # <<>>
    /\ partial # 0
    /\ up' = Tail(up)
    /\ partial' \in {0, PartialExpiry}
    /\ UNCHANGED <<flash, dev, tx, down, librarian, history>>

Transmit ==
    /\ tx # Nothing
    /\ down' = Append(down, tx)
    /\ tx' = Nothing
    /\ UNCHANGED <<flash, dev, partial, up, librarian, history>>

-----------------------------------------------------------------------------
(* The lines, the power and the instrument's user.                         *)

LoseRequest ==
    /\ up # <<>>
    /\ up' = Tail(up)
    /\ partial' \in {partial, PartialExpiry}
    /\ UNCHANGED <<flash, dev, tx, down, librarian, history>>

LoseReply ==
    /\ down # <<>>
    /\ down' = Tail(down)
    /\ UNCHANGED <<device, up, librarian, history>>

Restarted == dev' = Off /\ partial' = 0 /\ tx' = Nothing

\* Power may go in the middle of a commit; the journal has the old or the new.
PowerLoss ==
    /\ \/ up' = up /\ UNCHANGED <<flash, open>>
       \/ /\ up # <<>> /\ tx = Nothing /\ partial = 0
          /\ Head(up).op = "commit" /\ Complete(Head(up))
          /\ Store(Head(up))
          /\ up' = Tail(up)
    /\ Restarted
    /\ UNCHANGED <<down, librarian, known, local>>

SaveLocally(s, r) ==
    /\ flash' = [flash EXCEPT ![s] = Whole(r)]
    /\ known' = [known EXCEPT ![s] = Unknown]
    /\ local' = local \union {s}
    /\ UNCHANGED <<dev, partial, tx, up, down, librarian, open>>

Down(n) == IF n = 0 THEN 0 ELSE n - 1

Tick ==
    /\ timer' = Down(timer)
    /\ partial' = Down(partial)
    /\ dev' = [dev EXCEPT !.session = Down(@)]
    /\ UNCHANGED <<flash, tx, up, down, job, pending, seq, jobs, history>>

-----------------------------------------------------------------------------
(* The librarian: Device.request, read and write.                          *)

Request(j) ==
    CASE j.task = "hello"  -> Frame("hello", Nothing, 0, Nothing, 0)
      [] j.task = "begin"  -> Frame("begin", j.slot, 0, Nothing, Size[j.record])
      [] j.task = "send"   -> Frame("write", j.slot, j.total, <<j.record, j.total + 1>>, 0)
      [] j.task = "commit" -> Frame("commit", j.slot, 0, Nothing, 0)
      [] OTHER             -> Frame("read", j.slot, Len(j.got), Nothing, 0)

Proceed(j) ==
    /\ job' = j
    /\ pending' = Request(j)
    /\ up' = Append(up, Request(j))
    /\ seq' = NextSeq
    /\ timer' = HostTimeout

EndAs(j) ==
    /\ job' = j /\ pending' = Nothing /\ timer' = 0
    /\ UNCHANGED <<up, seq>>

End == EndAs(Idle)

\* Mutant: a reply is known by what it answers, not by its sequence number.
SameButSeq(p) ==
    /\ pending # Nothing
    /\ p.op = pending.op /\ p.slot = pending.slot /\ p.at = pending.at

Matches(p) ==
    /\ pending # Nothing
    /\ p.op = pending.op /\ p.seq = pending.seq
    /\ p.slot = pending.slot /\ p.at = pending.at

\* Reading and verifying: the chunk of p is the next one of the record.
Received(p) == [job EXCEPT !.got = Append(@, p.body), !.total = p.total]
Consistent(p) == p.status = "ok" /\ (job.got = <<>> \/ p.total = job.total)

Learned(bytes) ==
    known' = IF job.slot \in local THEN known ELSE [known EXCEPT ![job.slot] = bytes]

Collect(p) ==
    LET j == Received(p)
    IN  IF Len(j.got) < j.total THEN Proceed(j) /\ UNCHANGED known
        ELSE /\ End
             /\ IF job.task = "read" \/ j.got = Whole(job.record)
                THEN Learned(j.got) ELSE UNCHANGED known

Advance(p) ==
    \/ /\ p.status # "ok"
       /\ EndAs(Failed)
       /\ IF job.task = "read" /\ p.status = "empty" /\ job.got = <<>>
          THEN Learned(<<>>) ELSE UNCHANGED known
    \/ /\ p.status = "ok" /\ job.task = "hello"
       /\ End /\ UNCHANGED known
    \/ /\ p.status = "ok" /\ job.task = "begin"
       /\ Proceed([job EXCEPT !.task = "send"]) /\ UNCHANGED known
    \/ /\ p.status = "ok" /\ job.task = "send"
       /\ Proceed([job EXCEPT !.total = @ + 1,
                              !.task = IF job.total + 1 < Size[job.record] THEN "send" ELSE "commit"])
       /\ UNCHANGED known
    \/ /\ p.status = "ok" /\ job.task = "commit"
       /\ Proceed([job EXCEPT !.task = "check", !.total = 0]) /\ UNCHANGED known
    \/ /\ p.status = "ok" /\ job.task \in {"check", "read"}
       /\ IF Consistent(p) THEN Collect(p) ELSE End /\ UNCHANGED known

Receive ==
    /\ down # <<>>
    /\ Matches(Head(down))
    /\ down' = Tail(down)
    /\ Advance(Head(down))
    /\ UNCHANGED <<device, jobs, open, local>>

\* A reply to a request that was given up.
Discard ==
    /\ down # <<>>
    /\ ~Matches(Head(down))
    /\ down' = Tail(down)
    /\ UNCHANGED <<device, up, librarian, history>>

\* Mutant: no timer is armed.
NeverExpires == FALSE

Expired == pending # Nothing /\ timer = 0

TimeOut ==
    /\ Expired
    /\ EndAs(Failed)
    /\ UNCHANGED <<device, down, jobs, history>>

Start(j) ==
    /\ jobs < MaxJobs
    /\ jobs' = jobs + 1
    /\ local' = {}
    /\ Proceed(j)
    /\ UNCHANGED <<device, down>>

StartRead(s) ==
    /\ job.task = "idle"
    /\ Start([Idle EXCEPT !.task = "read", !.slot = s])
    /\ UNCHANGED <<known, open>>

StartWrite(s, r) ==
    /\ job.task = "idle"
    /\ Start([Idle EXCEPT !.task = "begin", !.slot = s, !.record = r])
    /\ known' = [known EXCEPT ![s] = Unknown]
    /\ open' = Append(open, [slot |-> s, record |-> r])

\* The port is closed and opened again at any moment; the new Device draws its
\* first sequence number and greets the instrument before anything else.
Reconnect ==
    /\ jobs < MaxJobs
    /\ jobs' = jobs + 1
    /\ local' = {}
    /\ \E n \in 0..(Modulus - 1) :
          LET f == [Frame("hello", Nothing, 0, Nothing, 0) EXCEPT !.seq = n]
          IN  /\ job' = [Idle EXCEPT !.task = "hello"]
              /\ pending' = f /\ up' = Append(up, f)
              /\ seq' = n /\ timer' = HostTimeout
    /\ UNCHANGED <<device, down, known, open>>

-----------------------------------------------------------------------------
Init ==
    /\ flash \in [Slots -> Stored]
    /\ dev = Off /\ partial = 0 /\ tx = Nothing
    /\ up = <<>> /\ down = <<>>
    /\ job = Idle /\ pending = Nothing /\ timer = 0
    /\ seq = 0 /\ jobs = 0
    /\ known = [s \in Slots |-> Unknown]
    /\ open = <<>> /\ local = {}

Faults == LoseRequest \/ LoseReply \/ PowerLoss

Next ==
    \/ Deliver \/ Swallow \/ Transmit
    \/ Receive \/ Discard \/ TimeOut
    \/ \E s \in Slots : StartRead(s)
    \/ \E s \in Slots, r \in Records : StartWrite(s, r) \/ SaveLocally(s, r)
    \/ Reconnect
    \/ Faults
    \/ Tick

Spec == Init /\ [][Next]_vars

\* Time passes and the browser runs its timers; nothing is asked of the lines or
\* of the instrument.
Fairness == WF_vars(TimeOut) /\ WF_vars(Tick)

FairSpec == Spec /\ Fairness

-----------------------------------------------------------------------------
(* Properties.                                                             *)

\* Every field has its type; a slot holds one whole record.
TypeOK ==
    /\ flash \in [Slots -> Stored]
    /\ dev.mode \in {"idle", "reading", "writing"}
    /\ dev.session \in 0..SessionExpiry
    /\ partial \in 0..PartialExpiry
    /\ timer \in 0..HostTimeout
    /\ seq \in 0..(Modulus - 1)
    /\ known \in [Slots -> Stored \union {Unknown}]

\* What the librarian has read or verified is what the slot holds: no late reply
\* is taken for the answer, no late commit changes the slot behind its back.
KnownIsStored ==
    \A s \in Slots : known[s] # Unknown => flash[s] = known[s]

\* The chunks of a read come from one record, whoever saves the slot meanwhile.
ReadsAreWhole ==
    \E bytes \in Stored :
        /\ Len(job.got) <= Len(bytes)
        /\ job.got = SubSeq(bytes, 1, Len(job.got))

\* A request is answered or given up: no job waits for ever.
JobsEnd == (pending # Nothing) ~> (pending = Nothing)

\* Writes take effect whole, at most once and in the order they are asked.
Bank == INSTANCE ProfileBank WITH
    Records <- {Whole(r) : r \in Records},
    Empty <- <<>>,
    bank <- flash,
    open <- [i \in 1..Len(open) |-> [slot |-> open[i].slot, record |-> Whole(open[i].record)]]

ImplementsBank == Bank!Spec
=============================================================================
