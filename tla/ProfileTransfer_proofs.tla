------------------------ MODULE ProfileTransfer_proofs ------------------------
(***************************************************************************)
(* Proofs about ProfileTransfer, for any slots, records, lines and number  *)
(* of jobs: slots hold whole records, reads are whole, what the librarian  *)
(* knows of a slot is what the slot holds, and the bank is implemented.    *)
(*                                                                         *)
(* All rest on what a number of eight bits cannot give: that no request is *)
(* sent while a frame that looks like it is still on a line.               *)
(***************************************************************************)
EXTENDS ProfileTransfer, SequenceTheorems, WellFoundedInduction, TLAPS

\* What a reply is matched by.
Same(f, g) == f.op = g.op /\ f.seq = g.seq /\ f.slot = g.slot /\ f.at = g.at

\* A request does not look like a frame that is left on the lines: a frame does not
\* outlive the 256 requests after which its number is used again.
FreshNumbers ==
    up' = Append(up, pending') =>
        /\ \A i \in 1..Len(up) : ~Same(up[i], pending')
        /\ tx # Nothing => ~Same(tx, pending')
        /\ \A i \in 1..Len(down') : ~Same(down'[i], pending')

-----------------------------------------------------------------------------
(* The inductive invariant.                                                *)

Chunks == Records \X Nat
Numbers == 0..(Modulus - 1)
Ops == {"hello", "read", "begin", "write", "commit"}

Requests == [op : Ops, seq : Numbers, slot : Slots \union {Nothing}, at : Nat,
             body : Chunks \union {Nothing}, total : Nat]
Replies == [op : Ops, seq : Numbers, slot : Slots \union {Nothing}, at : Nat,
            status : {"ok", "busy", "empty", "io", "order", "invalid"},
            body : Chunks \union {Nothing}, total : Nat]

Devices == [mode : {"idle", "reading", "writing"}, slot : Slots \union {Nothing},
            bytes : Seq(Chunks), length : Nat, session : 0..SessionExpiry]

DeviceTypes ==
    /\ flash \in [Slots -> Stored]
    /\ dev \in Devices
    /\ dev.mode = "reading" => dev.bytes \in Stored /\ dev.length = Len(dev.bytes)
    /\ partial \in 0..PartialExpiry

LineTypes ==
    /\ up \in Seq(Requests) /\ down \in Seq(Replies)
    /\ tx # Nothing => tx \in Replies
    /\ \A i \in 1..Len(up) : up[i].op # "hello" => up[i].slot \in Slots

OpenWrites == [slot : Slots, record : Records]
Writes == {"begin", "send", "commit", "check"}
Reads == {"read", "check"}

Jobs == [task : {"idle", "closed", "hello"} \union Reads \union Writes,
         slot : Slots \union {Nothing}, record : Records \union {Nothing},
         got : Seq(Chunks), total : Nat]

LibrarianTypes ==
    /\ job \in Jobs
    /\ job.task \in Reads \union Writes => job.slot \in Slots
    /\ job.task \in Writes => job.record \in Records
    /\ job.task \notin Reads => job.got = <<>>
    /\ job.task = "begin" => job.total = 0
    /\ job.task = "send" => job.total < Size[job.record]
    /\ timer \in 0..HostTimeout /\ seq \in Numbers
    /\ known \in [Slots -> Stored \union {Unknown}]
    /\ open \in Seq(OpenWrites)

\* The librarian waits for an answer.
Waiting == job.task \notin {"idle", "closed"}

\* The request is that of the job.
Asked ==
    /\ pending # Nothing => Waiting
    /\ Waiting =>
        /\ pending \in Requests
        /\ job.task = "hello" => pending.op = "hello"
        /\ job.task \in Reads => pending.op = "read" /\ pending.at = Len(job.got)
        /\ job.task = "begin" => pending.op = "begin" /\ pending.total = Size[job.record]
        /\ job.task = "send" => /\ pending.op = "write" /\ pending.at = job.total
                                /\ pending.body = <<job.record, job.total + 1>>
        /\ job.task = "commit" => pending.op = "commit"
        /\ job.task # "hello" => pending.slot = job.slot

\* What may be sent whatever is on the lines.
Opens(f) == f.op \in {"hello", "begin"} \/ (f.op = "read" /\ f.at = 0)

\* The job has had an answer.
Begun == job.task \in {"send", "commit", "check"} \/ job.got # <<>>

\* A request within a job is sent when the lines are empty: it is ahead of all others.
Lines ==
    /\ \A i \in 2..Len(up) : Opens(up[i])
    /\ up # <<>> /\ ~Opens(up[1]) => tx = Nothing /\ down = <<>>
    /\ Begun => up = <<>> \/ (Len(up) = 1 /\ up[1] = pending /\ tx = Nothing /\ down = <<>>)

\* What looks like the request is the request, and what looks like its answer is
\* its answer: the last frame on the lines.
Unambiguous ==
    Waiting =>
        /\ \A i \in 1..Len(up) : Same(up[i], pending) => i = Len(up) /\ up[i] = pending
        /\ tx # Nothing /\ Same(tx, pending) => up = <<>>
        /\ \A i \in 1..Len(down) :
              Same(down[i], pending) => i = Len(down) /\ up = <<>> /\ tx = Nothing

\* The instrument has n chunks of the record r for the slot s, if it is still writing.
Collected(s, r, n) ==
    dev.mode = "writing" =>
        dev.slot = s /\ dev.bytes = SubSeq(Whole(r), 1, n) /\ dev.length = Size[r]

\* The record b is what is read: in the slot, unless it was saved since, and in the
\* copy, if the instrument is still reading.
Backed(b) ==
    /\ job.slot \notin local => flash[job.slot] = b
    /\ dev.mode = "reading" => dev.slot = job.slot /\ dev.bytes = b

\* The frame at the head of the line, if it is of a write, continues what the
\* instrument has.
Heads ==
    up # <<>> =>
        /\ up[1].op = "write" /\ dev.mode = "writing" /\ dev.slot = up[1].slot =>
              \E r \in Records :
                  /\ up[1].at < Size[r] /\ up[1].body = <<r, up[1].at + 1>>
                  /\ Collected(up[1].slot, r, up[1].at)
        /\ up[1].op = "commit" =>
              /\ known[up[1].slot] = Unknown
              /\ dev.mode = "writing" /\ dev.slot = up[1].slot =>
                    \E i \in 1..Len(open) :
                        /\ open[i].slot = up[1].slot /\ dev.bytes = Whole(open[i].record)
                        /\ job.task = "begin" => i < Len(open)

\* The write that is under way is the last one asked for.
Opened ==
    job.task \in {"begin", "send"} =>
        /\ known[job.slot] = Unknown
        /\ open # <<>> /\ open[Len(open)] = [slot |-> job.slot, record |-> job.record]

\* What has been read is of one record.
ReadSoFar ==
    job.task \in Reads =>
        \E b \in Stored : \E n \in 0..Len(b) :
            /\ job.got = SubSeq(b, 1, n)
            /\ n > 0 => job.total = Len(b) /\ Backed(b)

\* What the answer p says of the instrument.
Told(p) ==
    /\ p.status = "ok" =>
        /\ job.task = "begin" => Collected(job.slot, job.record, 0)
        /\ job.task = "send" => Collected(job.slot, job.record, job.total + 1)
        /\ job.task \in Reads =>
              \E b \in Stored : \E n \in 0..(Len(b) - 1) :
                  /\ job.got = SubSeq(b, 1, n)
                  /\ p.body = b[n + 1] /\ p.total = Len(b)
                  /\ Backed(b)
    /\ p.status = "empty" /\ job.task = "read" /\ job.slot \notin local =>
          flash[job.slot] = <<>>

Answered ==
    Waiting =>
        /\ tx # Nothing /\ Same(tx, pending) => Told(tx)
        /\ \A i \in 1..Len(down) : Same(down[i], pending) => Told(down[i])

TransferTypes == DeviceTypes /\ LineTypes /\ LibrarianTypes

TransferInv ==
    /\ TransferTypes
    /\ Asked /\ Lines /\ Unambiguous
    /\ Heads /\ Opened /\ ReadSoFar /\ Answered
    /\ KnownIsStored

-----------------------------------------------------------------------------
(* Records and sequences.                                                  *)

LEMMA WholeIsStored ==
    ASSUME NEW r \in Records
    PROVE  /\ Whole(r) \in Stored /\ Whole(r) \in Seq(Chunks)
           /\ Len(Whole(r)) = Size[r] /\ Size[r] \in Nat \ {0}
           /\ \A i \in 1..Size[r] : Whole(r)[i] = <<r, i>>
<1>1. Size[r] \in Nat \ {0}
  BY TransferAssumption
<1>2. \A i \in 1..Size[r] : <<r, i>> \in Chunks
  BY <1>1 DEF Chunks
<1> QED
  BY <1>1, <1>2 DEF Whole, Stored

LEMMA StoredIsSeq ==
    ASSUME NEW b \in Stored
    PROVE  b \in Seq(Chunks) /\ Len(b) \in Nat
<1>1. CASE b = <<>>
  BY <1>1, EmptySeq
<1>2. CASE b \in {Whole(r) : r \in Records}
  BY <1>2, WholeIsStored
<1> QED
  BY <1>1, <1>2 DEF Stored

LEMMA Prefix ==
    ASSUME NEW S, NEW b \in Seq(S), NEW n \in 0..Len(b)
    PROVE  /\ SubSeq(b, 1, n) \in Seq(S) /\ Len(SubSeq(b, 1, n)) = n
           /\ n = 0 => SubSeq(b, 1, n) = <<>>
           /\ n = Len(b) => SubSeq(b, 1, n) = b
           /\ n < Len(b) => /\ Append(SubSeq(b, 1, n), b[n + 1]) = SubSeq(b, 1, n + 1)
                            /\ b[n + 1] \in S
<1>1. Len(b) \in Nat /\ \A i \in 1..Len(b) : b[i] \in S
  OBVIOUS
<1>2. SubSeq(b, 1, n) \in Seq(S) /\ Len(SubSeq(b, 1, n)) = n
  BY <1>1, SubSeqProperties
<1>3. n = 0 => SubSeq(b, 1, n) = <<>>
  BY <1>2
<1>4. n = Len(b) => SubSeq(b, 1, n) = b
  BY SubSeqFull
<1>5. ASSUME n < Len(b)
      PROVE  /\ Append(SubSeq(b, 1, n), b[n + 1]) = SubSeq(b, 1, n + 1)
             /\ b[n + 1] \in S
  <2>1. 1 \in 1..Len(b) /\ n + 1 \in 1..Len(b) /\ (n + 1) - 1 = n
    BY <1>1, <1>5
  <2>2. SubSeq(b, 1, n + 1) = SubSeq(b, 1, n) \o <<b[n + 1]>>
    BY <2>1, SubSeqRecursiveSecond
  <2>3. b[n + 1] \in S
    BY <1>1, <2>1
  <2> QED
    BY <1>2, <2>2, <2>3, AppendIsConcat
<1> QED
  BY <1>2, <1>3, <1>4, <1>5

LEMMA Tails ==
    ASSUME NEW S, NEW q \in Seq(S), q # <<>>
    PROVE  /\ Head(q) = q[1] /\ q[1] \in S /\ Len(q) \in Nat \ {0}
           /\ Tail(q) \in Seq(S) /\ Len(Tail(q)) = Len(q) - 1
           /\ \A i \in 1..Len(Tail(q)) : Tail(q)[i] = q[i + 1]
           /\ Len(q) = 1 => Tail(q) = <<>>
<1>1. Len(q) \in Nat \ {0}
  BY EmptySeq
<1>2. /\ Tail(q) \in Seq(S) /\ Len(Tail(q)) = Len(q) - 1
      /\ \A i \in 1..Len(Tail(q)) : Tail(q)[i] = q[i + 1]
  BY HeadTailProperties
<1>3. Head(q) = q[1] /\ q[1] \in S
  BY <1>1
<1>4. Len(q) = 1 => Tail(q) = <<>>
  <2>1. \A t \in Seq(S) : t # <<>> => Len(t) # 0
    BY EmptySeq
  <2>2. Len(q) = 1 => Len(Tail(q)) = 0
    BY <1>2
  <2>3. Tail(q) \in Seq(S)
    BY <1>2
  <2> QED
    BY <2>1, <2>2, <2>3, Zenon
<1> QED
  BY <1>1, <1>2, <1>3, <1>4

LEMMA Appends ==
    ASSUME NEW S, NEW q \in Seq(S), NEW e \in S
    PROVE  /\ Append(q, e) \in Seq(S) /\ Append(q, e) # <<>>
           /\ Len(q) \in Nat /\ Len(Append(q, e)) = Len(q) + 1
           /\ \A i \in 1..Len(q) : Append(q, e)[i] = q[i]
           /\ Append(q, e)[Len(q) + 1] = e
           /\ q = <<>> <=> Len(q) = 0
<1>1. Len(q) \in Nat /\ (q = <<>> <=> Len(q) = 0)
  BY EmptySeq
<1> QED
  BY <1>1, AppendProperties

-----------------------------------------------------------------------------
(* The instrument.                                                         *)

\* The instrument goes on with what it is doing, or stops.
Kept ==
    \/ dev'.mode = "idle"
    \/ /\ dev'.mode = dev.mode /\ dev'.slot = dev.slot
       /\ dev'.bytes = dev.bytes /\ dev'.length = dev.length

LEMMA SessionKeeps ==
    ASSUME dev \in Devices
    PROVE  /\ Session \in Devices /\ Session.mode \in {dev.mode, "idle"}
           /\ Session.slot = dev.slot /\ Session.bytes = dev.bytes
           /\ Session.length = dev.length
BY DEF Session, Devices

LEMMA RenewedKeeps ==
    ASSUME NEW d \in Devices
    PROVE  /\ Renewed(d) \in Devices /\ Refused(d) \in Devices
           /\ Refused(d).mode = "idle"
           /\ Renewed(d).mode = d.mode /\ Renewed(d).slot = d.slot
           /\ Renewed(d).bytes = d.bytes /\ Renewed(d).length = d.length
<1>1. SessionExpiry \in 0..SessionExpiry
  BY TransferAssumption
<1> QED
  BY <1>1 DEF Renewed, Refused, Devices

LEMMA AnswerOf ==
    ASSUME NEW f \in Requests,
           NEW status \in {"ok", "busy", "empty", "io", "order", "invalid"}
    PROVE  /\ Answer(f, status) \in Replies /\ Same(Answer(f, status), f)
           /\ Answer(f, status).status = status
BY DEF Answer, Requests, Replies, Same

\* A request that is not served leaves the instrument as it is, or stops it.
LEMMA NotServed ==
    ASSUME DeviceTypes, NEW f \in Requests, NEW status \in {"ok", "busy", "empty", "io", "order", "invalid"},
           NEW d \in {Renewed(Session), Refused(Session)}, Reply(f, d, status)
    PROVE  /\ dev' \in Devices /\ Kept
           /\ tx' \in Replies /\ Same(tx', f) /\ tx'.status = status
<1>1. Session \in Devices /\ dev \in Devices
  BY SessionKeeps DEF DeviceTypes
<1>2. dev' = d /\ tx' = Answer(f, status)
  BY DEF Reply
<1>3. CASE d = Renewed(Session)
  BY <1>1, <1>2, <1>3, SessionKeeps, RenewedKeeps, AnswerOf DEF Kept
<1>4. CASE d = Refused(Session)
  BY <1>1, <1>2, <1>4, SessionKeeps, RenewedKeeps, AnswerOf DEF Kept
<1> QED
  BY <1>3, <1>4

\* What a read is answered with, and what it leaves in the copy.
Served(f) ==
    \E b \in Stored :
        /\ f.at < Len(b) /\ tx'.body = b[f.at + 1] /\ tx'.total = Len(b)
        /\ dev'.mode = "reading" /\ dev'.slot = f.slot
        /\ dev'.bytes = b /\ dev'.length = Len(b)
        /\ f.at = 0 => b = flash[f.slot]
        /\ f.at # 0 => dev.mode = "reading" /\ dev.slot = f.slot /\ dev.bytes = b

LEMMA ChunkOf ==
    ASSUME NEW f \in Requests, NEW d \in Devices, d.bytes \in Stored,
           d.length = Len(d.bytes), f.at < d.length
    PROVE  /\ Chunk(f, d) \in Replies /\ Same(Chunk(f, d), f)
           /\ Chunk(f, d).status = "ok" /\ Chunk(f, d).total = d.length
           /\ Chunk(f, d).body = d.bytes[f.at + 1]
<1>1. f.at \in Nat /\ d.bytes \in Seq(Chunks) /\ d.length \in Nat
  BY StoredIsSeq DEF Requests, Devices
<1>2. d.bytes[f.at + 1] \in Chunks
  BY <1>1
<1>3. Answer(f, "ok") \in Replies /\ Same(Answer(f, "ok"), f) /\ Answer(f, "ok").status = "ok"
  BY AnswerOf
<1> QED
  BY <1>1, <1>2, <1>3 DEF Chunk, Replies, Same

LEMMA SnapshotIs ==
    ASSUME DeviceTypes, NEW f \in Requests, f.slot \in Slots
    PROVE  /\ Snapshot(f) \in Devices /\ Snapshot(f).mode = "reading"
           /\ Snapshot(f).slot = f.slot /\ Snapshot(f).bytes = flash[f.slot]
           /\ Snapshot(f).length = Len(flash[f.slot]) /\ flash[f.slot] \in Stored
<1>1. flash[f.slot] \in Stored
  BY DEF DeviceTypes
<1>2. flash[f.slot] \in Seq(Chunks) /\ Len(flash[f.slot]) \in Nat
  BY <1>1, StoredIsSeq
<1>3. Renewed(Session) \in Devices
  BY SessionKeeps, RenewedKeeps DEF DeviceTypes
<1> QED
  BY <1>1, <1>2, <1>3 DEF Snapshot, Devices

LEMMA EmptyLen ==
    ASSUME NEW b \in Stored
    PROVE  b # <<>> => Len(b) > 0
BY StoredIsSeq, EmptySeq

LEMMA ReadIs ==
    ASSUME DeviceTypes, NEW f \in Requests, f.slot \in Slots, Read(f)
    PROVE  /\ dev' \in Devices /\ tx' \in Replies /\ Same(tx', f)
           /\ dev'.mode = "reading" => dev'.bytes \in Stored /\ dev'.length = Len(dev'.bytes)
           /\ tx'.status = "ok" => Served(f)
           /\ tx'.status = "empty" => flash[f.slot] = <<>>
           /\ f.at # 0 => Kept
<1> DEFINE d == IF NeedsSnapshot(f) THEN Snapshot(f) ELSE Renewed(Session)
<1>1. dev \in Devices /\ Session \in Devices
  BY SessionKeeps DEF DeviceTypes
<1>2. ASSUME NEW status \in {"empty", "io", "order"}, NEW e \in {Renewed(Session), Refused(Session)},
             Reply(f, e, status), status = "empty" => flash[f.slot] = <<>>
      PROVE  /\ dev' \in Devices /\ tx' \in Replies /\ Same(tx', f)
             /\ dev'.mode = "reading" => dev'.bytes \in Stored /\ dev'.length = Len(dev'.bytes)
             /\ tx'.status # "ok" /\ (tx'.status = "empty" => flash[f.slot] = <<>>) /\ Kept
  <2>1. /\ dev' \in Devices /\ Kept /\ tx' \in Replies /\ Same(tx', f)
        /\ tx'.status = status
    BY <1>2, NotServed
  <2>2. dev'.mode = "reading" => dev'.bytes \in Stored /\ dev'.length = Len(dev'.bytes)
    BY <2>1 DEF Kept, DeviceTypes
  <2> QED
    BY <1>2, <2>1, <2>2
<1>3. CASE NeedsSnapshot(f) /\ flash[f.slot] = <<>> /\ Reply(f, Refused(Session), "empty")
  BY <1>2, <1>3
<1>4. CASE NeedsSnapshot(f) /\ Reply(f, Refused(Session), "io")
  BY <1>2, <1>4
<1>5. CASE ~NeedsSnapshot(f) /\ ~Continues(f) /\ Reply(f, Renewed(Session), "order")
  BY <1>2, <1>5
<1>6. ASSUME NeedsSnapshot(f) => flash[f.slot] # <<>>, NeedsSnapshot(f) \/ Continues(f)
      PROVE  /\ d \in Devices /\ d.mode = "reading" /\ d.slot = f.slot
             /\ d.bytes \in Stored /\ d.length = Len(d.bytes)
             /\ f.at = 0 => d.bytes = flash[f.slot] /\ d.length > 0
             /\ f.at # 0 => /\ dev.mode = "reading" /\ dev.slot = f.slot
                            /\ dev.bytes = d.bytes /\ dev.length = d.length
  <2>1. CASE NeedsSnapshot(f)
    BY <1>6, <2>1, SnapshotIs, EmptyLen DEF NeedsSnapshot
  <2>2. CASE ~NeedsSnapshot(f)
    <3>1. Session.mode = "reading" /\ Session.slot = f.slot
      BY <1>6, <2>2 DEF Continues
    <3>2. /\ dev.mode = "reading" /\ dev.slot = f.slot /\ Session.bytes = dev.bytes
          /\ Session.length = dev.length /\ dev.bytes \in Stored /\ dev.length = Len(dev.bytes)
      BY <1>1, <3>1, SessionKeeps DEF DeviceTypes
    <3> QED
      BY <1>1, <2>2, <3>1, <3>2, RenewedKeeps DEF NeedsSnapshot
  <2> QED
    BY <2>1, <2>2
<1>7. ASSUME NeedsSnapshot(f) => flash[f.slot] # <<>>, NeedsSnapshot(f) \/ Continues(f),
             f.at < d.length, dev' = d, tx' = Chunk(f, d)
      PROVE  /\ dev' \in Devices /\ tx' \in Replies /\ Same(tx', f)
             /\ dev'.bytes \in Stored /\ dev'.length = Len(dev'.bytes)
             /\ tx'.status = "ok" /\ Served(f)
             /\ f.at # 0 => Kept
  <2> HIDE DEF d
  <2>1. /\ tx' \in Replies /\ Same(tx', f) /\ tx'.status = "ok"
        /\ tx'.body = d.bytes[f.at + 1] /\ tx'.total = d.length
    BY <1>6, <1>7, ChunkOf
  <2> QED
    BY <1>6, <1>7, <2>1 DEF Served, Kept
<1>8. ASSUME NeedsSnapshot(f) => flash[f.slot] # <<>>, NeedsSnapshot(f) \/ Continues(f),
             ~(f.at < d.length), Reply(f, d, "order")
      PROVE  /\ dev' \in Devices /\ tx' \in Replies /\ Same(tx', f)
             /\ dev'.bytes \in Stored /\ dev'.length = Len(dev'.bytes)
             /\ tx'.status = "order" /\ Kept
  <2> HIDE DEF d
  <2>1. dev' = d /\ tx' \in Replies /\ Same(tx', f) /\ tx'.status = "order"
    BY <1>8, AnswerOf DEF Reply
  <2>2. f.at # 0
    BY <1>6, <1>8
  <2> QED
    BY <1>6, <1>8, <2>1, <2>2 DEF Kept
<1>9. \/ NeedsSnapshot(f) /\ flash[f.slot] = <<>> /\ Reply(f, Refused(Session), "empty")
      \/ NeedsSnapshot(f) /\ Reply(f, Refused(Session), "io")
      \/ ~NeedsSnapshot(f) /\ ~Continues(f) /\ Reply(f, Renewed(Session), "order")
      \/ /\ NeedsSnapshot(f) => flash[f.slot] # <<>>
         /\ NeedsSnapshot(f) \/ Continues(f)
         /\ \/ f.at < d.length /\ dev' = d /\ tx' = Chunk(f, d)
            \/ ~(f.at < d.length) /\ Reply(f, d, "order")
  BY DEF Read
<1>10. NeedsSnapshot(f) <=> f.at = 0
  BY DEF NeedsSnapshot
<1> HIDE DEF d
<1> QED
  BY <1>3, <1>4, <1>5, <1>2, <1>7, <1>8, <1>9, <1>10

LEMMA WriteIs ==
    ASSUME DeviceTypes, NEW f \in Requests, Write(f),
           dev.mode = "writing" /\ dev.slot = f.slot => f.body \in Chunks
    PROVE  /\ dev' \in Devices /\ tx' \in Replies /\ Same(tx', f)
           /\ dev'.mode # "reading" \/ Kept
           /\ tx'.status # "empty"
           /\ tx'.status = "ok" =>
                /\ dev.mode = "writing" /\ dev.slot = f.slot /\ f.at = Len(dev.bytes)
                /\ dev'.mode = "writing" /\ dev'.slot = dev.slot /\ dev'.length = dev.length
                /\ dev'.bytes = Append(dev.bytes, f.body)
           /\ tx'.status # "ok" => Kept
           /\ UNCHANGED <<flash, open>>
<1>1. dev \in Devices /\ Session \in Devices
  BY SessionKeeps DEF DeviceTypes
<1>2. CASE InOrder(f)
  <2>1. /\ Session.mode = "writing" /\ dev.mode = "writing" /\ dev.slot = f.slot
        /\ f.at = Len(dev.bytes) /\ f.body \in Chunks
    BY <1>1, <1>2, SessionKeeps DEF InOrder, Writing
  <2> DEFINE d == [Renewed(Session) EXCEPT !.bytes = Append(@, f.body)]
  <2>2. Reply(f, d, "ok") /\ UNCHANGED <<flash, open>>
    BY <1>2 DEF Write
  <2>3. /\ Renewed(Session) \in Devices /\ Renewed(Session).mode = "writing"
        /\ Renewed(Session).slot = dev.slot /\ Renewed(Session).bytes = dev.bytes
        /\ Renewed(Session).length = dev.length
    BY <1>1, <2>1, SessionKeeps, RenewedKeeps
  <2>4. Append(dev.bytes, f.body) \in Seq(Chunks)
    BY <1>1, <2>1, AppendProperties DEF Devices
  <2>5. /\ d \in Devices /\ d.mode = "writing" /\ d.slot = dev.slot
        /\ d.bytes = Append(dev.bytes, f.body) /\ d.length = dev.length
    BY <2>3, <2>4 DEF Devices
  <2> HIDE DEF d
  <2>6. dev' = d /\ tx' \in Replies /\ Same(tx', f) /\ tx'.status = "ok"
    BY <2>2, AnswerOf DEF Reply
  <2> QED
    BY <2>1, <2>2, <2>5, <2>6
<1>3. CASE ~InOrder(f)
  <2>1. Reply(f, Renewed(Session), "order") /\ UNCHANGED <<flash, open>>
    BY <1>3 DEF Write
  <2> QED
    BY <2>1, NotServed
<1> QED
  BY <1>2, <1>3

LEMMA BeginIs ==
    ASSUME DeviceTypes, NEW f \in Requests, Begin(f)
    PROVE  /\ dev' \in Devices /\ tx' \in Replies /\ Same(tx', f) /\ tx'.status = "ok"
           /\ dev'.mode = "writing" /\ dev'.slot = f.slot
           /\ dev'.bytes = <<>> /\ dev'.length = f.total
           /\ UNCHANGED <<flash, open>>
<1> DEFINE d == [Renewed(Session) EXCEPT !.mode = "writing", !.slot = f.slot,
                                         !.bytes = <<>>, !.length = f.total]
<1>1. Renewed(Session) \in Devices
  BY SessionKeeps, RenewedKeeps DEF DeviceTypes
<1>2. <<>> \in Seq(Chunks)
  OBVIOUS
<1>3. /\ d \in Devices /\ d.mode = "writing" /\ d.slot = f.slot
      /\ d.bytes = <<>> /\ d.length = f.total
  BY <1>1, <1>2 DEF Devices, Requests
<1>4. Reply(f, d, "ok") /\ UNCHANGED <<flash, open>>
  BY DEF Begin
<1> HIDE DEF d
<1>5. dev' = d /\ tx' \in Replies /\ Same(tx', f) /\ tx'.status = "ok"
  BY <1>4, AnswerOf DEF Reply
<1> QED
  BY <1>3, <1>4, <1>5

\* What the last chunk completes.
Finished(f) == dev.mode = "writing" /\ dev.slot = f.slot /\ Store(f)

LEMMA CompleteIs ==
    ASSUME DeviceTypes, NEW f, Complete(f)
    PROVE  dev.mode = "writing" /\ dev.slot = f.slot /\ Session.bytes = dev.bytes
BY SessionKeeps DEF DeviceTypes, Complete, Writing

LEMMA CommitIs ==
    ASSUME DeviceTypes, NEW f \in Requests, Commit(f)
    PROVE  /\ dev' \in Devices /\ tx' \in Replies /\ Same(tx', f) /\ Kept
           /\ tx'.status # "empty"
           /\ UNCHANGED <<flash, open>> \/ Finished(f)
<1>1. CASE ~Complete(f) /\ Reply(f, Renewed(Session), "order") /\ UNCHANGED <<flash, open>>
  BY <1>1, NotServed
<1>2. CASE Complete(f) /\ Store(f) /\ \E status \in {"ok", "io"} : Reply(f, Closed, status)
  BY <1>2, NotServed, CompleteIs DEF Closed, Finished
<1>3. CASE /\ Complete(f) /\ UNCHANGED <<flash, open>>
           /\ \E status \in {"invalid", "io"} : Reply(f, Closed, status)
  BY <1>3, NotServed DEF Closed
<1> QED
  BY <1>1, <1>2, <1>3 DEF Commit

LEMMA HelloBusyIs ==
    ASSUME DeviceTypes, NEW f \in Requests, Hello(f) \/ Busy(f)
    PROVE  /\ dev' \in Devices /\ tx' \in Replies /\ Same(tx', f) /\ Kept
           /\ tx'.status # "empty"
           /\ tx'.status = "ok" => f.op = "hello"
           /\ UNCHANGED <<flash, open>>
<1>1. CASE Hello(f)
  BY <1>1, NotServed DEF Hello
<1>2. CASE Busy(f)
  BY <1>2, NotServed DEF Busy
<1> QED
  BY <1>1, <1>2

\* What the answer to f says, and what it does to the instrument.
LEMMA RespondIs ==
    ASSUME DeviceTypes, NEW f \in Requests, f.op # "hello" => f.slot \in Slots,
           f.op = "write" /\ dev.mode = "writing" /\ dev.slot = f.slot => f.body \in Chunks,
           Respond(f)
    PROVE  /\ dev' \in Devices /\ tx' \in Replies /\ Same(tx', f)
           /\ dev'.mode = "reading" => dev'.bytes \in Stored /\ dev'.length = Len(dev'.bytes)
           /\ UNCHANGED <<flash, open>> \/ (f.op = "commit" /\ Finished(f))
           /\ f.op = "read" => /\ tx'.status = "ok" => Served(f)
                               /\ tx'.status = "empty" => flash[f.slot] = <<>>
                               /\ f.at # 0 => Kept
           /\ f.op = "commit" => Kept
           /\ f.op = "begin" /\ tx'.status = "ok" =>
                /\ dev'.mode = "writing" /\ dev'.slot = f.slot
                /\ dev'.bytes = <<>> /\ dev'.length = f.total
           /\ f.op = "write" /\ tx'.status = "ok" =>
                /\ dev.mode = "writing" /\ dev.slot = f.slot /\ f.at = Len(dev.bytes)
                /\ dev'.mode = "writing" /\ dev'.slot = dev.slot /\ dev'.length = dev.length
                /\ dev'.bytes = Append(dev.bytes, f.body)
<1>1. Kept /\ dev'.mode = "reading" => dev'.bytes \in Stored /\ dev'.length = Len(dev'.bytes)
  BY DEF Kept, DeviceTypes
<1>2. CASE Hello(f) \/ Busy(f)
  <2>1. /\ dev' \in Devices /\ tx' \in Replies /\ Same(tx', f) /\ Kept
        /\ flash' = flash /\ open' = open
    BY <1>2, HelloBusyIs
  <2>2. f.op # "hello" => tx'.status # "ok" /\ tx'.status # "empty"
    BY <1>2, HelloBusyIs
  <2>3. f.op = "hello" => f.op # "read" /\ f.op # "begin" /\ f.op # "write"
    OBVIOUS
  <2>4. UNCHANGED <<flash, open>>
    BY <2>1
  <2> QED
    BY <1>1, <2>1, <2>2, <2>3, <2>4, Zenon
<1>3. CASE Read(f)
  <2>1. f.op = "read" /\ f.slot \in Slots /\ UNCHANGED <<flash, open>>
    BY <1>3 DEF Read
  <2> QED
    BY <1>3, <2>1, ReadIs
<1>4. CASE Begin(f)
  <2>1. f.op = "begin"
    BY <1>4 DEF Begin
  <2> QED
    BY <1>4, <2>1, BeginIs
<1>5. CASE Write(f)
  <2>1. f.op = "write"
    BY <1>5 DEF Write
  <2> QED
    BY <1>1, <1>5, <2>1, WriteIs
<1>6. CASE Commit(f)
  <2>1. f.op = "commit"
    BY <1>6 DEF Commit
  <2> QED
    BY <1>1, <1>6, <2>1, CommitIs
<1> QED
  BY <1>2, <1>3, <1>4, <1>5, <1>6 DEF Respond

LEMMA LeastNumber ==
    ASSUME NEW T, T \subseteq Nat, T # {}
    PROVE  \E x \in T : \A y \in T : x <= y
<1> DEFINE R == OpToRel(<, Nat)
<1>1. IsWellFoundedOn(R, Nat)
  BY NatLessThanWellFounded
<1>2. \E x \in T : \A y \in T : <<y, x>> \notin R
  <2> HIDE DEF R
  <2> QED
    BY <1>1, WFMin
<1>3. \A x, y \in Nat : <<y, x>> \notin R => x <= y
  BY DEF OpToRel
<1> QED
  BY <1>2, <1>3

\* The i-th open write is stored, or an earlier one that says the same.
LEMMA StoreIs ==
    ASSUME DeviceTypes, open \in Seq(OpenWrites), NEW f, Finished(f),
           NEW i \in 1..Len(open), open[i].slot = f.slot, dev.bytes = Whole(open[i].record)
    PROVE  /\ flash' = [flash EXCEPT ![f.slot] = dev.bytes]
           /\ f.slot \in Slots /\ dev.bytes \in Stored
           /\ \E m \in 1..i : /\ open[m].slot = f.slot /\ Whole(open[m].record) = dev.bytes
                             /\ open' = SubSeq(open, m + 1, Len(open))
                             /\ open' \in Seq(OpenWrites) /\ Len(open') = Len(open) - m
                             /\ \A j \in 1..Len(open') : open'[j] = open[m + j]
<1> DEFINE done == {j \in 1..Len(open) : open[j].slot = f.slot /\ Whole(open[j].record) = dev.bytes}
           least == CHOOSE j \in done : \A k \in done : j <= k
<1>1. Session.bytes = dev.bytes
  BY SessionKeeps DEF DeviceTypes
<1>2. i \in done /\ done \subseteq 1..Len(open) /\ Len(open) \in Nat
  OBVIOUS
<1>3. open' = SubSeq(open, 1 + least, Len(open))
  <2>1. done # {}
    BY <1>2
  <2>2. open' = After(f)
    BY DEF Finished, Store
  <2> QED
    BY <1>1, <2>1, <2>2 DEF After
<1>4. least \in done /\ least <= i
  <2> HIDE DEF done
  <2>0. done \subseteq Nat /\ done # {}
    BY <1>2
  <2>1. \E j \in done : \A k \in done : j <= k
    BY <2>0, LeastNumber, Zenon
  <2> QED
    BY <1>2, <2>1
<1>5. least \in 1..i /\ open[least].slot = f.slot /\ Whole(open[least].record) = dev.bytes
  BY <1>4
<1>6. open[i] \in OpenWrites
  OBVIOUS
<1>7. f.slot \in Slots /\ dev.bytes \in Stored
  BY <1>6, WholeIsStored DEF OpenWrites
<1>8. flash' = [flash EXCEPT ![f.slot] = dev.bytes]
  BY <1>1 DEF Finished, Store
<1> HIDE DEF least, done
<1>9. /\ SubSeq(open, least + 1, Len(open)) \in Seq(OpenWrites)
      /\ Len(SubSeq(open, least + 1, Len(open))) = Len(open) - least
      /\ \A j \in 1..(Len(open) - least) : SubSeq(open, least + 1, Len(open))[j] = open[least + j]
  <2>1. \A j \in (least + 1)..Len(open) : open[j] \in OpenWrites
    BY <1>2, <1>5
  <2>2. least + 1 \in Int /\ Len(open) \in Int /\ least <= Len(open)
    BY <1>2, <1>5
  <2>3. /\ SubSeq(open, least + 1, Len(open)) \in Seq(OpenWrites)
        /\ Len(SubSeq(open, least + 1, Len(open))) =
             IF least + 1 <= Len(open) THEN Len(open) - (least + 1) + 1 ELSE 0
        /\ \A j \in 1..(Len(open) - (least + 1) + 1) :
             SubSeq(open, least + 1, Len(open))[j] = open[(least + 1) + j - 1]
    BY <2>1, <2>2, SubSeqProperties
  <2> QED
    BY <1>2, <1>5, <2>2, <2>3
<1> QED
  BY <1>2, <1>3, <1>5, <1>7, <1>8, <1>9

-----------------------------------------------------------------------------
(* The lines.                                                              *)

\* A request leaves the line.
LEMMA HeadGone ==
    ASSUME LineTypes, Lines, up # <<>>, up' = Tail(up)
    PROVE  /\ Head(up) = up[1] /\ up[1] \in Requests
           /\ up[1].op # "hello" => up[1].slot \in Slots
           /\ Len(up) \in Nat \ {0} /\ up' \in Seq(Requests) /\ Len(up') = Len(up) - 1
           /\ \A i \in 1..Len(up') :
                /\ up'[i] = up[i + 1] /\ Opens(up'[i])
                /\ up'[i].op # "hello" => up'[i].slot \in Slots
           /\ Len(up) = 1 => up' = <<>>
           /\ up' # <<>> => 1 \in 1..Len(up')
<1>1. /\ Head(up) = up[1] /\ up[1] \in Requests /\ Len(up) \in Nat \ {0}
      /\ up' \in Seq(Requests) /\ Len(up') = Len(up) - 1
      /\ \A i \in 1..Len(up') : up'[i] = up[i + 1]
      /\ Len(up) = 1 => up' = <<>>
  BY Tails DEF LineTypes
<1>2. \A i \in 1..Len(up') : i + 1 \in 2..Len(up) /\ i + 1 \in 1..Len(up)
  BY <1>1
<1>3. up' # <<>> => 1 \in 1..Len(up')
  BY <1>1, EmptySeq
<1>4. 1 \in 1..Len(up)
  BY <1>1
<1> QED
  BY <1>1, <1>2, <1>3, <1>4 DEF Lines, LineTypes

\* The reply that the transmitter has after a request left the line.
Replied == tx' = Nothing \/ tx' = tx \/ (tx = Nothing /\ Same(tx', up[1]))

LEMMA SameTransitive ==
    ASSUME NEW f, NEW g, NEW h, Same(f, g)
    PROVE  Same(f, h) <=> Same(g, h)
BY DEF Same

LEMMA RequestGone ==
    ASSUME LineTypes, LibrarianTypes, Asked, Lines, Unambiguous, Heads,
           up # <<>>, up' = Tail(up), Replied, tx' # Nothing => tx' \in Replies,
           UNCHANGED <<down, job, pending>>
    PROVE  LineTypes' /\ Lines' /\ Unambiguous' /\ Heads'
<1> DEFINE n == Len(up)
<1>1. /\ up[1] \in Requests /\ n \in Nat \ {0} /\ up' \in Seq(Requests) /\ Len(up') = n - 1
      /\ \A i \in 1..Len(up') :
            /\ up'[i] = up[i + 1] /\ Opens(up'[i])
            /\ up'[i].op # "hello" => up'[i].slot \in Slots
      /\ n = 1 => up' = <<>>
      /\ up' # <<>> => 1 \in 1..Len(up')
  BY HeadGone
<1>2. LineTypes'
  BY <1>1 DEF LineTypes
<1>3. Lines'
  <2>1. \A i \in 2..Len(up') : Opens(up'[i])
    BY <1>1
  <2>2. up' # <<>> => Opens(up'[1])
    BY <1>1
  <2>3. Begun' => up' = <<>>
    BY <1>1 DEF Lines, Begun
  <2> QED
    BY <2>1, <2>2, <2>3 DEF Lines
<1>4. Unambiguous'
  <2> SUFFICES ASSUME Waiting PROVE
               /\ \A i \in 1..Len(up') : Same(up'[i], pending) => i = Len(up') /\ up'[i] = pending
               /\ tx' # Nothing /\ Same(tx', pending) => up' = <<>>
               /\ \A i \in 1..Len(down) :
                     Same(down[i], pending) => i = Len(down) /\ up' = <<>> /\ tx' = Nothing
    BY DEF Unambiguous, Waiting
  <2>1. ASSUME NEW i \in 1..Len(up'), Same(up'[i], pending)
        PROVE  i = Len(up') /\ up'[i] = pending
    <3>1. i + 1 \in 1..n /\ up'[i] = up[i + 1]
      BY <1>1
    <3>2. i + 1 = n /\ up[i + 1] = pending
      BY <2>1, <3>1 DEF Unambiguous
    <3>3. i \in Int /\ n \in Int /\ Len(up') = n - 1
      BY <1>1
    <3>4. i = Len(up')
      BY <3>2, <3>3
    <3> QED
      BY <3>1, <3>2, <3>4
  <2>2. ASSUME tx' # Nothing, Same(tx', pending)
        PROVE  up' = <<>>
    <3>1. tx = Nothing /\ Same(tx', up[1])
      BY <2>2 DEF Replied, Unambiguous
    <3>2. Same(up[1], pending)
      BY <2>2, <3>1, SameTransitive
    <3>3. 1 \in 1..n
      BY <1>1
    <3>4. n = 1
      BY <3>2, <3>3 DEF Unambiguous
    <3> QED
      BY <1>1, <3>4
  <2>3. \A i \in 1..Len(down) : ~Same(down[i], pending)
    BY DEF Unambiguous
  <2> QED
    BY <2>1, <2>2, <2>3
<1>5. Heads'
  <2>1. up' # <<>> => up'[1].op # "write" /\ up'[1].op # "commit"
    BY <1>1 DEF Opens
  <2> QED
    BY <2>1 DEF Heads
<1> QED
  BY <1>2, <1>3, <1>4, <1>5

\* What is known of the slot of the job is still so, unless it was saved.
SlotStays ==
    job.task \in Reads /\ job.slot \notin local' =>
        job.slot \notin local /\ flash'[job.slot] = flash[job.slot]

\* The answers on their way are those of before, and say the same.
LEMMA AnsweredStays ==
    ASSUME Answered, Kept, SlotStays, UNCHANGED <<job, pending>>, tx' \in {tx, Nothing},
           \A i \in 1..Len(down') :
              \/ \E j \in 1..Len(down) : down'[i] = down[j]
              \/ tx # Nothing /\ down'[i] = tx
    PROVE  Answered'
<1> SUFFICES ASSUME Waiting, NEW p, Same(p, pending),
                    \/ \E j \in 1..Len(down) : p = down[j]
                    \/ tx # Nothing /\ p = tx
             PROVE  Told(p)'
  BY DEF Answered, Waiting
<1>1. Told(p)
  BY DEF Answered
<1> QED
  BY <1>1 DEF Told, Collected, Backed, Kept, SlotStays, Reads

LEMMA NothingRead ==
    ASSUME job'.task \in Reads => job'.got = <<>>
    PROVE  ReadSoFar'
<1> SUFFICES ASSUME job'.task \in Reads
             PROVE  \E b \in Stored : \E n \in 0..Len(b) :
                       job'.got = SubSeq(b, 1, n) /\ n = 0
  BY DEF ReadSoFar
<1>1. <<>> \in Stored /\ 0 \in 0..Len(<<>>) /\ SubSeq(<<>>, 1, 0) = <<>>
  BY SubSeqEmpty DEF Stored
<1> QED
  BY <1>1

LEMMA ReadSoFarStays ==
    ASSUME ReadSoFar, Kept, SlotStays, UNCHANGED job
    PROVE  ReadSoFar'
BY DEF ReadSoFar, Backed, Kept, SlotStays

\* The record of an open write gets into its slot.
LEMMA StoreKeeps ==
    ASSUME DeviceTypes, LineTypes, LibrarianTypes, Asked, Lines, Heads, Opened, ReadSoFar,
           KnownIsStored, up # <<>>, up[1].op = "commit", Finished(up[1]),
           UNCHANGED <<job, known, local>>
    PROVE  /\ flash' \in [Slots -> Stored] /\ open' \in Seq(OpenWrites)
           /\ Opened' /\ ReadSoFar' /\ KnownIsStored'
<1> DEFINE f == up[1]
<1>1. f.slot \in Slots /\ known[f.slot] = Unknown /\ dev.mode = "writing" /\ dev.slot = f.slot
  <2>1. 1 \in 1..Len(up)
    BY Tails DEF LineTypes
  <2> QED
    BY <2>1 DEF Heads, LineTypes, Finished
<1>2. PICK i \in 1..Len(open) : /\ open[i].slot = f.slot /\ dev.bytes = Whole(open[i].record)
                                /\ job.task = "begin" => i < Len(open)
  BY <1>1 DEF Heads
<1>3. /\ flash' = [flash EXCEPT ![f.slot] = dev.bytes] /\ dev.bytes \in Stored
      /\ open' \in Seq(OpenWrites)
      /\ \E m \in 1..i : /\ Len(open') = Len(open) - m
                        /\ \A j \in 1..Len(open') : open'[j] = open[m + j]
  <2>1. open \in Seq(OpenWrites) /\ Finished(f)
    BY DEF LibrarianTypes
  <2> HIDE DEF f
  <2> QED
    BY <1>2, <2>1, StoreIs
<1>4. flash' \in [Slots -> Stored]
  BY <1>3 DEF DeviceTypes
<1>5. KnownIsStored'
  BY <1>1, <1>3 DEF KnownIsStored, DeviceTypes
<1>6. job.task \in {"send", "commit", "check"} \/ job.got # <<>> => up[1] = pending
  BY DEF Lines, Begun
<1>7. Opened'
  <2> SUFFICES ASSUME job.task \in {"begin", "send"}
               PROVE  /\ known[job.slot] = Unknown
                      /\ open' # <<>>
                      /\ open'[Len(open')] = [slot |-> job.slot, record |-> job.record]
    BY DEF Opened
  <2>1. job.task = "begin"
    BY <1>6 DEF Asked, Waiting
  <2>2. PICK m \in 1..i : /\ Len(open') = Len(open) - m
                          /\ \A j \in 1..Len(open') : open'[j] = open[m + j]
    BY <1>3
  <2>3. i < Len(open) /\ Len(open) \in Nat
    BY <1>2, <2>1 DEF LibrarianTypes
  <2>4. Len(open') \in 1..Len(open') /\ m + Len(open') = Len(open)
    BY <2>2, <2>3
  <2>5. open'[Len(open')] = open[Len(open)]
    BY <2>2, <2>4
  <2>6. open' # <<>>
    BY <2>4
  <2> QED
    BY <2>5, <2>6 DEF Opened
<1>8. ReadSoFar'
  <2>1. job.task \in Reads => job.got = <<>>
    BY <1>6 DEF Asked, Waiting, Reads
  <2> QED
    BY <2>1, NothingRead
<1> QED
  BY <1>3, <1>4, <1>5, <1>7, <1>8

-----------------------------------------------------------------------------
(* The instrument answers.                                                 *)

\* A write that is under way goes on with its record.
LEMMA HeadIsOfWrite ==
    ASSUME LineTypes, Heads, up # <<>>, up[1].op = "write", dev.mode = "writing",
           dev.slot = up[1].slot
    PROVE  \E r \in Records :
              /\ up[1].at \in Nat /\ up[1].at < Size[r] /\ up[1].body = <<r, up[1].at + 1>>
              /\ dev.bytes = SubSeq(Whole(r), 1, up[1].at) /\ dev.length = Size[r]
              /\ up[1].body \in Chunks
              /\ Append(dev.bytes, up[1].body) = SubSeq(Whole(r), 1, up[1].at + 1)
<1>1. up[1] \in Requests /\ up[1].at \in Nat
  <2>1. up[1] \in Requests
    BY Tails DEF LineTypes
  <2> QED
    BY <2>1 DEF Requests
<1>2. PICK r \in Records : /\ up[1].at < Size[r] /\ up[1].body = <<r, up[1].at + 1>>
                           /\ Collected(up[1].slot, r, up[1].at)
  BY DEF Heads
<1>3. dev.bytes = SubSeq(Whole(r), 1, up[1].at) /\ dev.length = Size[r]
  BY <1>2 DEF Collected
<1> DEFINE n == up[1].at
<1>4. /\ Whole(r) \in Seq(Chunks) /\ Len(Whole(r)) = Size[r] /\ Size[r] \in Nat
      /\ \A i \in 1..Size[r] : Whole(r)[i] = <<r, i>>
  BY WholeIsStored
<1>5. n \in 0..Len(Whole(r)) /\ n < Len(Whole(r)) /\ n + 1 \in 1..Size[r]
  BY <1>1, <1>2, <1>4
<1>6. Append(SubSeq(Whole(r), 1, n), Whole(r)[n + 1]) = SubSeq(Whole(r), 1, n + 1)
      /\ Whole(r)[n + 1] \in Chunks
  BY <1>4, <1>5, Prefix
<1>7. up[1].body = Whole(r)[n + 1]
  BY <1>2, <1>4, <1>5
<1> QED
  BY <1>1, <1>2, <1>3, <1>6, <1>7

\* What the answer to the request of the job says is so.
LEMMA OwnAnswer ==
    ASSUME TransferInv, Waiting, up # <<>>, up[1] = pending, Respond(up[1]), UNCHANGED <<job, local>>
    PROVE  Told(tx)'
<1> DEFINE f == up[1]
<1>1. /\ f \in Requests /\ (f.op # "hello" => f.slot \in Slots)
      /\ DeviceTypes /\ LibrarianTypes /\ Asked /\ Heads /\ ReadSoFar /\ LineTypes
  <2>1. 1 \in 1..Len(up) /\ up[1] \in Requests
    BY Tails DEF TransferInv, TransferTypes, LineTypes
  <2> QED
    BY <2>1 DEF TransferInv, TransferTypes, LineTypes
<1>2. f.op = "write" /\ dev.mode = "writing" /\ dev.slot = f.slot => f.body \in Chunks
  BY <1>1, HeadIsOfWrite
<1>3. /\ f.op = "read" => /\ tx'.status = "ok" => Served(f)
                          /\ tx'.status = "empty" => flash[f.slot] = <<>>
      /\ UNCHANGED <<flash, open>> \/ f.op = "commit"
      /\ f.op = "begin" /\ tx'.status = "ok" =>
            /\ dev'.mode = "writing" /\ dev'.slot = f.slot
            /\ dev'.bytes = <<>> /\ dev'.length = f.total
      /\ f.op = "write" /\ tx'.status = "ok" =>
                /\ dev.mode = "writing" /\ dev.slot = f.slot /\ f.at = Len(dev.bytes)
                /\ dev'.mode = "writing" /\ dev'.slot = dev.slot /\ dev'.length = dev.length
                /\ dev'.bytes = Append(dev.bytes, f.body)
  <2> HIDE DEF f
  <2>1. Respond(f)
    BY DEF f
  <2> QED
    BY <1>1, <1>2, <2>1, RespondIs
<1>4. ASSUME job.task = "begin", tx'.status = "ok"
      PROVE  Collected(job.slot, job.record, 0)'
  <2>1. /\ f.op = "begin" /\ f.slot = job.slot /\ f.total = Size[job.record]
        /\ job.record \in Records
    BY <1>1, <1>4 DEF Asked, Waiting, LibrarianTypes, Writes
  <2>2. SubSeq(Whole(job.record), 1, 0) = <<>>
    BY SubSeqEmpty
  <2> QED
    BY <1>3, <1>4, <2>1, <2>2 DEF Collected, Whole
<1>5. ASSUME job.task = "send", tx'.status = "ok"
      PROVE  Collected(job.slot, job.record, job.total + 1)'
  <2>1. /\ f.op = "write" /\ f.slot = job.slot /\ f.at = job.total
        /\ f.body = <<job.record, job.total + 1>>
    BY <1>1, <1>5 DEF Asked, Waiting
  <2>2. /\ dev.mode = "writing" /\ dev.slot = f.slot
        /\ dev'.mode = "writing" /\ dev'.slot = dev.slot /\ dev'.length = dev.length
        /\ dev'.bytes = Append(dev.bytes, f.body)
    BY <1>3, <1>5, <2>1
  <2>3. PICK r \in Records :
              /\ f.body = <<r, f.at + 1>> /\ dev.length = Size[r]
              /\ Append(dev.bytes, f.body) = SubSeq(Whole(r), 1, f.at + 1)
    BY <1>1, <2>1, <2>2, HeadIsOfWrite
  <2>4. r = job.record
    BY <2>1, <2>3
  <2> QED
    BY <2>1, <2>2, <2>3, <2>4 DEF Collected, Whole
<1>6. ASSUME job.task \in Reads, tx'.status = "ok"
      PROVE  \E b \in Stored : \E n \in 0..(Len(b) - 1) :
                /\ job.got = SubSeq(b, 1, n)
                /\ tx'.body = b[n + 1] /\ tx'.total = Len(b)
                /\ Backed(b)'
  <2>1. /\ f.op = "read" /\ f.slot = job.slot /\ f.at = Len(job.got) /\ f.at \in Nat
    BY <1>1, <1>6 DEF Asked, Waiting, Reads, Requests
  <2>2. PICK b \in Stored :
        /\ f.at < Len(b) /\ tx'.body = b[f.at + 1] /\ tx'.total = Len(b)
        /\ dev'.mode = "reading" /\ dev'.slot = f.slot
        /\ dev'.bytes = b /\ dev'.length = Len(b)
        /\ f.at = 0 => b = flash[f.slot]
        /\ f.at # 0 => dev.mode = "reading" /\ dev.slot = f.slot /\ dev.bytes = b
    BY <1>3, <1>6, <2>1 DEF Served
  <2>3. f.at \in 0..(Len(b) - 1) /\ f.at \in 0..Len(b) /\ b \in Seq(Chunks)
    BY <2>1, <2>2, StoredIsSeq
  <2>4. flash' = flash
    BY <1>3, <2>1
  <2>5. CASE f.at = 0
    <3>1. job.got = <<>>
      BY <1>1, <2>1, <2>5, EmptySeq DEF LibrarianTypes, Jobs
    <3>2. SubSeq(b, 1, 0) = <<>>
      BY SubSeqEmpty
    <3>3. Backed(b)'
      BY <2>1, <2>2, <2>4, <2>5 DEF Backed
    <3> QED
      BY <2>2, <2>3, <2>5, <3>1, <3>2, <3>3
  <2>6. CASE f.at # 0
    <3>1. PICK c \in Stored : \E n \in 0..Len(c) :
              /\ job.got = SubSeq(c, 1, n)
              /\ n > 0 => job.total = Len(c) /\ Backed(c)
      BY <1>1, <1>6 DEF ReadSoFar
    <3>2. PICK n \in 0..Len(c) : /\ job.got = SubSeq(c, 1, n)
                                 /\ n > 0 => job.total = Len(c) /\ Backed(c)
      BY <3>1
    <3>3. c \in Seq(Chunks) /\ Len(SubSeq(c, 1, n)) = n
      BY StoredIsSeq, Prefix
    <3>4. n = f.at /\ n > 0
      BY <2>1, <2>6, <3>2, <3>3
    <3>5. c = b
      BY <2>1, <2>2, <2>6, <3>2, <3>4 DEF Backed
    <3>6. Backed(b)'
      BY <2>1, <2>2, <2>4, <3>2, <3>4, <3>5 DEF Backed
    <3> QED
      BY <2>2, <2>3, <3>2, <3>4, <3>5, <3>6
  <2> QED
    BY <2>5, <2>6
<1>7. ASSUME job.task = "read", tx'.status = "empty", job.slot \notin local
      PROVE  flash'[job.slot] = <<>>
  <2>1. f.op = "read" /\ f.slot = job.slot
    BY <1>1, <1>7 DEF Asked, Waiting, Reads
  <2> QED
    BY <1>3, <1>7, <2>1
<1> HIDE DEF f
<1> QED
  BY <1>4, <1>5, <1>6, <1>7 DEF Told

\* Nothing of what the librarian has changes.
LEMMA LibrarianStays ==
    ASSUME LibrarianTypes, Asked, UNCHANGED <<job, pending, seq, known>>,
           timer' \in 0..HostTimeout, open' \in Seq(OpenWrites)
    PROVE  LibrarianTypes' /\ Asked'
<1>1. LibrarianTypes'
  BY DEF LibrarianTypes
<1>2. Asked'
  BY DEF Asked, Waiting
<1> QED
  BY <1>1, <1>2

LEMMA DeliverKeeps ==
    ASSUME TransferInv, Deliver
    PROVE  TransferInv'
<1> DEFINE f == up[1]
<1>0. /\ DeviceTypes /\ LineTypes /\ LibrarianTypes /\ Asked /\ Lines /\ Unambiguous
      /\ Heads /\ Opened /\ ReadSoFar /\ Answered /\ KnownIsStored
  BY DEF TransferInv, TransferTypes
<1>1. /\ tx = Nothing /\ up # <<>> /\ Respond(Head(up)) /\ up' = Tail(up)
      /\ UNCHANGED <<partial, down, known, local>>
      /\ UNCHANGED <<job, pending, timer, seq, jobs>>
  BY DEF Deliver, librarian
<1>2. Head(up) = f /\ f \in Requests /\ (f.op # "hello" => f.slot \in Slots)
  BY <1>0, <1>1, HeadGone
<1>3. f.op = "write" /\ dev.mode = "writing" /\ dev.slot = f.slot => f.body \in Chunks
  BY <1>0, <1>1, HeadIsOfWrite
<1>4. /\ dev' \in Devices /\ tx' \in Replies /\ Same(tx', f)
      /\ dev'.mode = "reading" => dev'.bytes \in Stored /\ dev'.length = Len(dev'.bytes)
      /\ UNCHANGED <<flash, open>> \/ (f.op = "commit" /\ Finished(f))
      /\ f.op = "read" => (f.at # 0 => Kept)
  <2> HIDE DEF f
  <2>1. Respond(f)
    BY <1>1, <1>2
  <2> QED
    BY <1>0, <1>2, <1>3, <2>1, RespondIs
<1>5. LineTypes' /\ Lines' /\ Unambiguous' /\ Heads'
  BY <1>0, <1>1, <1>4, RequestGone DEF Replied
<1>6. /\ flash' \in [Slots -> Stored] /\ open' \in Seq(OpenWrites)
      /\ Opened' /\ ReadSoFar' /\ KnownIsStored'
  <2>1. CASE f.op = "commit" /\ Finished(f)
    BY <1>0, <1>1, <2>1, StoreKeeps
  <2>2. CASE UNCHANGED <<flash, open>>
    <3>1. /\ flash' \in [Slots -> Stored] /\ open' \in Seq(OpenWrites)
          /\ Opened' /\ KnownIsStored'
      BY <1>0, <1>1, <2>2 DEF DeviceTypes, LibrarianTypes, Opened, KnownIsStored
    <3>2. ASSUME job.task \in Reads, job.got # <<>>
          PROVE  ReadSoFar'
      <4>1. f = pending
        BY <1>0, <1>1, <3>2 DEF Lines, Begun
      <4>2. f.op = "read" /\ f.at = Len(job.got) /\ job.got \in Seq(Chunks)
        BY <1>0, <3>2, <4>1 DEF Asked, Waiting, Reads, LibrarianTypes, Jobs
      <4>3. f.at # 0
        BY <3>2, <4>2, EmptySeq
      <4>4. Kept
        BY <1>4, <4>2, <4>3
      <4>5. UNCHANGED <<job, local, flash>>
        BY <1>1, <2>2
      <4> QED
        BY <1>0, <4>4, <4>5, ReadSoFarStays DEF SlotStays
    <3>3. ASSUME job.task \notin Reads \/ job.got = <<>>
          PROVE  ReadSoFar'
      BY <1>1, <3>3, NothingRead
    <3> QED
      BY <3>1, <3>2, <3>3
  <2> QED
    BY <1>4, <2>1, <2>2
<1>7. DeviceTypes'
  BY <1>0, <1>1, <1>4, <1>6 DEF DeviceTypes
<1>8. LibrarianTypes' /\ Asked'
  <2>1. timer' \in 0..HostTimeout
    BY <1>0, <1>1 DEF LibrarianTypes
  <2> QED
    BY <1>0, <1>1, <1>6, <2>1, LibrarianStays
<1>9. Answered'
  <2> SUFFICES ASSUME Waiting
               PROVE  /\ Same(tx', pending) => Told(tx)'
                      /\ \A i \in 1..Len(down) : ~Same(down[i], pending)
    BY <1>1 DEF Answered, Waiting
  <2>1. \A i \in 1..Len(down) : ~Same(down[i], pending)
    BY <1>0, <1>1 DEF Unambiguous
  <2>2. ASSUME Same(tx', pending)
        PROVE  Told(tx)'
    <3>1. Same(f, pending)
      BY <1>4, <2>2, SameTransitive
    <3>2. 1 \in 1..Len(up)
      BY <1>0, <1>1, HeadGone
    <3>3. f = pending
      BY <1>0, <3>1, <3>2 DEF Unambiguous
    <3> QED
      BY <1>1, <1>2, <3>3, OwnAnswer
  <2> QED
    BY <2>1, <2>2
<1> QED
  BY <1>5, <1>6, <1>7, <1>8, <1>9 DEF TransferInv, TransferTypes

-----------------------------------------------------------------------------
(* The lines, the power, the user of the instrument and the time.          *)

\* Slots, job and history stay; the instrument goes on or stops.
LEMMA QuietKeeps ==
    ASSUME TransferInv, UNCHANGED <<flash, job, pending, seq, known, open, local>>,
           dev' \in Devices, Kept, partial' \in 0..PartialExpiry, timer' \in 0..HostTimeout
    PROVE  /\ DeviceTypes' /\ LibrarianTypes' /\ Asked'
           /\ Opened' /\ ReadSoFar' /\ KnownIsStored'
<1>1. DeviceTypes'
  BY DEF TransferInv, TransferTypes, DeviceTypes, Kept
<1>2. LibrarianTypes' /\ Asked'
  <2>1. open' \in Seq(OpenWrites)
    BY DEF TransferInv, TransferTypes, LibrarianTypes
  <2> QED
    BY <2>1, LibrarianStays DEF TransferInv, TransferTypes
<1>3. Opened' /\ KnownIsStored'
  BY DEF TransferInv, Opened, KnownIsStored
<1>4. ReadSoFar'
  BY ReadSoFarStays DEF TransferInv, SlotStays
<1> QED
  BY <1>1, <1>2, <1>3, <1>4

\* A request is lost, or taken for the rest of another.
LEMMA RequestLost ==
    ASSUME TransferInv, up # <<>>, up' = Tail(up), partial' \in 0..PartialExpiry,
           UNCHANGED <<flash, dev, tx, down, librarian, history>>
    PROVE  TransferInv'
<1>1. /\ UNCHANGED <<flash, dev, tx, down, job, pending, timer, seq, known, open, local>>
      /\ Kept /\ Replied /\ SlotStays
  BY DEF librarian, history, Kept, Replied, SlotStays
<1>2. /\ LineTypes /\ LibrarianTypes /\ Asked /\ Lines /\ Unambiguous /\ Heads /\ Answered
      /\ dev \in Devices /\ timer \in 0..HostTimeout
  BY DEF TransferInv, TransferTypes, DeviceTypes, LibrarianTypes
<1>3. LineTypes' /\ Lines' /\ Unambiguous' /\ Heads'
  <2>1. tx' # Nothing => tx' \in Replies
    BY <1>1, <1>2 DEF LineTypes
  <2> QED
    BY <1>1, <1>2, <2>1, RequestGone
<1>4. /\ DeviceTypes' /\ LibrarianTypes' /\ Asked'
      /\ Opened' /\ ReadSoFar' /\ KnownIsStored'
  BY <1>1, <1>2, QuietKeeps
<1>5. Answered'
  <2>1. \A i \in 1..Len(down') : \E j \in 1..Len(down) : down'[i] = down[j]
    BY <1>1
  <2> QED
    BY <1>1, <1>2, <2>1, AnsweredStays
<1> QED
  BY <1>3, <1>4, <1>5 DEF TransferInv, TransferTypes

LEMMA PartialIsLegal == PartialExpiry \in 0..PartialExpiry /\ 0 \in 0..PartialExpiry
BY TransferAssumption

LEMMA LoseRequestKeeps ==
    ASSUME TransferInv, LoseRequest \/ Swallow
    PROVE  TransferInv'
<1>1. partial \in 0..PartialExpiry
  BY DEF TransferInv, TransferTypes, DeviceTypes
<1>2. CASE LoseRequest
  BY <1>1, <1>2, PartialIsLegal, RequestLost DEF LoseRequest
<1>3. CASE Swallow
  BY <1>3, PartialIsLegal, RequestLost DEF Swallow
<1> QED
  BY <1>2, <1>3

LEMMA TransmitKeeps ==
    ASSUME TransferInv, Transmit
    PROVE  TransferInv'
<1>1. /\ tx # Nothing /\ tx' = Nothing /\ down' = Append(down, tx)
      /\ UNCHANGED <<flash, dev, partial, up, job, pending, timer, seq, known, open, local>>
      /\ Kept /\ SlotStays
  BY DEF Transmit, librarian, history, Kept, SlotStays
<1>2. /\ LineTypes /\ Lines /\ Unambiguous /\ Heads /\ Answered
      /\ dev \in Devices /\ timer \in 0..HostTimeout /\ partial \in 0..PartialExpiry
  BY DEF TransferInv, TransferTypes, DeviceTypes, LibrarianTypes
<1>3. /\ down' \in Seq(Replies) /\ Len(down) \in Nat /\ Len(down') = Len(down) + 1
      /\ \A i \in 1..Len(down) : down'[i] = down[i]
      /\ down'[Len(down')] = tx
  <2>1. down \in Seq(Replies) /\ tx \in Replies
    BY <1>1, <1>2 DEF LineTypes
  <2>2. /\ down' \in Seq(Replies) /\ Len(down) \in Nat /\ Len(down') = Len(down) + 1
        /\ \A i \in 1..Len(down) : down'[i] = down[i]
        /\ down'[Len(down) + 1] = tx
    BY <1>1, <2>1, Appends
  <2> QED
    BY <2>2
<1>4. \A i \in 1..Len(down') : i \in 1..Len(down) \/ i = Len(down')
  BY <1>3
<1>5. LineTypes'
  BY <1>1, <1>2, <1>3 DEF LineTypes
<1>6. Lines'
  BY <1>1, <1>2 DEF Lines, Begun
<1>7. Unambiguous'
  <2> SUFFICES ASSUME Waiting PROVE
        /\ \A i \in 1..Len(up) : Same(up[i], pending) => i = Len(up) /\ up[i] = pending
        /\ \A i \in 1..Len(down') : Same(down'[i], pending) => i = Len(down') /\ up = <<>>
    BY <1>1 DEF Unambiguous, Waiting
  <2>1. \A i \in 1..Len(up) : Same(up[i], pending) => i = Len(up) /\ up[i] = pending
    BY <1>2 DEF Unambiguous
  <2>2. \A i \in 1..Len(down) : ~Same(down[i], pending)
    BY <1>1, <1>2 DEF Unambiguous
  <2>3. Same(tx, pending) => up = <<>>
    BY <1>1, <1>2 DEF Unambiguous
  <2> QED
    BY <1>3, <1>4, <2>1, <2>2, <2>3
<1>8. Heads'
  BY <1>1, <1>2 DEF Heads, Collected
<1>9. /\ DeviceTypes' /\ LibrarianTypes' /\ Asked'
      /\ Opened' /\ ReadSoFar' /\ KnownIsStored'
  BY <1>1, <1>2, QuietKeeps
<1>10. Answered'
  <2>1. \A i \in 1..Len(down') :
           (\E j \in 1..Len(down) : down'[i] = down[j]) \/ (tx # Nothing /\ down'[i] = tx)
    BY <1>1, <1>3, <1>4
  <2> QED
    BY <1>1, <1>2, <2>1, AnsweredStays
<1> QED
  BY <1>5, <1>6, <1>7, <1>8, <1>9, <1>10 DEF TransferInv, TransferTypes

\* A reply is lost, or answers what is not asked any more.
LEMMA LoseReplyKeeps ==
    ASSUME TransferInv, LoseReply \/ Discard
    PROVE  TransferInv'
<1>1. /\ down # <<>> /\ down' = Tail(down)
      /\ UNCHANGED <<flash, dev, partial, tx, up, job, pending, timer, seq, known, open, local>>
      /\ Kept /\ SlotStays
  BY DEF LoseReply, Discard, device, librarian, history, Kept, SlotStays
<1>2. /\ LineTypes /\ Lines /\ Unambiguous /\ Heads /\ Answered
      /\ dev \in Devices /\ timer \in 0..HostTimeout /\ partial \in 0..PartialExpiry
  BY DEF TransferInv, TransferTypes, DeviceTypes, LibrarianTypes
<1>3. /\ down' \in Seq(Replies) /\ Len(down) \in Nat \ {0} /\ Len(down') = Len(down) - 1
      /\ \A i \in 1..Len(down') : down'[i] = down[i + 1]
  <2>1. down \in Seq(Replies)
    BY <1>2 DEF LineTypes
  <2> QED
    BY <1>1, <2>1, Tails
<1>4. \A i \in 1..Len(down') : i + 1 \in 1..Len(down)
  BY <1>3
<1>5. LineTypes'
  BY <1>1, <1>2, <1>3 DEF LineTypes
<1>6. Lines'
  <2>1. up # <<>> => Opens(up[1])
    BY <1>1, <1>2 DEF Lines
  <2>2. Begun => up = <<>>
    BY <1>1, <1>2 DEF Lines
  <2> QED
    BY <1>1, <1>2, <2>1, <2>2 DEF Lines, Begun
<1>7. Unambiguous'
  <2> SUFFICES ASSUME Waiting PROVE
        /\ \A i \in 1..Len(up) : Same(up[i], pending) => i = Len(up) /\ up[i] = pending
        /\ tx # Nothing /\ Same(tx, pending) => up = <<>>
        /\ \A i \in 1..Len(down') :
              Same(down'[i], pending) => i = Len(down') /\ up = <<>> /\ tx = Nothing
    BY <1>1 DEF Unambiguous, Waiting
  <2>1. /\ \A i \in 1..Len(up) : Same(up[i], pending) => i = Len(up) /\ up[i] = pending
        /\ tx # Nothing /\ Same(tx, pending) => up = <<>>
        /\ \A i \in 1..Len(down) :
              Same(down[i], pending) => i = Len(down) /\ up = <<>> /\ tx = Nothing
    BY <1>2 DEF Unambiguous
  <2>2. \A i \in 1..Len(down') : i + 1 = Len(down) => i = Len(down')
    BY <1>3
  <2> QED
    BY <1>3, <1>4, <2>1, <2>2
<1>8. Heads'
  BY <1>1, <1>2 DEF Heads, Collected
<1>9. /\ DeviceTypes' /\ LibrarianTypes' /\ Asked'
      /\ Opened' /\ ReadSoFar' /\ KnownIsStored'
  BY <1>1, <1>2, QuietKeeps
<1>10. Answered'
  <2>1. \A i \in 1..Len(down') : \E j \in 1..Len(down) : down'[i] = down[j]
    BY <1>3, <1>4
  <2> QED
    BY <1>1, <1>2, <2>1, AnsweredStays
<1> QED
  BY <1>5, <1>6, <1>7, <1>8, <1>9, <1>10 DEF TransferInv, TransferTypes

\* The lines stay as they are, and the instrument goes on or stops.
LEMMA LinesStay ==
    ASSUME LineTypes, Lines, Unambiguous, UNCHANGED <<up, down, job, pending>>,
           tx' \in {tx, Nothing}
    PROVE  LineTypes' /\ Lines' /\ Unambiguous'
<1>1. LineTypes'
  BY DEF LineTypes
<1>2. Lines'
  BY DEF Lines, Begun
<1>3. Unambiguous'
  BY DEF Unambiguous, Waiting
<1> QED
  BY <1>1, <1>2, <1>3

LEMMA HeadsStay ==
    ASSUME Heads, Kept, UNCHANGED <<up, job, open>>, \A s : known[s] = Unknown => known'[s] = Unknown
    PROVE  Heads'
BY DEF Heads, Collected, Kept

LEMMA DownInRange ==
    ASSUME NEW m \in Nat, NEW n \in 0..m
    PROVE  Down(n) \in 0..m
BY DEF Down

LEMMA TickKeeps ==
    ASSUME TransferInv, Tick
    PROVE  TransferInv'
<1>1. /\ timer' = Down(timer) /\ partial' = Down(partial)
      /\ dev' = [dev EXCEPT !.session = Down(@)]
      /\ UNCHANGED <<flash, tx, up, down, job, pending, seq, known, open, local>>
  BY DEF Tick, history
<1>2. /\ LineTypes /\ Lines /\ Unambiguous /\ Heads /\ Answered
      /\ dev \in Devices /\ timer \in 0..HostTimeout /\ partial \in 0..PartialExpiry
  BY DEF TransferInv, TransferTypes, DeviceTypes, LibrarianTypes
<1>3. /\ dev' \in Devices /\ Kept
      /\ timer' \in 0..HostTimeout /\ partial' \in 0..PartialExpiry
  <2>1. timer' \in 0..HostTimeout /\ partial' \in 0..PartialExpiry
    BY <1>1, <1>2, DownInRange, TransferAssumption
  <2>2. Down(dev.session) \in 0..SessionExpiry
    BY <1>2, DownInRange, TransferAssumption DEF Devices
  <2> QED
    BY <1>1, <1>2, <2>1, <2>2 DEF Devices, Kept
<1>4. LineTypes' /\ Lines' /\ Unambiguous'
  BY <1>1, <1>2, LinesStay
<1>5. Heads'
  BY <1>1, <1>2, <1>3, HeadsStay
<1>6. /\ DeviceTypes' /\ LibrarianTypes' /\ Asked'
      /\ Opened' /\ ReadSoFar' /\ KnownIsStored'
  BY <1>1, <1>3, QuietKeeps
<1>7. Answered'
  BY <1>1, <1>2, <1>3, AnsweredStays DEF SlotStays
<1> QED
  BY <1>4, <1>5, <1>6, <1>7 DEF TransferInv, TransferTypes

LEMMA SaveLocallyKeeps ==
    ASSUME TransferInv, NEW s \in Slots, NEW r \in Records, SaveLocally(s, r)
    PROVE  TransferInv'
<1>1. /\ flash' = [flash EXCEPT ![s] = Whole(r)] /\ known' = [known EXCEPT ![s] = Unknown]
      /\ local' = local \union {s}
      /\ UNCHANGED <<dev, partial, tx, up, down, job, pending, timer, seq, open>>
      /\ Kept
  BY DEF SaveLocally, librarian, Kept
<1>2. /\ DeviceTypes /\ LineTypes /\ LibrarianTypes /\ Asked /\ Lines /\ Unambiguous
      /\ Heads /\ Opened /\ ReadSoFar /\ Answered /\ KnownIsStored
  BY DEF TransferInv, TransferTypes
<1>3. SlotStays
  BY <1>1, <1>2 DEF SlotStays, DeviceTypes, LibrarianTypes
<1>4. DeviceTypes'
  <2>1. flash' \in [Slots -> Stored]
    BY <1>1, <1>2, WholeIsStored DEF DeviceTypes
  <2> QED
    BY <1>1, <1>2, <2>1 DEF DeviceTypes
<1>5. LibrarianTypes'
  <2>1. known' \in [Slots -> Stored \union {Unknown}]
    BY <1>1, <1>2 DEF LibrarianTypes
  <2> QED
    BY <1>1, <1>2, <2>1 DEF LibrarianTypes
<1>6. Asked'
  BY <1>1, <1>2 DEF Asked, Waiting
<1>7. LineTypes' /\ Lines' /\ Unambiguous'
  BY <1>1, <1>2, LinesStay
<1>8. KnownIsStored'
  BY <1>1, <1>2 DEF KnownIsStored, DeviceTypes, LibrarianTypes
<1>9. \A t \in Slots : known[t] = Unknown => known'[t] = Unknown
  BY <1>1, <1>2 DEF LibrarianTypes
<1>10. Opened'
  <2>1. job.task \in {"begin", "send"} => job.slot \in Slots
    BY <1>2 DEF LibrarianTypes, Reads, Writes
  <2> QED
    BY <1>1, <1>2, <1>9, <2>1 DEF Opened
<1>11. Heads'
  <2>1. up # <<>> /\ up[1].op = "commit" => up[1].slot \in Slots
    <3>1. up # <<>> => 1 \in 1..Len(up)
      BY <1>2, Tails DEF LineTypes
    <3> QED
      BY <1>2, <3>1 DEF LineTypes
  <2> QED
    BY <1>1, <1>2, <1>9, <2>1 DEF Heads, Collected
<1>12. ReadSoFar'
  BY <1>1, <1>2, <1>3, ReadSoFarStays
<1>13. Answered'
  BY <1>1, <1>2, <1>3, AnsweredStays
<1> QED
  BY <1>4, <1>5, <1>6, <1>7, <1>8, <1>10, <1>11, <1>12, <1>13 DEF TransferInv, TransferTypes

\* The instrument starts again, with or without the record it was about to store.
LEMMA PowerLossKeeps ==
    ASSUME TransferInv, PowerLoss
    PROVE  TransferInv'
<1>1. /\ dev' = Off /\ partial' = 0 /\ tx' = Nothing
      /\ UNCHANGED <<down, job, pending, timer, seq, known, local>>
  BY DEF PowerLoss, Restarted, librarian
<1>2. /\ DeviceTypes /\ LineTypes /\ LibrarianTypes /\ Asked /\ Lines /\ Unambiguous
      /\ Heads /\ Opened /\ ReadSoFar /\ Answered /\ KnownIsStored
  BY DEF TransferInv, TransferTypes
<1>3. dev' \in Devices /\ Kept
  <2>1. <<>> \in Seq(Chunks) /\ 0 \in 0..SessionExpiry
    BY TransferAssumption
  <2> QED
    BY <1>1, <2>1 DEF Off, Devices, Kept
<1>4. timer' \in 0..HostTimeout /\ partial' \in 0..PartialExpiry
  BY <1>1, <1>2, PartialIsLegal DEF LibrarianTypes
<1>5. CASE UNCHANGED <<up, flash, open>>
  <2>1. LineTypes' /\ Lines' /\ Unambiguous'
    BY <1>1, <1>2, <1>5, LinesStay
  <2>2. Heads'
    BY <1>1, <1>2, <1>3, <1>5, HeadsStay
  <2>3. /\ DeviceTypes' /\ LibrarianTypes' /\ Asked'
        /\ Opened' /\ ReadSoFar' /\ KnownIsStored'
    BY <1>1, <1>3, <1>4, <1>5, QuietKeeps
  <2>4. SlotStays
    BY <1>1, <1>5 DEF SlotStays
  <2>5. Answered'
    BY <1>1, <1>2, <1>3, <2>4, AnsweredStays
  <2> QED
    BY <2>1, <2>2, <2>3, <2>5 DEF TransferInv, TransferTypes
<1>6. CASE /\ up # <<>> /\ Head(up).op = "commit" /\ Complete(Head(up))
           /\ Store(Head(up)) /\ up' = Tail(up)
  <2>1. Head(up) = up[1]
    BY <1>2, <1>6, HeadGone
  <2>2. up[1].op = "commit" /\ Finished(up[1])
    BY <1>2, <1>6, <2>1, CompleteIs DEF Finished
  <2>3. /\ flash' \in [Slots -> Stored] /\ open' \in Seq(OpenWrites)
        /\ Opened' /\ ReadSoFar' /\ KnownIsStored'
    BY <1>1, <1>2, <1>6, <2>2, StoreKeeps
  <2>4. LineTypes' /\ Lines' /\ Unambiguous' /\ Heads'
    BY <1>1, <1>2, <1>6, RequestGone DEF Replied
  <2>5. DeviceTypes'
    <3>1. dev'.mode # "reading"
      BY <1>1 DEF Off
    <3> QED
      BY <1>3, <1>4, <2>3, <3>1 DEF DeviceTypes
  <2>6. LibrarianTypes' /\ Asked'
    BY <1>1, <1>2, <1>4, <2>3, LibrarianStays
  <2>7. Answered'
    <3>1. Waiting => \A i \in 1..Len(down) : ~Same(down[i], pending)
      BY <1>2, <1>6 DEF Unambiguous
    <3> QED
      BY <1>1, <3>1 DEF Answered, Waiting
  <2> QED
    BY <2>3, <2>4, <2>5, <2>6, <2>7 DEF TransferInv, TransferTypes
<1> QED
  BY <1>5, <1>6 DEF PowerLoss

-----------------------------------------------------------------------------
(* The librarian.                                                          *)

LEMMA IdleIs ==
    /\ Idle.task = "idle" /\ Idle.slot = Nothing /\ Idle.record = Nothing
    /\ Idle.got = <<>> /\ Idle.total = 0
    /\ Failed.task \in {"idle", "closed"} /\ Failed.slot = Nothing /\ Failed.record = Nothing
    /\ Failed.got = <<>> /\ Failed.total = 0
BY DEF Idle, Failed

LEMMA IdleIsAJob == Idle \in Jobs /\ Failed \in Jobs
<1>1. <<>> \in Seq(Chunks)
  OBVIOUS
<1> QED
  BY <1>1 DEF Idle, Failed, Jobs

\* No job is left, and nothing is sent.
LEMMA EndKeeps ==
    ASSUME TransferInv, NEW j \in {Idle, Failed}, EndAs(j),
           UNCHANGED <<flash, dev, partial, tx, open, local>>,
           down' \in Seq(Replies), known' \in [Slots -> Stored \union {Unknown}],
           up = <<>> \/ (known' = known /\ down' = down), KnownIsStored'
    PROVE  TransferInv'
<1>1. /\ job' = j /\ pending' = Nothing /\ timer' = 0 /\ UNCHANGED <<up, seq>>
  BY DEF EndAs
<1>2. /\ job'.task \in {"idle", "closed"} /\ job'.got = <<>> /\ job' \in Jobs
      /\ ~Waiting' /\ ~Begun'
  BY <1>1, IdleIs, IdleIsAJob DEF Waiting, Begun
<1>3. /\ DeviceTypes /\ LineTypes /\ LibrarianTypes /\ Lines /\ Heads
  BY DEF TransferInv, TransferTypes
<1>4. DeviceTypes' /\ LineTypes'
  BY <1>1, <1>3 DEF DeviceTypes, LineTypes
<1>5. LibrarianTypes'
  <2>1. job'.task \notin Reads \union Writes
    BY <1>2 DEF Reads, Writes
  <2>2. timer' \in 0..HostTimeout
    BY <1>1, TransferAssumption
  <2> QED
    BY <1>1, <1>2, <1>3, <2>1, <2>2 DEF LibrarianTypes, Jobs, Writes
<1>6. Asked' /\ Unambiguous' /\ Answered'
  BY <1>1, <1>2 DEF Asked, Unambiguous, Answered
<1>7. Lines'
  BY <1>1, <1>2, <1>3 DEF Lines
<1>8. Heads'
  BY <1>1, <1>2, <1>3 DEF Heads, Collected
<1>9. Opened'
  BY <1>2 DEF Opened
<1>10. ReadSoFar'
  BY <1>2, NothingRead
<1> QED
  BY <1>4, <1>5, <1>6, <1>7, <1>8, <1>9, <1>10 DEF TransferInv, TransferTypes

LEMMA TimeOutKeeps ==
    ASSUME TransferInv, TimeOut
    PROVE  TransferInv'
<1>1. /\ EndAs(Failed) /\ UNCHANGED <<flash, dev, partial, tx, down, known, open, local>>
  BY DEF TimeOut, device, history
<1>2. /\ down' \in Seq(Replies) /\ known' \in [Slots -> Stored \union {Unknown}] /\ KnownIsStored'
  BY <1>1 DEF TransferInv, TransferTypes, LineTypes, LibrarianTypes, KnownIsStored
<1> QED
  BY <1>1, <1>2, EndKeeps

\* A request f is sent that nothing on the lines looks like, by a job that has just started.
LEMMA StartKeeps ==
    ASSUME TransferInv, FreshNumbers,
           job' \in Jobs, job'.got = <<>>, job'.total = 0,
           job'.task \in {"hello", "begin", "read"},
           job'.task # "hello" => job'.slot \in Slots,
           job'.task = "begin" => job'.record \in Records,
           pending' \in Requests, Opens(pending'), pending'.op = job'.task,
           pending'.at = 0, job'.task # "hello" => pending'.slot = job'.slot,
           job'.task = "begin" => pending'.total = Size[job'.record],
           up' = Append(up, pending'), seq' \in Numbers, timer' = HostTimeout,
           UNCHANGED <<flash, dev, partial, tx, down>>,
           job'.task # "begin" => UNCHANGED <<known, open>>,
           job'.task = "begin" =>
              /\ known' = [known EXCEPT ![job'.slot] = Unknown]
              /\ open' = Append(open, [slot |-> job'.slot, record |-> job'.record])
    PROVE  TransferInv'
<1>1. /\ DeviceTypes /\ LineTypes /\ LibrarianTypes /\ Lines /\ Heads /\ KnownIsStored
  BY DEF TransferInv, TransferTypes
<1>2. /\ up' \in Seq(Requests) /\ up' # <<>> /\ Len(up) \in Nat /\ Len(up') = Len(up) + 1
      /\ \A i \in 1..Len(up) : up'[i] = up[i]
      /\ up'[Len(up')] = pending'
      /\ up = <<>> <=> Len(up) = 0
  <2>1. up \in Seq(Requests)
    BY <1>1 DEF LineTypes
  <2>2. /\ up' \in Seq(Requests) /\ up' # <<>> /\ Len(up) \in Nat /\ Len(up') = Len(up) + 1
        /\ \A i \in 1..Len(up) : up'[i] = up[i]
        /\ up'[Len(up) + 1] = pending'
        /\ up = <<>> <=> Len(up) = 0
    BY <2>1, Appends
  <2> QED
    BY <2>2
<1>3. \A i \in 1..Len(up') : i \in 1..Len(up) \/ i = Len(up')
  BY <1>2
<1>4. ~Begun'
  BY DEF Begun
<1>5. /\ known' \in [Slots -> Stored \union {Unknown}] /\ open' \in Seq(OpenWrites)
      /\ \A s \in Slots : known'[s] \in {known[s], Unknown}
      /\ \A s \in Slots : known[s] = Unknown => known'[s] = Unknown
  <2>1. CASE job'.task # "begin"
    BY <1>1, <2>1 DEF LibrarianTypes
  <2>2. CASE job'.task = "begin"
    <3>1. [slot |-> job'.slot, record |-> job'.record] \in OpenWrites
      BY <2>2 DEF OpenWrites
    <3>2. open' \in Seq(OpenWrites)
      <4>1. open \in Seq(OpenWrites)
        BY <1>1 DEF LibrarianTypes
      <4> QED
        BY <2>2, <3>1, <4>1, Appends
    <3> QED
      BY <1>1, <2>2, <3>2 DEF LibrarianTypes
  <2> QED
    BY <2>1, <2>2
<1>6. DeviceTypes'
  BY <1>1 DEF DeviceTypes
<1>7. LineTypes'
  <2>1. pending'.op # "hello" => pending'.slot \in Slots
    OBVIOUS
  <2>2. \A i \in 1..Len(up') : up'[i].op # "hello" => up'[i].slot \in Slots
    BY <1>1, <1>2, <1>3, <2>1 DEF LineTypes
  <2> QED
    BY <1>1, <1>2, <2>2 DEF LineTypes
<1>8. LibrarianTypes'
  <2>1. timer' \in 0..HostTimeout
    BY TransferAssumption
  <2> QED
    BY <1>5, <2>1 DEF LibrarianTypes, Jobs, Reads, Writes
<1>9. Asked'
  <2>1. Len(job'.got) = 0
    OBVIOUS
  <2> QED
    BY <2>1 DEF Asked, Waiting, Reads
<1>10. Lines'
  <2>1. \A i \in 2..Len(up') : Opens(up'[i])
    BY <1>1, <1>2, <1>3 DEF Lines
  <2>2. ASSUME ~Opens(up'[1])
        PROVE  tx = Nothing /\ down = <<>>
    <3>1. up # <<>>
      BY <1>2, <2>2
    <3>2. up'[1] = up[1]
      BY <1>2, <3>1
    <3> QED
      BY <1>1, <2>2, <3>1, <3>2 DEF Lines
  <2> QED
    BY <1>4, <2>1, <2>2 DEF Lines
<1>11. /\ \A i \in 1..Len(up) : ~Same(up[i], pending')
       /\ tx # Nothing => ~Same(tx, pending')
       /\ \A i \in 1..Len(down) : ~Same(down[i], pending')
  BY DEF FreshNumbers
<1>12. Unambiguous'
  <2>1. \A i \in 1..Len(up') : Same(up'[i], pending') => i = Len(up') /\ up'[i] = pending'
    BY <1>2, <1>3, <1>11
  <2> QED
    BY <1>11, <2>1 DEF Unambiguous
<1>13. Answered'
  BY <1>11 DEF Answered
<1>14. Heads'
  <2>1. CASE up = <<>>
    <3>1. Opens(up'[1])
      BY <1>2, <2>1
    <3> QED
      BY <3>1 DEF Heads, Opens
  <2>2. CASE up # <<>>
    <3>1. up'[1] = up[1] /\ (up[1].op # "hello" => up[1].slot \in Slots)
      BY <1>1, <1>2, <2>2 DEF LineTypes
    <3>2. /\ Len(open) \in Nat
          /\ \A i \in 1..Len(open) : i \in 1..Len(open') /\ open'[i] = open[i]
          /\ job'.task = "begin" => \A i \in 1..Len(open) : i < Len(open')
      <4>1. CASE job'.task # "begin"
        BY <1>1, <4>1 DEF LibrarianTypes
      <4>2. CASE job'.task = "begin"
        <5>1. [slot |-> job'.slot, record |-> job'.record] \in OpenWrites /\ open \in Seq(OpenWrites)
          BY <1>1, <4>2 DEF OpenWrites, LibrarianTypes
        <5>2. Len(open) \in Nat /\ Len(open') = Len(open) + 1
              /\ \A i \in 1..Len(open) : open'[i] = open[i]
          BY <4>2, <5>1, Appends
        <5> QED
          BY <5>2
      <4> QED
        BY <4>1, <4>2
    <3> QED
      BY <1>1, <1>5, <2>2, <3>1, <3>2 DEF Heads, Collected
  <2> QED
    BY <2>1, <2>2
<1>15. Opened'
  <2> SUFFICES ASSUME job'.task = "begin"
               PROVE  /\ known'[job'.slot] = Unknown
                      /\ open' # <<>>
                      /\ open'[Len(open')] = [slot |-> job'.slot, record |-> job'.record]
    BY DEF Opened
  <2>1. [slot |-> job'.slot, record |-> job'.record] \in OpenWrites /\ open \in Seq(OpenWrites)
    BY <1>1 DEF OpenWrites, LibrarianTypes
  <2>2. /\ Len(open') = Len(open) + 1 /\ open' # <<>>
        /\ open'[Len(open) + 1] = [slot |-> job'.slot, record |-> job'.record]
    BY <2>1, Appends
  <2>3. known'[job'.slot] = Unknown
    BY <1>1 DEF LibrarianTypes
  <2> QED
    BY <2>2, <2>3
<1>16. ReadSoFar'
  BY NothingRead
<1>17. KnownIsStored'
  BY <1>1, <1>5 DEF KnownIsStored
<1> QED
  BY <1>6, <1>7, <1>8, <1>9, <1>10, <1>12, <1>13, <1>14, <1>15, <1>16, <1>17
     DEF TransferInv, TransferTypes

LEMMA NumbersWrap ==
    ASSUME seq \in Numbers
    PROVE  NextSeq \in Numbers
BY TransferAssumption DEF NextSeq, Numbers

LEMMA StartReadKeeps ==
    ASSUME TransferInv, FreshNumbers, NEW s \in Slots, StartRead(s)
    PROVE  TransferInv'
<1> DEFINE j == [Idle EXCEPT !.task = "read", !.slot = s]
<1>1. /\ job' = j /\ pending' = Request(j) /\ up' = Append(up, Request(j))
      /\ seq' = NextSeq /\ timer' = HostTimeout
      /\ UNCHANGED <<flash, dev, partial, tx, down, known, open>>
  BY DEF StartRead, Start, Proceed, device
<1>2. /\ j \in Jobs /\ j.task = "read" /\ j.slot = s /\ j.got = <<>> /\ j.total = 0
  BY IdleIs, IdleIsAJob DEF Jobs, Reads, Idle
<1> HIDE DEF j
<1>3. NextSeq \in Numbers
  BY NumbersWrap DEF TransferInv, TransferTypes, LibrarianTypes
<1>4. Request(j) = Frame("read", s, 0, Nothing, 0)
  BY <1>2 DEF Request
<1>5. /\ Request(j) \in Requests /\ Opens(Request(j)) /\ Request(j).op = "read"
      /\ Request(j).at = 0 /\ Request(j).slot = s
  BY <1>3, <1>4 DEF Frame, Requests, Opens, Ops
<1> QED
  BY <1>1, <1>2, <1>3, <1>5, StartKeeps

LEMMA StartWriteKeeps ==
    ASSUME TransferInv, FreshNumbers, NEW s \in Slots, NEW r \in Records, StartWrite(s, r)
    PROVE  TransferInv'
<1> DEFINE j == [Idle EXCEPT !.task = "begin", !.slot = s, !.record = r]
<1>1. /\ job' = j /\ pending' = Request(j) /\ up' = Append(up, Request(j))
      /\ seq' = NextSeq /\ timer' = HostTimeout
      /\ UNCHANGED <<flash, dev, partial, tx, down>>
      /\ known' = [known EXCEPT ![s] = Unknown]
      /\ open' = Append(open, [slot |-> s, record |-> r])
  BY DEF StartWrite, Start, Proceed, device
<1>2. /\ j \in Jobs /\ j.task = "begin" /\ j.slot = s /\ j.record = r
      /\ j.got = <<>> /\ j.total = 0
  BY IdleIs, IdleIsAJob DEF Jobs, Writes, Idle
<1> HIDE DEF j
<1>3. NextSeq \in Numbers /\ Size[r] \in Nat
  BY NumbersWrap, TransferAssumption DEF TransferInv, TransferTypes, LibrarianTypes
<1>4. Request(j) = Frame("begin", s, 0, Nothing, Size[r])
  BY <1>2 DEF Request
<1>5. /\ Request(j) \in Requests /\ Opens(Request(j)) /\ Request(j).op = "begin"
      /\ Request(j).at = 0 /\ Request(j).slot = s /\ Request(j).total = Size[r]
  BY <1>3, <1>4 DEF Frame, Requests, Opens, Ops
<1> QED
  BY <1>1, <1>2, <1>3, <1>5, StartKeeps

LEMMA ReconnectKeeps ==
    ASSUME TransferInv, FreshNumbers, Reconnect
    PROVE  TransferInv'
<1> DEFINE j == [Idle EXCEPT !.task = "hello"]
<1>1. PICK n \in 0..(Modulus - 1) :
          LET f == [Frame("hello", Nothing, 0, Nothing, 0) EXCEPT !.seq = n]
          IN  /\ job' = j
              /\ pending' = f /\ up' = Append(up, f)
              /\ seq' = n /\ timer' = HostTimeout
  BY DEF Reconnect
<1> DEFINE f == [Frame("hello", Nothing, 0, Nothing, 0) EXCEPT !.seq = n]
<1>2. /\ job' = j /\ pending' = f /\ up' = Append(up, f) /\ seq' = n /\ timer' = HostTimeout
      /\ UNCHANGED <<flash, dev, partial, tx, down, known, open>>
  BY <1>1 DEF Reconnect, device
<1>3. j \in Jobs /\ j.task = "hello" /\ j.got = <<>> /\ j.total = 0
  BY IdleIs, IdleIsAJob DEF Jobs, Idle
<1>4. f \in Requests /\ f.op = "hello" /\ f.at = 0 /\ Opens(f) /\ n \in Numbers
  BY DEF Frame, Requests, Opens, Ops, Numbers
<1> HIDE DEF j, f
<1> QED
  BY <1>2, <1>3, <1>4, StartKeeps

\* An answer to the request of the job is the last frame on the lines.
LEMMA AnswerIsLast ==
    ASSUME TransferInv, Receive
    PROVE  /\ Waiting /\ up = <<>> /\ tx = Nothing
           /\ down' = <<>> /\ Head(down) = down[1] /\ down[1] \in Replies
           /\ Told(down[1])
<1>1. /\ LineTypes /\ Asked /\ Unambiguous /\ Answered
  BY DEF TransferInv, TransferTypes
<1>2. down # <<>> /\ Matches(Head(down)) /\ down' = Tail(down)
  BY DEF Receive
<1>3. /\ Head(down) = down[1] /\ down[1] \in Replies /\ Len(down) \in Nat \ {0}
      /\ Len(down) = 1 => Tail(down) = <<>>
  <2>1. down \in Seq(Replies)
    BY <1>1 DEF LineTypes
  <2> QED
    BY <1>2, <2>1, Tails
<1>4. pending # Nothing /\ Same(down[1], pending)
  BY <1>2, <1>3 DEF Matches, Same
<1>5. Waiting /\ 1 \in 1..Len(down)
  BY <1>1, <1>3, <1>4 DEF Asked
<1>6. 1 = Len(down) /\ up = <<>> /\ tx = Nothing
  BY <1>1, <1>4, <1>5 DEF Unambiguous
<1>7. Told(down[1])
  BY <1>1, <1>4, <1>5 DEF Answered
<1> QED
  BY <1>2, <1>3, <1>5, <1>6, <1>7

\* The next request of a job goes out on empty lines.
LEMMA ProceedKeeps ==
    ASSUME TransferInv, up = <<>>, tx = Nothing, down' = <<>>,
           up' = Append(up, pending'), pending' \in Requests, pending'.slot \in Slots,
           UNCHANGED <<flash, dev, partial, tx, known, open, local>>,
           LibrarianTypes', Asked', Opened', ReadSoFar',
           pending'.op = "write" /\ dev.mode = "writing" =>
              \E r \in Records :
                  /\ pending'.at < Size[r] /\ pending'.body = <<r, pending'.at + 1>>
                  /\ Collected(pending'.slot, r, pending'.at),
           pending'.op = "commit" =>
              /\ known[pending'.slot] = Unknown /\ job'.task # "begin"
              /\ dev.mode = "writing" =>
                    \E i \in 1..Len(open) :
                        open[i].slot = pending'.slot /\ dev.bytes = Whole(open[i].record)
    PROVE  TransferInv'
<1>1. up' \in Seq(Requests) /\ up' # <<>> /\ Len(up') = 1 /\ up'[1] = pending'
  <2>1. up \in Seq(Requests) /\ Len(up) = 0
    BY DEF TransferInv, TransferTypes, LineTypes
  <2> QED
    BY <2>1, Appends
<1>2. DeviceTypes'
  BY DEF TransferInv, TransferTypes, DeviceTypes
<1>3. <<>> \in Seq(Replies) /\ Len(<<>>) = 0
  OBVIOUS
<1>4. LineTypes'
  BY <1>1, <1>3 DEF LineTypes
<1>5. Lines'
  <2>1. 2..Len(up') = {}
    BY <1>1
  <2> QED
    BY <1>1, <2>1 DEF Lines
<1>6. Unambiguous' /\ Answered'
  <2>1. \A i \in 1..Len(up') : i = Len(up') /\ up'[i] = pending'
    BY <1>1
  <2>2. 1..Len(down') = {}
    BY <1>3
  <2> QED
    BY <2>1, <2>2 DEF Unambiguous, Answered
<1>7. Heads'
  BY <1>1 DEF Heads, Collected
<1>8. KnownIsStored'
  BY DEF TransferInv, KnownIsStored
<1> QED
  BY <1>2, <1>4, <1>5, <1>6, <1>7, <1>8 DEF TransferInv, TransferTypes

\* The request is that of the job, whichever it is.
LEMMA RequestIs ==
    ASSUME NEW j \in Jobs, seq \in Numbers, j.slot \in Slots,
           j.task \in {"send", "commit", "check", "read"},
           j.task \in Writes => j.record \in Records
    PROVE  /\ Request(j) \in Requests /\ Request(j).slot = j.slot
           /\ j.task = "send" => /\ Request(j).op = "write" /\ Request(j).at = j.total
                                 /\ Request(j).body = <<j.record, j.total + 1>>
           /\ j.task = "commit" => Request(j).op = "commit"
           /\ j.task \in Reads => Request(j).op = "read" /\ Request(j).at = Len(j.got)
<1>1. NextSeq \in Numbers
  BY NumbersWrap
<1>2. CASE j.task = "send"
  <2>1. Request(j) = Frame("write", j.slot, j.total, <<j.record, j.total + 1>>, 0)
    BY <1>2 DEF Request
  <2>2. j.total \in Nat /\ <<j.record, j.total + 1>> \in Chunks
    BY <1>2 DEF Jobs, Chunks, Writes
  <2> QED
    BY <1>1, <1>2, <2>1, <2>2 DEF Frame, Requests, Ops, Reads
<1>3. CASE j.task = "commit"
  <2>1. Request(j) = Frame("commit", j.slot, 0, Nothing, 0)
    BY <1>3 DEF Request
  <2> QED
    BY <1>1, <1>3, <2>1 DEF Frame, Requests, Ops, Reads
<1>4. CASE j.task \in Reads
  <2>1. Request(j) = Frame("read", j.slot, Len(j.got), Nothing, 0)
    BY <1>4 DEF Request, Reads
  <2>2. Len(j.got) \in Nat
    BY DEF Jobs
  <2> QED
    BY <1>1, <1>4, <2>1, <2>2 DEF Frame, Requests, Ops, Reads
<1> QED
  BY <1>2, <1>3, <1>4 DEF Reads

\* The job goes on as j.
LEMMA JobGoesOn ==
    ASSUME TransferInv, Receive, NEW j \in Jobs, Proceed(j), UNCHANGED known,
           j.slot \in Slots, j.task \in {"send", "commit", "check", "read"},
           j.task \in Writes => j.record \in Records,
           j.task \notin Reads => j.got = <<>>,
           ReadSoFar',
           j.task = "send" =>
              /\ j.total < Size[j.record] /\ known[j.slot] = Unknown
              /\ open # <<>> /\ open[Len(open)] = [slot |-> j.slot, record |-> j.record]
              /\ Collected(j.slot, j.record, j.total),
           j.task = "commit" =>
              /\ known[j.slot] = Unknown
              /\ dev.mode = "writing" =>
                    \E i \in 1..Len(open) :
                        open[i].slot = j.slot /\ dev.bytes = Whole(open[i].record)
    PROVE  TransferInv'
<1>1. /\ job' = j /\ pending' = Request(j) /\ up' = Append(up, Request(j))
      /\ seq' = NextSeq /\ timer' = HostTimeout
      /\ UNCHANGED <<flash, dev, partial, tx, known, open, local>>
  BY DEF Proceed, Receive, device
<1>2. up = <<>> /\ tx = Nothing /\ down' = <<>>
  BY AnswerIsLast
<1>3. LibrarianTypes
  BY DEF TransferInv, TransferTypes
<1>4. seq' \in Numbers
  BY <1>1, <1>3, NumbersWrap DEF LibrarianTypes
<1>5. /\ Request(j) \in Requests /\ Request(j).slot = j.slot
      /\ j.task = "send" => /\ Request(j).op = "write" /\ Request(j).at = j.total
                            /\ Request(j).body = <<j.record, j.total + 1>>
      /\ j.task = "commit" => Request(j).op = "commit"
      /\ j.task \in Reads => Request(j).op = "read" /\ Request(j).at = Len(j.got)
  BY <1>3, RequestIs DEF LibrarianTypes
<1>6. LibrarianTypes'
  <2>1. timer' \in 0..HostTimeout
    BY <1>1, TransferAssumption
  <2> QED
    BY <1>1, <1>3, <1>4, <2>1 DEF LibrarianTypes
<1>7. Asked'
  BY <1>1, <1>5 DEF Asked, Waiting
<1>8. Opened'
  BY <1>1 DEF Opened
<1>9. Request(j).op = "write" => j.task = "send"
  BY <1>5 DEF Reads
<1>10. Request(j).op = "commit" => j.task = "commit"
  BY <1>5 DEF Reads
<1>11. Request(j).op = "write" /\ dev.mode = "writing" =>
              \E r \in Records :
                  /\ Request(j).at < Size[r] /\ Request(j).body = <<r, Request(j).at + 1>>
                  /\ Collected(Request(j).slot, r, Request(j).at)
  <2>1. j.task = "send" => j.record \in Records
    BY DEF Writes
  <2> QED
    BY <1>5, <1>9, <2>1
<1>12. Request(j).op = "commit" =>
              /\ known[Request(j).slot] = Unknown /\ j.task # "begin"
              /\ dev.mode = "writing" =>
                    \E i \in 1..Len(open) :
                        open[i].slot = Request(j).slot /\ dev.bytes = Whole(open[i].record)
  BY <1>5, <1>10
<1> QED
  BY <1>1, <1>2, <1>5, <1>6, <1>7, <1>8, <1>11, <1>12, ProceedKeeps

\* The job is over, and nothing is learned.
LEMMA JobEnds ==
    ASSUME TransferInv, Receive, NEW j \in {Idle, Failed}, EndAs(j), UNCHANGED known
    PROVE  TransferInv'
<1>1. up = <<>> /\ down' = <<>> /\ UNCHANGED <<flash, dev, partial, tx, open, local>>
  BY AnswerIsLast DEF Receive, device
<1>2. known' \in [Slots -> Stored \union {Unknown}] /\ KnownIsStored'
  BY <1>1 DEF TransferInv, TransferTypes, LibrarianTypes, KnownIsStored
<1>3. down' \in Seq(Replies)
  BY <1>1
<1> QED
  BY <1>1, <1>2, <1>3, EndKeeps

\* The job is over, and the slot holds what was read.
LEMMA JobLearns ==
    ASSUME TransferInv, Receive, NEW j \in {Idle, Failed}, EndAs(j),
           NEW bytes \in Stored, Learned(bytes), job.slot \in Slots,
           job.slot \notin local => flash[job.slot] = bytes
    PROVE  TransferInv'
<1>1. up = <<>> /\ down' = <<>> /\ UNCHANGED <<flash, dev, partial, tx, open, local>>
  BY AnswerIsLast DEF Receive, device
<1>2. known \in [Slots -> Stored \union {Unknown}] /\ KnownIsStored
  BY DEF TransferInv, TransferTypes, LibrarianTypes
<1>3. known' = IF job.slot \in local THEN known ELSE [known EXCEPT ![job.slot] = bytes]
  BY DEF Learned
<1>4. known' \in [Slots -> Stored \union {Unknown}]
  BY <1>2, <1>3
<1>5. KnownIsStored'
  BY <1>1, <1>2, <1>3 DEF KnownIsStored
<1>6. down' \in Seq(Replies)
  BY <1>1
<1> QED
  BY <1>1, <1>4, <1>5, <1>6, EndKeeps

\* A chunk of the record that is read arrives: the one that follows in the record.
LEMMA ChunkArrives ==
    ASSUME TransferInv, Receive, NEW p, p = down[1], p.status = "ok", job.task \in Reads,
           NEW j, j = Received(p)
    PROVE  /\ j \in Jobs /\ j.task = job.task /\ j.slot = job.slot /\ j.record = job.record
           /\ \E b \in Stored : \E n \in 1..Len(b) :
                 /\ j.got = SubSeq(b, 1, n) /\ j.total = Len(b) /\ Backed(b)
                 /\ Len(j.got) < j.total \/ j.got = b
<1>1. LibrarianTypes /\ Told(p)
  BY AnswerIsLast DEF TransferInv, TransferTypes
<1>2. PICK b \in Stored : \E n \in 0..(Len(b) - 1) :
                  /\ job.got = SubSeq(b, 1, n)
                  /\ p.body = b[n + 1] /\ p.total = Len(b)
                  /\ Backed(b)
  BY <1>1 DEF Told
<1>3. PICK n \in 0..(Len(b) - 1) :
                  /\ job.got = SubSeq(b, 1, n)
                  /\ p.body = b[n + 1] /\ p.total = Len(b)
                  /\ Backed(b)
  BY <1>2
<1>4. b \in Seq(Chunks) /\ Len(b) \in Nat
  BY StoredIsSeq
<1>5. n \in 0..Len(b) /\ n < Len(b) /\ n + 1 \in 0..Len(b) /\ n + 1 \in 1..Len(b)
  BY <1>4
<1>6. Append(job.got, p.body) = SubSeq(b, 1, n + 1)
  BY <1>3, <1>4, <1>5, Prefix
<1>7. /\ SubSeq(b, 1, n + 1) \in Seq(Chunks) /\ Len(SubSeq(b, 1, n + 1)) = n + 1
      /\ n + 1 = Len(b) => SubSeq(b, 1, n + 1) = b
  BY <1>4, <1>5, Prefix
<1>8. /\ j \in Jobs /\ j.got = SubSeq(b, 1, n + 1) /\ j.total = Len(b)
      /\ j.task = job.task /\ j.slot = job.slot /\ j.record = job.record
  BY <1>1, <1>3, <1>4, <1>6, <1>7 DEF Received, LibrarianTypes, Jobs
<1>9. Len(j.got) < j.total \/ j.got = b
  BY <1>4, <1>5, <1>7, <1>8
<1> QED
  BY <1>3, <1>5, <1>8, <1>9

LEMMA CollectKeeps ==
    ASSUME TransferInv, Receive, NEW p, p = down[1], p.status = "ok", job.task \in Reads,
           Collect(p)
    PROVE  TransferInv'
<1> DEFINE j == Received(p)
<1>1. LibrarianTypes
  BY DEF TransferInv, TransferTypes
<1>2. /\ j \in Jobs /\ j.task = job.task /\ j.slot = job.slot /\ j.record = job.record
      /\ \E b \in Stored : \E n \in 1..Len(b) :
            /\ j.got = SubSeq(b, 1, n) /\ j.total = Len(b) /\ Backed(b)
            /\ Len(j.got) < j.total \/ j.got = b
  <2> HIDE DEF j
  <2>1. j = Received(p)
    BY DEF j
  <2> QED
    BY <2>1, ChunkArrives
<1>3. PICK b \in Stored : \E n \in 1..Len(b) :
            /\ j.got = SubSeq(b, 1, n) /\ j.total = Len(b) /\ Backed(b)
            /\ Len(j.got) < j.total \/ j.got = b
  BY <1>2
<1>4. /\ job.slot \in Slots /\ (job.task \in Writes => job.record \in Records)
      /\ job.task \in {"check", "read"}
  BY <1>1 DEF LibrarianTypes, Reads
<1> HIDE DEF j
<1>5. CASE Len(j.got) < j.total
  <2>1. Proceed(j) /\ UNCHANGED known
    BY <1>5 DEF Collect, j
  <2>2. job' = j /\ UNCHANGED <<flash, dev, local>>
    BY <2>1 DEF Proceed, Receive, device
  <2>3. Backed(b)'
    BY <1>2, <1>3, <2>2 DEF Backed
  <2>4. ReadSoFar'
    <3>1. PICK n \in 1..Len(b) : j.got = SubSeq(b, 1, n) /\ j.total = Len(b)
      BY <1>3
    <3>2. n \in 0..Len(b)
      OBVIOUS
    <3> QED
      BY <2>2, <2>3, <3>1, <3>2 DEF ReadSoFar
  <2> QED
    BY <1>2, <1>4, <2>1, <2>4, JobGoesOn
<1>6. CASE ~(Len(j.got) < j.total)
  <2>1. EndAs(Idle) /\ (Learned(j.got) \/ UNCHANGED known)
    BY <1>6 DEF Collect, j, End
  <2>2. j.got = b
    BY <1>3, <1>6
  <2>3. job.slot \notin local => flash[job.slot] = b
    BY <1>3 DEF Backed
  <2> QED
    BY <1>4, <2>1, <2>2, <2>3, JobEnds, JobLearns
<1> QED
  BY <1>5, <1>6

\* A chunk of the record that is written has arrived.
LEMMA SentKeeps ==
    ASSUME TransferInv, Receive, NEW p, p = down[1], p.status = "ok", job.task = "send",
           Proceed([job EXCEPT !.total = @ + 1,
                               !.task = IF job.total + 1 < Size[job.record] THEN "send" ELSE "commit"]),
           UNCHANGED known
    PROVE  TransferInv'
<1> DEFINE j == [job EXCEPT !.total = @ + 1,
                            !.task = IF job.total + 1 < Size[job.record] THEN "send" ELSE "commit"]
<1>1. LibrarianTypes /\ Opened /\ Told(p)
  BY AnswerIsLast DEF TransferInv, TransferTypes
<1>2. /\ job \in Jobs /\ job.total \in Nat /\ job.record \in Records /\ job.slot \in Slots
      /\ job.total < Size[job.record] /\ job.got = <<>> /\ Size[job.record] \in Nat
  BY <1>1, TransferAssumption DEF LibrarianTypes, Jobs, Reads, Writes
<1>3. /\ known[job.slot] = Unknown
      /\ open # <<>> /\ open[Len(open)] = [slot |-> job.slot, record |-> job.record]
      /\ open \in Seq(OpenWrites)
  BY <1>1 DEF Opened, LibrarianTypes
<1>4. Collected(job.slot, job.record, job.total + 1)
  BY <1>1 DEF Told
<1>5. /\ j \in Jobs /\ j.slot = job.slot /\ j.record = job.record /\ j.got = <<>>
      /\ j.total = job.total + 1
      /\ j.task = IF job.total + 1 < Size[job.record] THEN "send" ELSE "commit"
  <2> DEFINE t == IF job.total + 1 < Size[job.record] THEN "send" ELSE "commit"
  <2>1. t \in Writes /\ job.total + 1 \in Nat
    BY <1>2 DEF Writes
  <2> HIDE DEF t
  <2>2. [job EXCEPT !.total = @ + 1, !.task = t] \in Jobs
    <3>1. \A n \in Nat : [job EXCEPT !.total = n, !.task = t] \in Jobs
      BY <1>2, <2>1 DEF Jobs
    <3> QED
      BY <2>1, <3>1
  <2>3. j = [job EXCEPT !.total = @ + 1, !.task = t]
    BY DEF t
  <2>4. j.task = t
    BY <1>2, <2>3 DEF Jobs
  <2> QED
    BY <1>2, <2>2, <2>3, <2>4 DEF Jobs, t
<1> HIDE DEF j
<1>6. Proceed(j)
  BY DEF j
<1>7. job' = j
  BY <1>6 DEF Proceed
<1>8. j.task \in {"send", "commit"} /\ j.task \notin Reads
  BY <1>5 DEF Reads
<1>9. ReadSoFar'
  BY <1>7, <1>8, NothingRead
<1>10. CASE job.total + 1 < Size[job.record]
  <2>1. j.task = "send"
    BY <1>5, <1>10
  <2> QED
    BY <1>2, <1>3, <1>4, <1>5, <1>6, <1>8, <1>9, <1>10, <2>1, JobGoesOn
<1>11. CASE ~(job.total + 1 < Size[job.record])
  <2>1. j.task = "commit" /\ job.total + 1 = Size[job.record]
    BY <1>2, <1>5, <1>11
  <2>2. SubSeq(Whole(job.record), 1, Size[job.record]) = Whole(job.record)
    BY <1>2, WholeIsStored, SubSeqFull
  <2>3. dev.mode = "writing" => dev.bytes = Whole(job.record)
    BY <1>4, <2>1, <2>2 DEF Collected
  <2>4. Len(open) \in 1..Len(open)
    BY <1>3, EmptySeq
  <2>5. dev.mode = "writing" =>
           \E i \in 1..Len(open) : open[i].slot = j.slot /\ dev.bytes = Whole(open[i].record)
    BY <1>3, <1>5, <2>3, <2>4
  <2> QED
    BY <1>2, <1>3, <1>5, <1>6, <1>8, <1>9, <2>1, <2>5, JobGoesOn
<1> QED
  BY <1>10, <1>11

\* The instrument is ready for a record.
LEMMA BegunKeeps ==
    ASSUME TransferInv, Receive, NEW p, p = down[1], p.status = "ok", job.task = "begin",
           Proceed([job EXCEPT !.task = "send"]), UNCHANGED known
    PROVE  TransferInv'
<1> DEFINE j == [job EXCEPT !.task = "send"]
<1>1. LibrarianTypes /\ Opened /\ Told(p)
  BY AnswerIsLast DEF TransferInv, TransferTypes
<1>2. /\ job \in Jobs /\ job.total = 0 /\ job.record \in Records /\ job.slot \in Slots
      /\ job.got = <<>> /\ 0 < Size[job.record]
  BY <1>1, TransferAssumption DEF LibrarianTypes, Reads, Writes
<1>3. /\ known[job.slot] = Unknown
      /\ open # <<>> /\ open[Len(open)] = [slot |-> job.slot, record |-> job.record]
  BY <1>1 DEF Opened
<1>4. Collected(job.slot, job.record, 0)
  BY <1>1 DEF Told
<1>5. /\ j \in Jobs /\ j.slot = job.slot /\ j.record = job.record /\ j.got = <<>>
      /\ j.total = 0 /\ j.task = "send"
  BY <1>2 DEF Jobs, Writes
<1> HIDE DEF j
<1>6. Proceed(j)
  BY DEF j
<1>7. job' = j /\ j.task \notin Reads
  BY <1>5, <1>6 DEF Proceed, Reads
<1>8. ReadSoFar'
  BY <1>7, NothingRead
<1> QED
  BY <1>2, <1>3, <1>4, <1>5, <1>6, <1>7, <1>8, JobGoesOn

\* The record is committed, and read back.
LEMMA CommittedKeeps ==
    ASSUME TransferInv, Receive, job.task = "commit",
           Proceed([job EXCEPT !.task = "check", !.total = 0]), UNCHANGED known
    PROVE  TransferInv'
<1> DEFINE j == [job EXCEPT !.task = "check", !.total = 0]
<1>1. LibrarianTypes
  BY DEF TransferInv, TransferTypes
<1>2. /\ job \in Jobs /\ job.record \in Records /\ job.slot \in Slots /\ job.got = <<>>
  BY <1>1 DEF LibrarianTypes, Reads, Writes
<1>3. /\ j \in Jobs /\ j.slot = job.slot /\ j.record = job.record /\ j.got = <<>>
      /\ j.task = "check"
  BY <1>2 DEF Jobs, Writes
<1> HIDE DEF j
<1>4. Proceed(j)
  BY DEF j
<1>5. job' = j
  BY <1>4 DEF Proceed
<1>6. ReadSoFar'
  BY <1>3, <1>5, NothingRead
<1> QED
  BY <1>2, <1>3, <1>4, <1>6, JobGoesOn

LEMMA ReceiveKeeps ==
    ASSUME TransferInv, Receive
    PROVE  TransferInv'
<1> DEFINE p == down[1]
<1>1. /\ LibrarianTypes /\ Told(p) /\ Head(down) = p
  BY AnswerIsLast DEF TransferInv, TransferTypes
<1>2. Advance(p)
  BY <1>1 DEF Receive
<1>3. CASE p.status # "ok"
  <2>1. EndAs(Failed) /\
        (\/ UNCHANGED known
         \/ job.task = "read" /\ p.status = "empty" /\ Learned(<<>>))
    BY <1>2, <1>3 DEF Advance
  <2>2. CASE UNCHANGED known
    BY <2>1, <2>2, JobEnds
  <2>3. CASE job.task = "read" /\ p.status = "empty" /\ Learned(<<>>)
    <3>1. job.slot \in Slots /\ <<>> \in Stored
      BY <1>1, <2>3 DEF LibrarianTypes, Reads, Stored
    <3>2. job.slot \notin local => flash[job.slot] = <<>>
      BY <1>1, <2>3 DEF Told
    <3> QED
      BY <2>1, <2>3, <3>1, <3>2, JobLearns
  <2> QED
    BY <2>1, <2>2, <2>3
<1>4. CASE p.status = "ok" /\ job.task = "hello" /\ End /\ UNCHANGED known
  BY <1>4, JobEnds DEF End
<1>5. CASE /\ p.status = "ok" /\ job.task = "begin"
           /\ Proceed([job EXCEPT !.task = "send"]) /\ UNCHANGED known
  BY <1>5, BegunKeeps
<1>6. CASE /\ p.status = "ok" /\ job.task = "send"
           /\ Proceed([job EXCEPT !.total = @ + 1,
                      !.task = IF job.total + 1 < Size[job.record] THEN "send" ELSE "commit"])
           /\ UNCHANGED known
  BY <1>6, SentKeeps
<1>7. CASE /\ p.status = "ok" /\ job.task = "commit"
           /\ Proceed([job EXCEPT !.task = "check", !.total = 0]) /\ UNCHANGED known
  BY <1>7, CommittedKeeps
<1>8. CASE /\ p.status = "ok" /\ job.task \in {"check", "read"}
           /\ IF Consistent(p) THEN Collect(p) ELSE End /\ UNCHANGED known
  <2>1. CASE Collect(p)
    BY <1>8, <2>1, CollectKeeps DEF Reads
  <2>2. CASE End /\ UNCHANGED known
    BY <2>2, JobEnds DEF End
  <2> QED
    BY <1>8, <2>1, <2>2
<1> HIDE DEF p
<1> QED
  BY <1>2, <1>3, <1>4, <1>5, <1>6, <1>7, <1>8 DEF Advance

-----------------------------------------------------------------------------
(* The invariant.                                                          *)

LEMMA TransferInit ==
    ASSUME Init
    PROVE  TransferInv
<1>1. <<>> \in Seq(Chunks) /\ 0 \in 0..SessionExpiry
  BY TransferAssumption
<1>2. DeviceTypes
  BY <1>1, PartialIsLegal DEF Init, DeviceTypes, Devices, Off
<1>3. LineTypes
  BY DEF Init, LineTypes
<1>4. LibrarianTypes
  <2>1. job \in Jobs /\ job.task = "idle" /\ job.got = <<>>
    BY IdleIs, IdleIsAJob DEF Init
  <2>2. timer \in 0..HostTimeout /\ seq \in Numbers
    BY TransferAssumption DEF Init, Numbers
  <2>3. known \in [Slots -> Stored \union {Unknown}] /\ open \in Seq(OpenWrites)
    BY DEF Init
  <2> QED
    BY <2>1, <2>2, <2>3 DEF LibrarianTypes, Reads, Writes
<1>5. job.task = "idle" /\ job.got = <<>> /\ pending = Nothing /\ ~Waiting /\ ~Begun
  BY IdleIs DEF Init, Waiting, Begun
<1>6. Asked /\ Unambiguous /\ Answered /\ Opened
  BY <1>5 DEF Asked, Unambiguous, Answered, Opened
<1>7. Lines /\ Heads
  <2>1. up = <<>> /\ 2..Len(up) = {}
    BY DEF Init
  <2> QED
    BY <1>5, <2>1 DEF Lines, Heads
<1>8. ReadSoFar /\ KnownIsStored
  BY <1>5 DEF ReadSoFar, Reads, Init, KnownIsStored
<1> QED
  BY <1>2, <1>3, <1>4, <1>6, <1>7, <1>8 DEF TransferInv, TransferTypes

LEMMA TransferStays ==
    ASSUME TransferInv, UNCHANGED vars
    PROVE  TransferInv'
<1>1. /\ UNCHANGED <<flash, dev, partial, tx, up, down, job, pending, timer, seq, known, open, local>>
  BY DEF vars, device, librarian, history
<1>2. /\ LineTypes /\ Lines /\ Unambiguous /\ Heads /\ Answered
      /\ dev \in Devices /\ timer \in 0..HostTimeout /\ partial \in 0..PartialExpiry
  BY DEF TransferInv, TransferTypes, DeviceTypes, LibrarianTypes
<1>3. Kept /\ SlotStays
  BY <1>1 DEF Kept, SlotStays
<1>4. LineTypes' /\ Lines' /\ Unambiguous' /\ Heads' /\ Answered'
  BY <1>1, <1>2, <1>3, LinesStay, HeadsStay, AnsweredStays
<1>5. /\ DeviceTypes' /\ LibrarianTypes' /\ Asked'
      /\ Opened' /\ ReadSoFar' /\ KnownIsStored'
  BY <1>1, <1>2, <1>3, QuietKeeps
<1> QED
  BY <1>4, <1>5 DEF TransferInv, TransferTypes

LEMMA TransferStep ==
    ASSUME TransferInv, [Next]_vars, [FreshNumbers]_vars
    PROVE  TransferInv'
<1>1. CASE UNCHANGED vars
  BY <1>1, TransferStays
<1>2. CASE Deliver
  BY <1>2, DeliverKeeps
<1>3. CASE Swallow \/ LoseRequest
  BY <1>3, LoseRequestKeeps
<1>4. CASE Transmit
  BY <1>4, TransmitKeeps
<1>5. CASE Receive
  BY <1>5, ReceiveKeeps
<1>6. CASE Discard \/ LoseReply
  BY <1>6, LoseReplyKeeps
<1>7. CASE TimeOut
  BY <1>7, TimeOutKeeps
<1>8. CASE FreshNumbers /\ \E s \in Slots : StartRead(s)
  BY <1>8, StartReadKeeps
<1>9. CASE FreshNumbers /\ \E s \in Slots, r \in Records : StartWrite(s, r)
  BY <1>9, StartWriteKeeps
<1>10. CASE \E s \in Slots, r \in Records : SaveLocally(s, r)
  BY <1>10, SaveLocallyKeeps
<1>11. CASE FreshNumbers /\ Reconnect
  BY <1>11, ReconnectKeeps
<1>12. CASE PowerLoss
  BY <1>12, PowerLossKeeps
<1>13. CASE Tick
  BY <1>13, TickKeeps
<1> QED
  BY <1>1, <1>2, <1>3, <1>4, <1>5, <1>6, <1>7, <1>8, <1>9, <1>10, <1>11, <1>12, <1>13
     DEF Next, Faults

\* Every reachable state satisfies the invariant, as long as numbers are fresh.
THEOREM TransferInvariant == Spec /\ [][FreshNumbers]_vars => []TransferInv
<1>1. Init => TransferInv
  BY TransferInit
<1>2. TransferInv /\ [Next]_vars /\ [FreshNumbers]_vars => TransferInv'
  BY TransferStep
<1> QED
  BY <1>1, <1>2, PTL DEF Spec

\* Every field keeps its type, and a slot holds one whole record: the only chunks that
\* are committed are those of one write.
THEOREM TransferTypeOK == Spec /\ [][FreshNumbers]_vars => []TypeOK
<1>1. TransferInv => TypeOK
  <2> SUFFICES ASSUME TransferInv
               PROVE  TypeOK
    OBVIOUS
  <2>1. DeviceTypes /\ LibrarianTypes
    BY DEF TransferInv, TransferTypes
  <2> QED
    BY <2>1 DEF DeviceTypes, Devices, LibrarianTypes, Numbers, TypeOK
<1> QED
  BY <1>1, TransferInvariant, PTL

\* What the librarian has read or verified is what the slot holds.
THEOREM KnownSlots == Spec /\ [][FreshNumbers]_vars => []KnownIsStored
<1>1. TransferInv => KnownIsStored
  BY DEF TransferInv
<1> QED
  BY <1>1, TransferInvariant, PTL

\* The chunks of a read are of one record, even if the slot is saved, power is lost or
\* an answer is late meanwhile.
THEOREM WholeReads == Spec /\ [][FreshNumbers]_vars => []ReadsAreWhole
<1>1. TransferInv => ReadsAreWhole
  <2> SUFFICES ASSUME TransferInv
               PROVE  ReadsAreWhole
    OBVIOUS
  <2>1. LibrarianTypes /\ ReadSoFar
    BY DEF TransferInv, TransferTypes
  <2>2. CASE job.task \in Reads
    <3>1. PICK b \in Stored : \E n \in 0..Len(b) : job.got = SubSeq(b, 1, n)
      BY <2>1, <2>2 DEF ReadSoFar
    <3>2. PICK n \in 0..Len(b) : job.got = SubSeq(b, 1, n)
      BY <3>1
    <3>3. b \in Seq(Chunks) /\ Len(b) \in Nat
      BY StoredIsSeq
    <3>4. Len(job.got) = n /\ n <= Len(b)
      BY <3>2, <3>3, Prefix
    <3> QED
      BY <3>2, <3>4 DEF ReadsAreWhole
  <2>3. CASE job.task \notin Reads
    <3>1. job.got = <<>>
      BY <2>1, <2>3 DEF LibrarianTypes
    <3>2. <<>> \in Stored /\ Len(<<>>) = 0 /\ SubSeq(<<>>, 1, 0) = <<>>
      BY SubSeqEmpty DEF Stored
    <3> QED
      BY <3>1, <3>2 DEF ReadsAreWhole
  <2> QED
    BY <2>2, <2>3
<1> QED
  BY <1>1, TransferInvariant, PTL

-----------------------------------------------------------------------------
(* The bank.                                                               *)

\* An open write as the bank has it.
Promised(w) == [slot |-> w.slot, record |-> Whole(w.record)]
Promises(q) == [i \in 1..Len(q) |-> Promised(q[i])]
PromisedWrites == [slot : Slots, record : Stored]

LEMMA PromisesAre ==
    ASSUME NEW q \in Seq(OpenWrites)
    PROVE  /\ Promises(q) \in Seq(PromisedWrites) /\ Len(Promises(q)) = Len(q)
           /\ Len(q) \in Nat
           /\ \A i \in 1..Len(q) : Promises(q)[i] = Promised(q[i])
<1>1. Len(q) \in Nat /\ \A i \in 1..Len(q) : q[i] \in OpenWrites
  OBVIOUS
<1>2. \A w \in OpenWrites : Promised(w) \in PromisedWrites
  BY WholeIsStored DEF Promised, PromisedWrites, OpenWrites
<1>3. \A i \in 1..Len(q) : Promised(q[i]) \in PromisedWrites
  BY <1>1, <1>2
<1> QED
  BY <1>1, <1>3 DEF Promises

LEMMA PromisesAppend ==
    ASSUME NEW q \in Seq(OpenWrites), NEW w \in OpenWrites
    PROVE  Promises(Append(q, w)) = Append(Promises(q), Promised(w))
<1>1. /\ Append(q, w) \in Seq(OpenWrites) /\ Len(Append(q, w)) = Len(q) + 1
      /\ \A i \in 1..Len(q) : Append(q, w)[i] = q[i]
      /\ Append(q, w)[Len(q) + 1] = w
  BY Appends
<1>2. /\ Promises(q) \in Seq(PromisedWrites) /\ Len(Promises(q)) = Len(q) /\ Len(q) \in Nat
      /\ \A i \in 1..Len(q) : Promises(q)[i] = Promised(q[i])
  BY PromisesAre
<1>3. /\ Promises(Append(q, w)) \in Seq(PromisedWrites)
      /\ Len(Promises(Append(q, w))) = Len(q) + 1
      /\ \A i \in 1..(Len(q) + 1) : Promises(Append(q, w))[i] = Promised(Append(q, w)[i])
  BY <1>1, PromisesAre
<1>4. Promised(w) \in PromisedWrites
  BY WholeIsStored DEF Promised, PromisedWrites, OpenWrites
<1>5. /\ Append(Promises(q), Promised(w)) \in Seq(PromisedWrites)
      /\ Len(Append(Promises(q), Promised(w))) = Len(q) + 1
      /\ \A i \in 1..Len(q) : Append(Promises(q), Promised(w))[i] = Promises(q)[i]
      /\ Append(Promises(q), Promised(w))[Len(q) + 1] = Promised(w)
  BY <1>2, <1>4, Appends
<1>6. \A i \in 1..(Len(q) + 1) : i \in 1..Len(q) \/ i = Len(q) + 1
  BY <1>2
<1>7. \A i \in 1..(Len(q) + 1) :
         Promises(Append(q, w))[i] = Append(Promises(q), Promised(w))[i]
  BY <1>1, <1>2, <1>3, <1>5, <1>6
<1> QED
  BY <1>3, <1>5, <1>7, SeqEqual

LEMMA PromisesRest ==
    ASSUME NEW q \in Seq(OpenWrites), NEW m \in 1..Len(q)
    PROVE  Promises(SubSeq(q, m + 1, Len(q))) = SubSeq(Promises(q), m + 1, Len(Promises(q)))
<1> DEFINE n == Len(q)
<1>1. n \in Nat /\ m + 1 \in Int /\ n \in Int /\ m <= n
  OBVIOUS
<1>2. /\ Promises(q) \in Seq(PromisedWrites) /\ Len(Promises(q)) = n
      /\ \A i \in 1..n : Promises(q)[i] = Promised(q[i])
  BY PromisesAre
<1>3. \A i \in (m + 1)..n : q[i] \in OpenWrites /\ Promises(q)[i] \in PromisedWrites
  BY <1>1, <1>2
<1> HIDE DEF n
<1>4. /\ SubSeq(q, m + 1, n) \in Seq(OpenWrites)
      /\ Len(SubSeq(q, m + 1, n)) = IF m + 1 <= n THEN n - (m + 1) + 1 ELSE 0
      /\ \A i \in 1..(n - (m + 1) + 1) : SubSeq(q, m + 1, n)[i] = q[(m + 1) + i - 1]
  BY <1>1, <1>3, SubSeqProperties
<1>5. /\ SubSeq(Promises(q), m + 1, n) \in Seq(PromisedWrites)
      /\ Len(SubSeq(Promises(q), m + 1, n)) = IF m + 1 <= n THEN n - (m + 1) + 1 ELSE 0
      /\ \A i \in 1..(n - (m + 1) + 1) :
            SubSeq(Promises(q), m + 1, n)[i] = Promises(q)[(m + 1) + i - 1]
  BY <1>1, <1>3, SubSeqProperties
<1>6. /\ Len(SubSeq(q, m + 1, n)) = n - m /\ Len(SubSeq(Promises(q), m + 1, n)) = n - m
      /\ \A i \in 1..(n - m) : /\ SubSeq(q, m + 1, n)[i] = q[m + i] /\ m + i \in 1..n
                              /\ SubSeq(Promises(q), m + 1, n)[i] = Promises(q)[m + i]
  BY <1>1, <1>4, <1>5
<1>7. /\ Promises(SubSeq(q, m + 1, n)) \in Seq(PromisedWrites)
      /\ Len(Promises(SubSeq(q, m + 1, n))) = n - m
      /\ \A i \in 1..(n - m) :
            Promises(SubSeq(q, m + 1, n))[i] = Promised(SubSeq(q, m + 1, n)[i])
  BY <1>4, <1>6, PromisesAre
<1>8. \A i \in 1..(n - m) :
         Promises(SubSeq(q, m + 1, n))[i] = SubSeq(Promises(q), m + 1, n)[i]
  BY <1>2, <1>6, <1>7
<1>9. Promises(SubSeq(q, m + 1, n)) = SubSeq(Promises(q), m + 1, n)
  BY <1>5, <1>6, <1>7, <1>8, SeqEqual
<1> QED
  BY <1>2, <1>9 DEF n

\* The steps of the bank, as the transfer takes them.
LEMMA AskIs ==
    ASSUME TransferInv, NEW s \in Slots, NEW r \in Records, StartWrite(s, r)
    PROVE  Bank!Ask(s, Whole(r))
<1>1. /\ open' = Append(open, [slot |-> s, record |-> r])
      /\ known' = [known EXCEPT ![s] = Unknown] /\ flash' = flash
  BY DEF StartWrite, Start, device
<1>2. open \in Seq(OpenWrites) /\ [slot |-> s, record |-> r] \in OpenWrites
  BY DEF TransferInv, TransferTypes, LibrarianTypes, OpenWrites
<1>3. Promises(open') = Append(Promises(open), Promised([slot |-> s, record |-> r]))
  BY <1>1, <1>2, PromisesAppend
<1>4. Promised([slot |-> s, record |-> r]) = [slot |-> s, record |-> Whole(r)]
  BY DEF Promised
<1>5. Promises(open') = Append(Promises(open), [slot |-> s, record |-> Whole(r)])
  BY <1>3, <1>4
<1> QED
  BY <1>1, <1>5 DEF Bank!Ask, Bank!Forget, Promises, Promised

LEMMA StoreIsOfBank ==
    ASSUME TransferInv, up # <<>>, up[1].op = "commit", Finished(up[1]), UNCHANGED known
    PROVE  \E m \in 1..Len(Promises(open)) : Bank!Store(m)
<1> DEFINE f == up[1]
<1>1. DeviceTypes /\ LineTypes /\ LibrarianTypes /\ Heads /\ open \in Seq(OpenWrites)
  BY DEF TransferInv, TransferTypes, LibrarianTypes
<1>2. known[f.slot] = Unknown /\ dev.mode = "writing" /\ dev.slot = f.slot
  BY <1>1 DEF Heads, Finished
<1>3. PICK i \in 1..Len(open) : open[i].slot = f.slot /\ dev.bytes = Whole(open[i].record)
  BY <1>1, <1>2 DEF Heads
<1>4. /\ flash' = [flash EXCEPT ![f.slot] = dev.bytes]
      /\ \E m \in 1..i : /\ open[m].slot = f.slot /\ Whole(open[m].record) = dev.bytes
                        /\ open' = SubSeq(open, m + 1, Len(open))
  <2>1. Finished(f)
    OBVIOUS
  <2> HIDE DEF f
  <2> QED
    BY <1>1, <1>3, <2>1, StoreIs
<1>5. PICK m \in 1..i : /\ open[m].slot = f.slot /\ Whole(open[m].record) = dev.bytes
                        /\ open' = SubSeq(open, m + 1, Len(open))
  BY <1>4
<1>6. m \in 1..Len(open) /\ Len(Promises(open)) = Len(open)
  BY <1>1, PromisesAre
<1>7. Promises(open') = SubSeq(Promises(open), m + 1, Len(Promises(open)))
  BY <1>1, <1>5, <1>6, PromisesRest
<1>8. Promises(open)[m].slot = f.slot /\ Promises(open)[m].record = dev.bytes
  <2>1. Promises(open)[m] = Promised(open[m])
    BY <1>1, <1>6, PromisesAre
  <2> QED
    BY <1>5, <2>1 DEF Promised
<1>9. Bank!Store(m) <=>
        /\ known[Promises(open)[m].slot] = Unknown
        /\ flash' = [flash EXCEPT ![Promises(open)[m].slot] = Promises(open)[m].record]
        /\ Promises(open') = SubSeq(Promises(open), m + 1, Len(Promises(open)))
        /\ UNCHANGED known
  BY DEF Bank!Store, Promises, Promised
<1> QED
  BY <1>2, <1>4, <1>6, <1>7, <1>8, <1>9

LEMMA SaveLocallyIs ==
    ASSUME NEW s \in Slots, NEW r \in Records, SaveLocally(s, r)
    PROVE  Bank!SaveLocally(s, Whole(r))
BY DEF SaveLocally, Bank!SaveLocally, Bank!Forget

\* What an answer teaches is what the slot holds.
LEMMA ReceiveIs ==
    ASSUME TransferInv, Receive
    PROVE  UNCHANGED known \/ \E s \in Slots : Bank!Learn(s)
<1> DEFINE p == down[1]
<1>1. /\ LibrarianTypes /\ Told(p) /\ Head(down) = p
  BY AnswerIsLast DEF TransferInv, TransferTypes
<1>2. Advance(p) /\ UNCHANGED <<flash, open>>
  BY <1>1 DEF Receive, device
<1>3. ASSUME NEW bytes, Learned(bytes), job.slot \in Slots,
             job.slot \notin local => flash[job.slot] = bytes
      PROVE  UNCHANGED known \/ \E s \in Slots : Bank!Learn(s)
  <2>1. CASE job.slot \in local
    BY <1>3, <2>1 DEF Learned
  <2>2. CASE job.slot \notin local
    <3>1. known' = [known EXCEPT ![job.slot] = flash[job.slot]]
      BY <1>3, <2>2 DEF Learned
    <3> QED
      BY <1>2, <1>3, <3>1 DEF Bank!Learn
  <2> QED
    BY <2>1, <2>2
<1>4. \/ UNCHANGED known
      \/ job.task = "read" /\ p.status = "empty" /\ Learned(<<>>)
      \/ p.status = "ok" /\ job.task \in Reads /\ Collect(p)
  BY <1>2 DEF Advance, Reads
<1>5. job.task \in Reads => job.slot \in Slots
  BY <1>1 DEF LibrarianTypes
<1>6. CASE job.task = "read" /\ p.status = "empty" /\ Learned(<<>>)
  <2>1. job.slot \in Slots /\ (job.slot \notin local => flash[job.slot] = <<>>)
    BY <1>1, <1>5, <1>6 DEF Told, Reads
  <2> QED
    BY <1>3, <1>6, <2>1
<1>7. CASE p.status = "ok" /\ job.task \in Reads /\ Collect(p)
  <2> DEFINE j == Received(p)
  <2>1. \/ UNCHANGED known
        \/ ~(Len(j.got) < j.total) /\ Learned(j.got)
    BY <1>7 DEF Collect
  <2>2. PICK b \in Stored : \E n \in 1..Len(b) :
            /\ j.got = SubSeq(b, 1, n) /\ j.total = Len(b) /\ Backed(b)
            /\ Len(j.got) < j.total \/ j.got = b
    <3> HIDE DEF j, p
    <3>1. j = Received(p) /\ p = down[1]
      BY DEF j, p
    <3> QED
      BY <1>7, <3>1, ChunkArrives
  <2> HIDE DEF j
  <2>3. ~(Len(j.got) < j.total) => j.got = b /\ (job.slot \notin local => flash[job.slot] = b)
    BY <2>2 DEF Backed
  <2> QED
    BY <1>3, <1>5, <1>7, <2>1, <2>3
<1> QED
  BY <1>4, <1>6, <1>7

\* A step that leaves the slots, what is known and what is open is none of the bank.
LEMMA BankStays ==
    ASSUME UNCHANGED <<flash, known, open>>
    PROVE  UNCHANGED Bank!vars
BY DEF Bank!vars

LEMMA BankNext ==
    /\ \A s \in Slots, r \in Records : Bank!Ask(s, Whole(r)) => Bank!Next
    /\ \A s \in Slots, r \in Records : Bank!SaveLocally(s, Whole(r)) => Bank!Next
    /\ (\E m \in 1..Len(Promises(open)) : Bank!Store(m)) => Bank!Next
    /\ (\E s \in Slots : Bank!Learn(s)) => Bank!Next
BY DEF Bank!Next, Promises, Promised

LEMMA BankStep ==
    ASSUME TransferInv, Next
    PROVE  Bank!Next \/ UNCHANGED Bank!vars
<1>1. CASE Deliver
  <2> DEFINE f == up[1]
  <2>1. DeviceTypes /\ LineTypes /\ Lines /\ Heads
    BY DEF TransferInv, TransferTypes
  <2>2. up # <<>> /\ Respond(Head(up)) /\ up' = Tail(up) /\ UNCHANGED known
    BY <1>1 DEF Deliver
  <2>3. Head(up) = f /\ f \in Requests /\ (f.op # "hello" => f.slot \in Slots)
    BY <2>1, <2>2, HeadGone
  <2>4. f.op = "write" /\ dev.mode = "writing" /\ dev.slot = f.slot => f.body \in Chunks
    BY <2>1, <2>2, HeadIsOfWrite
  <2>5. UNCHANGED <<flash, open>> \/ (f.op = "commit" /\ Finished(f))
    <3> HIDE DEF f
    <3>1. Respond(f)
      BY <2>2, <2>3
    <3> QED
      BY <2>1, <2>3, <2>4, <3>1, RespondIs
  <2>6. CASE UNCHANGED <<flash, open>>
    BY <2>2, <2>6, BankStays
  <2>7. CASE f.op = "commit" /\ Finished(f)
    BY <2>2, <2>7, StoreIsOfBank, BankNext
  <2> QED
    BY <2>5, <2>6, <2>7
<1>2. CASE Swallow \/ LoseRequest \/ Transmit \/ Discard \/ LoseReply \/ TimeOut \/ Tick
  BY <1>2, BankStays
     DEF Swallow, LoseRequest, Transmit, Discard, LoseReply, TimeOut, Tick, device, history
<1>3. CASE Receive
  BY <1>3, ReceiveIs, BankStays, BankNext DEF Receive, device
<1>4. CASE \E s \in Slots : StartRead(s)
  BY <1>4, BankStays DEF StartRead, Start, device
<1>5. CASE \E s \in Slots, r \in Records : StartWrite(s, r)
  BY <1>5, AskIs, BankNext
<1>6. CASE \E s \in Slots, r \in Records : SaveLocally(s, r)
  BY <1>6, SaveLocallyIs, BankNext
<1>7. CASE Reconnect
  BY <1>7, BankStays DEF Reconnect, device
<1>8. CASE PowerLoss
  <2>1. UNCHANGED known
    BY <1>8 DEF PowerLoss
  <2>2. CASE UNCHANGED <<flash, open>>
    BY <2>1, <2>2, BankStays
  <2>3. CASE /\ up # <<>> /\ Head(up).op = "commit" /\ Complete(Head(up))
             /\ Store(Head(up)) /\ up' = Tail(up)
    <3>1. DeviceTypes /\ LineTypes /\ Lines
      BY DEF TransferInv, TransferTypes
    <3>2. Head(up) = up[1]
      BY <2>3, <3>1, HeadGone
    <3>3. up[1].op = "commit" /\ Finished(up[1])
      BY <2>3, <3>1, <3>2, CompleteIs DEF Finished
    <3> QED
      BY <2>1, <2>3, <3>3, StoreIsOfBank, BankNext
  <2> QED
    BY <1>8, <2>2, <2>3 DEF PowerLoss
<1> QED
  BY <1>1, <1>2, <1>3, <1>4, <1>5, <1>6, <1>7, <1>8 DEF Next, Faults

\* Writes take effect whole, at most once and in the order they are asked for, and what is
\* learned of a slot is what it holds: a step of the exchange is one of the bank or none.
THEOREM BankImplemented == Spec /\ [][FreshNumbers]_vars => ImplementsBank
<1>1. Init => Bank!Init
  <2> SUFFICES ASSUME Init
               PROVE  Bank!Init
    OBVIOUS
  <2>1. flash \in [Slots -> {Whole(r) : r \in Records} \union {<<>>}]
    BY DEF Init, Stored
  <2>2. Promises(open) = <<>>
    <3>1. open \in Seq(OpenWrites) /\ Len(open) = 0
      BY DEF Init
    <3>2. Promises(open) \in Seq(PromisedWrites) /\ Len(Promises(open)) = 0
      BY <3>1, PromisesAre
    <3> QED
      BY <3>2, EmptySeq
  <2>3. Bank!Init <=> /\ flash \in [Slots -> {Whole(r) : r \in Records} \union {<<>>}]
                      /\ known = [s \in Slots |-> Unknown]
                      /\ Promises(open) = <<>>
    BY DEF Bank!Init, Promises, Promised
  <2> QED
    BY <2>1, <2>2, <2>3 DEF Init
<1>2. TransferInv /\ [Next]_vars => [Bank!Next]_(Bank!vars)
  <2>1. UNCHANGED vars => UNCHANGED Bank!vars
    BY BankStays DEF vars, device, history
  <2> QED
    BY <2>1, BankStep
<1> QED
  BY <1>1, <1>2, TransferInvariant, PTL DEF Spec, ImplementsBank, Bank!Spec
=============================================================================
