---------------------------- MODULE SignalAgent ----------------------------
(***************************************************************************)
(* The signal agent copies signals, logs of frames (module PageIO), from   *)
(* one machine to another: a CSignalRequester connects to a remote agent,  *)
(* which makes a CSignalServer for the connection, reads the signals and   *)
(* sends their frames through the ring buffer of the socket (CBuffer,      *)
(* CService); the requester cuts the stream into packages and appends the  *)
(* frames to its own logs.                                                 *)
(*                                                                         *)
(* A byte stream is a sequence of cells, each with the package it belongs  *)
(* to; a tSACmdHead is one cell, a tSASignalData two.  Time is left out:   *)
(* a connection may be found too old, by either side, at any moment.       *)
(* Only the latest connection is modelled: nobody reads what the server of *)
(* an earlier one sends before it is erased.                               *)
(***************************************************************************)
EXTENDS Integers, Sequences, SequencesExt

CONSTANTS
  Sigs,       \* the number of signals
  Lens,       \* lengths of the frames that are written
  Size,       \* size_ of the server's write buffer
  Width,      \* head_ and tail_ count modulo this
  ReadSize,   \* size_ of the requester's read buffer
  Room,       \* bound: cells on the way in the network
  MaxFrames,  \* bound: frames written, of each signal
  MaxBeats,   \* bound: heartbeats
  MaxBreaks   \* bound: broken connections and failed attempts to connect

ASSUME SignalAssumption ==
  /\ Lens \subseteq Nat
  /\ {Sigs, Size, Width, ReadSize, Room} \subseteq Nat \ {0}
  /\ Width % Size = 0 /\ Width > Size
  /\ MaxFrames \in [1 .. Sigs -> Nat] /\ {MaxBeats, MaxBreaks} \subseteq Nat

VARIABLES
  log,      \* the lengths of the frames of each remote signal
  server,   \* the server of this connection: none, open, closed
  pos,      \* its readers: the next frame, 0 without a reader
  ring, head, tail,   \* its write_buf_
  writing,  \* it watches EV_WRITE
  wire,     \* cells on the way to the requester
  sent,     \* requests on the way to the server
  link,     \* the requester: connecting, blind (connecting without the io
            \* watcher), retry (the timer runs), up, lost
  out,      \* its write_buf_, as requests
  rbuf,     \* its read_buf_
  pkg,      \* pkg_size_ in state READ_BODY, 0 in READ_HEAD
  local,    \* the frames of each local signal, as cells
  from,     \* history: where the readers of this connection started
  base,     \* history: length of the local signals when it was made
  torn,     \* history: the server has sent a head without its frame
  beats, breaks

bvars == <<ring, head, tail, writing>>
rvars == <<link, out, rbuf, pkg, local>>
vars == <<log, server, pos, bvars, wire, sent, rvars, from, base, torn,
          beats, breaks>>

Signals == 1 .. Sigs
CmdHead == 1       \* sizeof(tSACmdHead)
SignalHead == 2    \* sizeof(tSASignalData)

Data(s, k) ==
  [cmd |-> "data", sig |-> s, num |-> k, len |-> SignalHead + log[s][k]]
Rep == [cmd |-> "rep", sig |-> 0, num |-> 0, len |-> 0]

(* The cells of a package from one to another *)
Cells(p, a, b) == [i \in 1 .. b - a + 1 |-> [pkg |-> p, off |-> a + i - 1]]
Body(s, k) == Cells(Data(s, k), SignalHead + 1, SignalHead + log[s][k])

NoSig == [s \in Signals |-> 0]
NoCells == [i \in 0 .. Size - 1 |-> [pkg |-> Rep, off |-> 0]]

Init ==
  /\ log = [s \in Signals |-> <<>>]
  /\ server = "none" /\ pos = NoSig
  /\ ring = NoCells /\ head = 0 /\ tail = 0
  /\ writing = FALSE /\ wire = <<>> /\ sent = <<>>
  /\ link = "connecting" /\ out = <<>> /\ rbuf = <<>> /\ pkg = 0
  /\ local = [s \in Signals |-> <<>>]
  /\ from = NoSig /\ base = NoSig /\ torn = FALSE
  /\ beats = 0 /\ breaks = 0

-----------------------------------------------------------------------------
(***************************************************************************)
(* CBuffer                                                                 *)
(***************************************************************************)
Used(h, t) == (t - h) % Width
Left(b) == Size - Used(head, b.tail)

(* cycleWrite: nothing is written without more room than that. *)
CycleWrite(b, cells) ==
  IF Len(cells) < Left(b)
  THEN LET m == b.tail % Size IN
       [ring |-> [i \in 0 .. Size - 1 |->
                    LET j == (i - m) % Size IN
                    IF j < Len(cells) THEN cells[j + 1] ELSE b.ring[i]],
        tail |-> (b.tail + Len(cells)) % Width, done |-> TRUE]
  ELSE [b EXCEPT !.done = FALSE]

(* The first n cells of the buffer: cycleRead returns what there is up to  *)
(* the end of the memory, then, after commitRead, what is at its start.    *)
CycleRead(n) ==
  LET c == Size - (head % Size) IN
  [i \in 1 .. n |-> IF i <= c THEN ring[(head % Size) + i - 1]
                    ELSE ring[(((head + c) % Width) % Size) + i - c - 1]]

Buf == [ring |-> ring, tail |-> tail, done |-> TRUE]

(* sendData: without cells, nothing is written. *)
SendData(b, cells) == IF cells = <<>> THEN b ELSE CycleWrite(b, cells)

(* The buffer after a call, with EV_WRITE watched if it wrote something *)
Written(b) ==
  /\ ring' = b.ring /\ tail' = b.tail /\ UNCHANGED head
  /\ writing' = (writing \/ b.tail # tail)

-----------------------------------------------------------------------------
(***************************************************************************)
(* The remote agent                                                        *)
(***************************************************************************)
(* Another process writes a frame of a signal. *)
NewFrame(s) ==
  /\ Len(log[s]) < MaxFrames[s]
  /\ \E n \in Lens : log' = [log EXCEPT ![s] = Append(@, n)]
  /\ UNCHANGED <<server, pos, bvars, wire, sent, rvars, from, base,
                 torn, beats, breaks>>

(* onAccept *)
Accept ==
  /\ server = "none" /\ link = "up"
  /\ server' = "open"
  /\ UNCHANGED <<log, pos, bvars, wire, sent, rvars, from, base, torn,
                 beats, breaks>>

(* CSignalServer::processPkg: the readers start at the tail; a heartbeat   *)
(* is answered if there is room.                                           *)
ServerRead ==
  /\ server = "open" /\ sent # <<>>
  /\ sent' = Tail(sent)
  /\ IF Head(sent) = "req"
     THEN /\ pos' = [s \in Signals |-> IF pos[s] = 0 THEN Len(log[s]) + 1
                                       ELSE pos[s]]
          /\ from' = pos'
          /\ UNCHANGED bvars
     ELSE /\ Written(SendData(Buf, Cells(Rep, 1, CmdHead)))
          /\ UNCHANGED <<pos, from>>
  /\ UNCHANGED <<log, server, wire, rvars, base, torn, beats, breaks>>

(* Mutant of TryRead: a frame for which there is no room is passed. *)
TryReadPass(s) ==
  /\ server = "open" /\ pos[s] \in 1 .. Len(log[s])
  /\ LET p == Data(s, pos[s])
         b == SendData(Buf, Cells(p, 1, SignalHead))
         c == SendData(b, Body(s, pos[s])) IN
     /\ \/ /\ Left(Buf) >= p.len
           /\ Written(c)
           /\ torn' = (torn \/ ~c.done)
        \/ /\ Left(Buf) < p.len
           /\ UNCHANGED <<bvars, torn>>
     /\ pos' = [pos EXCEPT ![s] = @ + 1]
  /\ UNCHANGED <<log, server, wire, sent, rvars, from, base, beats,
                 breaks>>

(* CSignalServer::tryRead, one frame of a reader: it is sent if there is   *)
(* room, skipped if it never fits; otherwise it waits.  Frames come one by *)
(* one from other processes, so a pass of the loop is some such steps.     *)
TryRead(s) ==
  /\ server = "open" /\ pos[s] \in 1 .. Len(log[s])
  /\ LET p == Data(s, pos[s])
         b == SendData(Buf, Cells(p, 1, SignalHead))
         c == SendData(b, Body(s, pos[s])) IN
     /\ \/ /\ Left(Buf) >= p.len
           /\ Written(c)
           /\ torn' = (torn \/ ~c.done)
        \/ /\ Left(Buf) < p.len /\ Size < p.len
           /\ UNCHANGED <<bvars, torn>>
     /\ pos' = [pos EXCEPT ![s] = @ + 1]
  /\ UNCHANGED <<log, server, wire, sent, rvars, from, base, beats,
                 breaks>>

(* Mutant of WriteCb: EV_WRITE is given up after one call of write. *)
WriteCbOnce ==
  /\ server = "open" /\ writing
  /\ \E n \in 0 .. Size :
       /\ n <= Used(head, tail) /\ Len(wire) + n <= Room
       /\ n = 0 => Used(head, tail) = 0
       /\ wire' = wire \o CycleRead(n)
       /\ head' = (head + n) % Width
       /\ writing' = FALSE
  /\ UNCHANGED <<log, server, pos, ring, tail, sent, rvars, from, base,
                 torn, beats, breaks>>

(* write_cb: the kernel takes some of the buffer; EV_WRITE is watched      *)
(* until it has all.                                                       *)
WriteCb ==
  /\ server = "open" /\ writing
  /\ \E n \in 0 .. Size :
       /\ n <= Used(head, tail) /\ Len(wire) + n <= Room
       /\ n = 0 => Used(head, tail) = 0
       /\ wire' = wire \o CycleRead(n)
       /\ head' = (head + n) % Width
       /\ writing' = (n < Used(head, tail))
  /\ UNCHANGED <<log, server, pos, ring, tail, sent, rvars, from, base,
                 torn, beats, breaks>>

(* The server is closed: an error of the socket, or no message in time     *)
(* (isOK), and it is erased.                                               *)
ServerClose ==
  /\ server = "open" /\ breaks < MaxBreaks
  /\ breaks' = breaks + 1
  /\ server' = "closed" /\ sent' = <<>>
  /\ pos' = NoSig /\ ring' = NoCells /\ head' = 0 /\ tail' = 0 /\ writing' = FALSE
  /\ wire' \in {wire, <<>>}
  /\ UNCHANGED <<log, rvars, from, base, torn, beats>>

-----------------------------------------------------------------------------
(***************************************************************************)
(* The requester                                                           *)
(***************************************************************************)
(* CService::close *)
Closed == out' = <<>> /\ pkg' = 0 /\ rbuf' = <<>>

(* Of the old connection nothing is left; the next has a server of its own *)
Dropped ==
  /\ server' = "none" /\ pos' = NoSig
  /\ head' = 0 /\ tail' = 0 /\ writing' = FALSE /\ ring' = NoCells
  /\ wire' = <<>> /\ sent' = <<>>

(* connect: under way, or an error at once, after which nobody tries again *)
Connect(states) ==
  \/ link' \in states /\ UNCHANGED breaks
  \/ link' = "lost" /\ breaks < MaxBreaks /\ breaks' = breaks + 1

(* connect_cb, onConnected: the signals are requested.  connect may also   *)
(* succeed at once; then this is the same step.                            *)
OnConnected ==
  /\ link = "connecting"
  /\ link' = "up" /\ out' = <<"req">>
  /\ base' = [s \in Signals |-> Len(local[s])] /\ from' = NoSig
  /\ torn' = FALSE
  /\ UNCHANGED <<log, server, pos, bvars, wire, sent, rbuf, pkg, local, beats,
                 breaks>>

(* connect_cb, onConnectErr: the timer will try again. *)
OnConnectErr ==
  /\ link = "connecting" /\ breaks < MaxBreaks
  /\ breaks' = breaks + 1
  /\ link' = "retry"
  /\ UNCHANGED <<log, server, pos, bvars, wire, sent, out, rbuf, pkg, local,
                 from, base, torn, beats>>

(* timeout *)
Retry ==
  /\ link = "retry"
  /\ Connect({"connecting"})
  /\ UNCHANGED <<log, server, pos, bvars, wire, sent, out, rbuf, pkg, local,
                 from, base, torn, beats>>

(* Mutant of ConnectTimeout: the timer was not started. *)
ConnectTimeoutNone == link # link /\ UNCHANGED vars

(* connect_timeout_cb *)
ConnectTimeout ==
  /\ link = "blind"
  /\ Connect({"connecting"})
  /\ UNCHANGED <<log, server, pos, bvars, wire, sent, out, rbuf, pkg, local,
                 from, base, torn, beats>>

(* write_cb of the requester *)
RequesterWrite ==
  /\ link = "up" /\ out # <<>>
  /\ sent' = IF server = "closed" THEN sent ELSE sent \o out
  /\ out' = <<>>
  /\ UNCHANGED <<log, server, pos, bvars, wire, link, rbuf, pkg, local,
                 from, base, torn, beats, breaks>>

(* tryHeartBeat *)
TryHeartBeat ==
  /\ link = "up" /\ beats < MaxBeats
  /\ beats' = beats + 1
  /\ out' = Append(out, "beat")
  /\ UNCHANGED <<log, server, pos, bvars, wire, sent, link, rbuf, pkg, local,
                 from, base, torn, breaks>>

(* Mutant of Package: the frame begins after the smaller head. *)
PackageHead(r) ==
  IF Len(r.buf) < r.size THEN r
  ELSE LET p == r.buf[1].pkg
           q == [r EXCEPT !.buf = <<>>, !.size = 0] IN
       IF p.cmd = "rep" THEN q
       ELSE [q EXCEPT !.local[r.buf[2].pkg.sig] =
                        Append(@, SubSeq(r.buf, CmdHead + 1, Len(r.buf)))]

(* What the requester makes of the next cell: processHead, processPkg.     *)
(* pkg_size_ includes the head; a heartbeat's is 0.                        *)
Package(r) ==
  IF Len(r.buf) < r.size THEN r
  ELSE LET p == r.buf[1].pkg
           q == [r EXCEPT !.buf = <<>>, !.size = 0] IN
       IF p.cmd = "rep" THEN q
       ELSE [q EXCEPT !.local[r.buf[2].pkg.sig] =
                        Append(@, SubSeq(r.buf, SignalHead + 1, Len(r.buf)))]

TakeCell(r, c) ==
  LET b == [r EXCEPT !.buf = Append(@, c)] IN
  IF r.bad THEN r
  ELSE IF r.buf # <<>> THEN Package(b)
  ELSE IF c.off # 1 \/ c.pkg.len > ReadSize THEN [r EXCEPT !.bad = TRUE]
  ELSE Package([b EXCEPT !.size = c.pkg.len])

(* read_write_cb, read_cb: all that has arrived is read.  After a bad head *)
(* the connection is closed and made anew.  If EV_WRITE is also set,       *)
(* write_cb then finds the new socket and stops its watcher.               *)
RequesterRead ==
  /\ link = "up"
  /\ \E n \in 1 .. Len(wire) :
       LET r == FoldLeft(TakeCell,
                         [buf |-> rbuf, size |-> pkg, local |-> local, bad |-> FALSE],
                         SubSeq(wire, 1, n)) IN
       /\ local' = r.local
       /\ IF r.bad
          THEN /\ Closed /\ Dropped
               /\ Connect({"connecting"} \cup IF out # <<>> THEN {"blind"} ELSE {})
          ELSE /\ rbuf' = r.buf /\ pkg' = r.size
               /\ wire' = SubSeq(wire, n + 1, Len(wire))
               /\ UNCHANGED <<server, pos, bvars, sent, link, out, breaks>>
  /\ UNCHANGED <<log, from, base, torn, beats>>

(* read_cb: the server has closed the connection. *)
RequesterEof ==
  /\ link = "up" /\ server = "closed" /\ wire = <<>>
  /\ Closed /\ Dropped
  /\ Connect({"connecting"} \cup IF out # <<>> THEN {"blind"} ELSE {})
  /\ UNCHANGED <<log, local, from, base, torn, beats>>

(* testOK: nothing has come for too long. *)
TestOK ==
  /\ link = "up" /\ breaks < MaxBreaks
  /\ breaks' = breaks + 1
  /\ Closed /\ Dropped
  /\ link' \in {"connecting", "lost"}
  /\ UNCHANGED <<log, local, from, base, torn, beats>>

-----------------------------------------------------------------------------
Server == Accept \/ ServerRead \/ WriteCb \/ \E s \in Signals : TryRead(s)
Requester ==
  \/ OnConnected \/ Retry \/ ConnectTimeout \/ RequesterWrite
  \/ RequesterRead \/ RequesterEof

Next ==
  \/ \E s \in Signals : NewFrame(s)
  \/ Server \/ Requester \/ ServerClose \/ OnConnectErr \/ TryHeartBeat \/ TestOK

Spec == Init /\ [][Next]_vars

(* Both agents are event loops that do what is ready.  A connection that   *)
(* the network can make is made, and a running timer ends.                 *)
FairSpec == Spec /\ WF_vars(Server) /\ WF_vars(Requester)

-----------------------------------------------------------------------------
(***************************************************************************)
(* Properties                                                              *)
(***************************************************************************)
TypeOK ==
  /\ server \in {"none", "open", "closed"}
  /\ link \in {"connecting", "blind", "retry", "up", "lost"}
  /\ \A s \in Signals : pos[s] \in 0 .. Len(log[s]) + 1
  /\ head \in 0 .. Width - 1 /\ tail \in 0 .. Width - 1
  /\ Used(head, tail) < Size /\ Len(rbuf) <= ReadSize

(* The number of the frame that a sequence of cells is, 0 if it is none *)
FrameNum(s, cells) ==
  LET K == {k \in 1 .. Len(log[s]) : cells = Body(s, k)} IN
  IF K = {} THEN 0 ELSE CHOOSE k \in K : TRUE

(* The frames of a signal that this connection has brought *)
Brought(s) == base[s] + 1 .. Len(local[s])

(* All frames are whole, torn connections too: CBuffer.cpp says that the caller of     *)
(* cycleWrite has to look at what it returns.                              *)
AllWhole ==
  \A s \in Signals : \A i \in DOMAIN local[s] : FrameNum(s, local[s][i]) > 0

(* The frames of a signal that are under way *)
UnderWay(s) ==
  LET cells == rbuf \o wire \o CycleRead(Used(head, tail)) IN
  {cells[i].pkg.num : i \in {j \in DOMAIN cells : cells[j].pkg.sig = s}}

(* No frame is left out while a connection lasts: what the server's reader *)
(* has passed is in the local signal or under way, except what is larger   *)
(* than the write buffer (tryRead).                                        *)
NoneLeftOut ==
  server = "open" /\ ~torn =>
    \A s \in Signals : pos[s] > 0 =>
      {FrameNum(s, local[s][i]) : i \in Brought(s)} \cup UnderWay(s)
        = {k \in from[s] .. pos[s] - 1 : Data(s, k).len <= Size}

(* A frame is forwarded whole, to the log of its signal, in order, at most *)
(* once and with none left out, through partial writes and reads, the end  *)
(* of the ring buffer and of its counters, heartbeats and connections that *)
(* break anywhere (cycleWrite, read_cb, close), except by a connection on  *)
(* which a frame met a write buffer with exactly its size left.            *)
ForwardedWhole ==
  /\ NoneLeftOut
  /\ \A s \in Signals :
       /\ link = "up" /\ ~torn =>
            \A i \in Brought(s) : FrameNum(s, local[s][i]) > 0
       /\ \A i, j \in DOMAIN local[s] :
            /\ i < j /\ FrameNum(s, local[s][i]) > 0 /\ FrameNum(s, local[s][j]) > 0
            => FrameNum(s, local[s][i]) < FrameNum(s, local[s][j])

(* A signal has a frame for the requester that is not there yet. *)
Behind ==
  \E s \in Signals :
    /\ pos[s] > 0
    /\ {k \in from[s] .. Len(log[s]) : Data(s, k).len <= ReadSize}
         \ {FrameNum(s, local[s][i]) : i \in Brought(s)} # {}

(* The requester catches up with the frames that are written, unless the   *)
(* connection ends or is torn, or a frame is too large.                    *)
CatchesUp ==
  server = "open" /\ Behind ~> server # "open" \/ torn \/ ~Behind

(* A requester without a connection gets one again, unless connect fails   *)
(* at once (CSignalRequester::close, onConnectErr, connect_timeout_cb).    *)
Reconnects == link # "up" ~> link \in {"up", "lost"}
=============================================================================
