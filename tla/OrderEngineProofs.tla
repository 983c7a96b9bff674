------------------------- MODULE OrderEngineProofs -------------------------
(***************************************************************************)
(* Orders, returns and trades of module OrderEngine, for any number of     *)
(* orders, volume, cancels, restarts and repeated trades.                  *)
(***************************************************************************)
EXTENDS OrderEngine, SumTheorems, SequenceTheorems

-----------------------------------------------------------------------------
(* The types of the variables, the messages included. *)
CmdType ==
  [cmd: {"insert"}, oid: 1 .. MaxOrders, local: 1 .. MaxOrders, ref: {0}]
    \cup [cmd: {"cancel"}, oid: 1 .. MaxOrders, local: 1 .. MaxOrders,
          ref: Refs]
RtnType == [to: BOOLEAN, type: AllBits, local: 0 .. MaxOrders,
            ref: Refs \cup {-1}, vol: Nat, oid: 0 .. MaxOrders]
EventType ==
  [kind: {"order", "trade", "reject", "action"}, ref: Refs,
   what: {"Unknown", "Canceled", "NoTradeQueueing", "PartTradedQueueing",
          "AllTraded", "Trade", "REJECT", "MARKET_REJECT", "front", "market"},
   vol: 0 .. Vol, id: Nat, from: BOOLEAN, local: 0 .. MaxOrders]
OtType == [oid: 1 .. MaxOrders, st: SUBSET AllBits, traded: Nat,
           ref: Refs \cup {-1}]
TrackType == [st: SUBSET AllBits, vol: {0, Vol}, traded: Nat, from: BOOLEAN,
              local: 0 .. MaxOrders]
FrontType == [st: {"none", "sent", "accepted", "queued", "closed"},
              traded: 0 .. Vol, cxl: BOOLEAN, oid: 0 .. MaxOrders]

HelperType ==
  /\ hup \in {"up", "down", "reader"} /\ ots \in Seq(OtType)
  /\ sent \in 0 .. MaxOrders /\ cancels \in 0 .. MaxCancels
  /\ restarts \in 0 .. MaxRestarts
  /\ cmds \in Seq(CmdType) /\ rtns \in Seq(RtnType)

EngineType ==
  /\ reqId \in 1 .. MaxOrders + 1
  /\ epc \in {"idle", "insert", "fill", "fillFrom", "ack", "onNew",
              "onNewStore", "cancel", "cxling", "cxlingStore"}
  /\ ecmd \in CmdType \cup {NoCmd}
  /\ eold \in [st: SUBSET AllBits, n: Int]
  /\ cb \in EventType \cup {NoEvent}
  /\ track \in [Refs -> TrackType]
  /\ seen \in [Refs -> Seq(Nat)]
  /\ \A r \in Refs : Len(seen[r]) <= FilterLen
  /\ acct \in Int

FrontTypes ==
  /\ front \in [Refs -> FrontType]
  /\ evq \in Seq(EventType)
  /\ ntrade \in Nat /\ dups \in 0 .. MaxDups

TypeInv == HelperType /\ EngineType /\ FrontTypes

-----------------------------------------------------------------------------
(* The front has been given an order with reference r; its track is filled. *)
Begun(r) ==
  r < reqId \/ (r = reqId /\ epc \in {"fill", "fillFrom", "ack"})
Filled(r) == r < reqId \/ (r = reqId /\ epc = "ack")

Inserting == {"insert", "fill", "fillFrom", "ack"}
Canceling == {"cancel", "cxling", "cxlingStore"}

(* The orders still to be inserted have numbers that only grow, and never  *)
(* fall behind the references.                                             *)
CmdInv ==
  /\ \A k \in DOMAIN cmds : cmds[k].cmd = "insert" =>
       reqId <= cmds[k].oid /\ cmds[k].oid <= sent
  /\ \A j, k \in DOMAIN cmds :
       j < k /\ cmds[j].cmd = "insert" /\ cmds[k].cmd = "insert" =>
         cmds[j].oid < cmds[k].oid
  /\ epc \in Inserting =>
       /\ ecmd.cmd = "insert" /\ reqId <= ecmd.oid /\ ecmd.oid <= sent
       /\ \A k \in DOMAIN cmds : cmds[k].cmd = "insert" =>
            ecmd.oid < cmds[k].oid
  /\ epc \in Canceling => ecmd.cmd = "cancel"
  /\ epc = "idle" => ecmd = NoCmd
  /\ reqId <= sent + 1 /\ Len(ots) <= sent

(* What the front, the tracks and the filter hold of a reference that was  *)
(* not used yet, and of one that was.                                      *)
FreshInv ==
  \A r \in Refs :
    /\ Begun(r) => front[r].st # "none" /\ front[r].oid \in 1 .. sent
    /\ ~Begun(r) => /\ front[r] = NoOrder
                    /\ track[r] = NoTrack /\ seen[r] = <<>>
    /\ Filled(r) <=> track[r].from
    /\ Filled(r) => track[r].vol = Vol
    /\ r = reqId /\ Begun(r) => front[r].oid = ecmd.oid
    /\ r = reqId /\ epc = "fillFrom" => track[r].vol = Vol

(* Whatever names a reference names one that was used. *)
Used == {r \in Refs : Begun(r)}
RefsInv ==
  /\ \A i \in DOMAIN ots : ots[i].ref # -1 => ots[i].ref \in Used
  /\ \A k \in DOMAIN rtns : rtns[k].ref # -1 => rtns[k].ref \in Used
  /\ \A k \in DOMAIN cmds : cmds[k].cmd = "cancel" => cmds[k].ref \in Used
  /\ epc \in Canceling => ecmd.ref \in Used
  /\ \A k \in DOMAIN evq : evq[k].ref \in Used
  /\ cb # NoEvent => cb.ref \in Used
  /\ cb # NoEvent /\ cb.from =>
       track[cb.ref].from /\ cb.local = track[cb.ref].local

BaseInv == TypeInv /\ CmdInv /\ FreshInv /\ RefsInv

(* In its first run the helper finds its orders by their numbers. *)
LocalInv ==
  restarts = 0 =>
    /\ hup = "up" /\ Len(ots) = sent
    /\ \A i \in DOMAIN ots : ots[i].oid = i
    /\ \A k \in DOMAIN cmds : cmds[k].local = cmds[k].oid
    /\ ecmd.local = ecmd.oid
    /\ \A r \in Refs : track[r].from => track[r].local = front[r].oid
    /\ \A k \in DOMAIN rtns : rtns[k].to => rtns[k].local = rtns[k].oid

-----------------------------------------------------------------------------
(* The bits that close an order, the events that end one, and the events   *)
(* on which a track is closed.                                             *)
Closing == Final \cup {"CLOSED"}
FinalEvent(e) ==
  e.kind = "reject" \/ (e.kind = "order" /\ e.what = "Canceled")
Closes(e) == FinalEvent(e) \/ (e.kind = "order" /\ e.what = "AllTraded")

(* What every handler of a callback does: the track of its order gets bits *)
(* and maybe volume, and the helper a return, unless the track says that   *)
(* it had one.                                                             *)
Handled ==
  /\ cb \in EventType /\ cb' = NoEvent
  /\ callbackUnchanged
  /\ acct' \in Int
  /\ track' \in [Refs -> TrackType]
  /\ \A r \in Refs \ {cb.ref} : track'[r] = track[r]
  /\ LET old == track[cb.ref] new == track'[cb.ref] IN
       /\ old.st \subseteq new.st /\ new.vol = old.vol
       /\ new.from = old.from /\ new.local = old.local
       /\ cb.kind # "trade" => new.traded = old.traded
       /\ cb.kind = "trade" => new.traded = old.traded + cb.vol
       /\ new.st \cap Closing # {} =>
            \/ old.st \cap Closing # {}
            \/ Closes(cb)
            \/ cb.kind = "trade" /\ new.traded >= old.vol
  /\ \/ /\ rtns' = rtns /\ cb.kind # "trade"
        /\ FinalEvent(cb) => track[cb.ref].st \cap Closing # {}
     \/ \E type \in AllBits, v \in Nat :
          /\ rtns' = Append(rtns, Rtn(cb.from, type, cb.local, cb.ref, v,
                                      front[cb.ref].oid))
          /\ type = "EXECUTION" <=> cb.kind = "trade"
          /\ type \in Final <=> FinalEvent(cb)
          /\ type \notin {"ERR", "CLOSED"}
          /\ cb.kind = "trade" => v = cb.vol

Handlers ==
  \/ OnRtnOrder \/ OnRtnTrade \/ OnRspOrderInsert \/ OnErrRtnOrderInsert
  \/ OnRspOrderAction \/ OnErrRtnOrderAction

(* The bits are the bits of a status word. *)
LEMMA BitsType ==
  ASSUME NEW type \in AllBits
  PROVE  Bits(type) \subseteq AllBits
BY DEF Bits, AllBits, Final

(* A report and a discard, with the track they leave. *)
LEMMA ReportEffect ==
  ASSUME TypeInv, cb \in EventType,
         NEW type \in AllBits, NEW bits, bits \subseteq AllBits, NEW v \in Nat,
         Report(type, bits, v)
  PROVE  /\ acct' \in Int
         /\ track' \in [Refs -> TrackType]
         /\ \A r \in Refs \ {cb.ref} : track'[r] = track[r]
         /\ track'[cb.ref] = [track[cb.ref] EXCEPT !.st = @ \cup bits]
         /\ rtns' = Append(rtns, Rtn(cb.from, type, cb.local, cb.ref, v,
                                     front[cb.ref].oid))
<1>1. cb.ref \in Refs
  BY DEF EventType
<1>2. track \in [Refs -> TrackType] /\ acct \in Int
  BY DEF TypeInv, EngineType
<1>3. track' = [track EXCEPT ![cb.ref].st = @ \cup bits]
  BY DEF Report
<1>4. [track[cb.ref] EXCEPT !.st = @ \cup bits] \in TrackType
  BY <1>1, <1>2 DEF TrackType
<1>5. acct' \in Int
  BY <1>2 DEF Report, Freed
<1>6. rtns' = Append(rtns, Rtn(cb.from, type, cb.local, cb.ref, v,
                               front[cb.ref].oid))
  BY DEF Report, Written
<1> QED
  BY <1>1, <1>2, <1>3, <1>4, <1>5, <1>6

(* What discard does, as Handled says it, ... *)
LEMMA DiscardEffect ==
  ASSUME TypeInv, cb \in EventType, NEW bits, bits \subseteq AllBits,
         Discard(bits)
  PROVE  /\ acct' \in Int
         /\ track' \in [Refs -> TrackType]
         /\ \A r \in Refs \ {cb.ref} : track'[r] = track[r]
         /\ track'[cb.ref] = [track[cb.ref] EXCEPT !.st = @ \cup bits]
         /\ rtns' = rtns
<1>1. cb.ref \in Refs
  BY DEF EventType
<1>2. track \in [Refs -> TrackType] /\ acct \in Int
  BY DEF TypeInv, EngineType
<1>3. track' = [track EXCEPT ![cb.ref].st = @ \cup bits]
  BY DEF Discard
<1>4. [track[cb.ref] EXCEPT !.st = @ \cup bits] \in TrackType
  BY <1>1, <1>2 DEF TrackType
<1> QED
  BY <1>1, <1>2, <1>3, <1>4 DEF Discard

(* ... and all six handlers. *)
LEMMA HandledEffect ==
  ASSUME TypeInv, Handlers
  PROVE  Handled
<1>1. cb \in EventType
  <2>1. cb # NoEvent
    BY DEF Handlers, OnRtnOrder, OnRtnTrade, OnRspOrderInsert,
           OnErrRtnOrderInsert, OnRspOrderAction, OnErrRtnOrderAction,
           InsertRejected, ActionRejected, NoEvent
  <2> QED
    BY <2>1 DEF TypeInv, EngineType
<1>2. cb.ref \in Refs /\ track[cb.ref] \in TrackType /\ OrderAssumption
  BY <1>1, OrderAssumption DEF TypeInv, EngineType, EventType
<1>3. {"CLOSED"} \subseteq AllBits /\ {} \subseteq AllBits
  BY DEF AllBits
<1>4. ASSUME NEW type \in AllBits, NEW bits, bits \subseteq AllBits,
             NEW v \in Nat, Report(type, bits, v), cb.kind # "trade",
             cb' = NoEvent, callbackUnchanged,
             type \notin {"EXECUTION", "ERR", "CLOSED"},
             type \in Final <=> FinalEvent(cb),
             bits \cap Closing # {} => Closes(cb)
      PROVE  Handled
  <2>1. /\ acct' \in Int
        /\ track' \in [Refs -> TrackType]
        /\ \A r \in Refs \ {cb.ref} : track'[r] = track[r]
        /\ track'[cb.ref] = [track[cb.ref] EXCEPT !.st = @ \cup bits]
        /\ rtns' = Append(rtns, Rtn(cb.from, type, cb.local, cb.ref, v,
                                    front[cb.ref].oid))
    BY <1>1, <1>4, ReportEffect
  <2>2. /\ track[cb.ref].st \subseteq track'[cb.ref].st
        /\ track'[cb.ref].st = track[cb.ref].st \cup bits
    BY <1>2, <2>1 DEF TrackType
  <2> QED
    BY <1>1, <1>2, <1>4, <2>1, <2>2 DEF Handled, TrackType
<1>5. ASSUME NEW bits, bits \subseteq AllBits, Discard(bits),
             cb.kind # "trade", cb' = NoEvent, callbackUnchanged,
             bits \cap Closing # {} => Closes(cb),
             FinalEvent(cb) => track[cb.ref].st \cap Closing # {}
      PROVE  Handled
  <2>1. /\ acct' \in Int
        /\ track' \in [Refs -> TrackType]
        /\ \A r \in Refs \ {cb.ref} : track'[r] = track[r]
        /\ track'[cb.ref] = [track[cb.ref] EXCEPT !.st = @ \cup bits]
        /\ rtns' = rtns
    BY <1>1, <1>5, DiscardEffect
  <2>2. /\ track[cb.ref].st \subseteq track'[cb.ref].st
        /\ track'[cb.ref].st = track[cb.ref].st \cup bits
    BY <1>2, <2>1 DEF TrackType
  <2> QED
    BY <1>1, <1>2, <1>5, <2>1, <2>2 DEF Handled, TrackType
<1>6. CASE OnRtnOrder
  <2>1. cb.kind = "order" /\ cb' = NoEvent /\ callbackUnchanged
    BY <1>6 DEF OnRtnOrder
  <2>2. cb.vol \in Nat /\ Vol \in Nat
    BY <1>1, OrderAssumption DEF EventType
  <2>3. {"ACCEPT", "CANCELED", "MARKET_ACCEPT"} \subseteq AllBits
    BY DEF AllBits, Final
  <2>4. /\ Bits("ACCEPT") = {"ACCEPT"} /\ Bits("MARKET_ACCEPT") = {"MARKET_ACCEPT"}
        /\ Bits("CANCELED") = {"CANCELED", "CLOSED"}
        /\ "ACCEPT" \notin Closing /\ "MARKET_ACCEPT" \notin Closing
        /\ {"CANCELED", "CLOSED"} \subseteq Closing
        /\ "CANCELED" \in Final /\ "ACCEPT" \notin Final
        /\ "MARKET_ACCEPT" \notin Final /\ {"CANCELED", "CLOSED"} \subseteq AllBits
    BY DEF Bits, Final, Closing, AllBits
  <2>5. CASE cb.what = "Unknown"
    <3>1. Discard({}) \/ Report("ACCEPT", Bits("ACCEPT"), Vol)
      BY <1>6, <2>5 DEF OnRtnOrder
    <3>2. ~FinalEvent(cb)
      BY <2>1, <2>5 DEF FinalEvent
    <3> QED
      BY <1>3, <1>4, <1>5, <2>1, <2>2, <2>3, <2>4, <3>1, <3>2
  <2>6. CASE cb.what = "Canceled"
    <3>1. \/ Test(track[cb.ref].st, "CANCELED") /\ Discard({})
          \/ Report("CANCELED", Bits("CANCELED"), cb.vol)
      BY <1>6, <2>6 DEF OnRtnOrder
    <3>2. FinalEvent(cb) /\ Closes(cb)
      BY <2>1, <2>6 DEF FinalEvent, Closes
    <3>3. Test(track[cb.ref].st, "CANCELED") => track[cb.ref].st \cap Closing # {}
      BY <2>4 DEF Test
    <3> QED
      BY <1>3, <1>4, <1>5, <2>1, <2>2, <2>3, <2>4, <3>1, <3>2, <3>3
  <2>7. CASE cb.what \in {"NoTradeQueueing", "PartTradedQueueing", "AllTraded"}
    <3>1. \E c \in {{}, {"CLOSED"}} :
            /\ c # {} => cb.what = "AllTraded"
            /\ Discard(c) \/ Report("MARKET_ACCEPT", Bits("MARKET_ACCEPT") \cup c, Vol)
      BY <1>6, <2>7 DEF OnRtnOrder
    <3>2. PICK c \in {{}, {"CLOSED"}} :
            /\ c # {} => cb.what = "AllTraded"
            /\ Discard(c) \/ Report("MARKET_ACCEPT", Bits("MARKET_ACCEPT") \cup c, Vol)
      BY <3>1
    <3>3. c \subseteq AllBits /\ Bits("MARKET_ACCEPT") \cup c \subseteq AllBits
      BY <1>3, <2>3, <2>4
    <3>4. ~FinalEvent(cb) /\ (c # {} => Closes(cb))
      BY <2>1, <2>7, <3>2 DEF FinalEvent, Closes
    <3>5. CASE Discard(c)
      BY <1>5, <2>1, <3>3, <3>4, <3>5
    <3>6. CASE Report("MARKET_ACCEPT", Bits("MARKET_ACCEPT") \cup c, Vol)
      <4>1. (Bits("MARKET_ACCEPT") \cup c) \cap Closing # {} => Closes(cb)
        BY <2>4, <3>4
      <4> QED
        BY <1>4, <2>1, <2>2, <2>3, <2>4, <3>3, <3>4, <3>6, <4>1
    <3> QED
      BY <3>2, <3>5, <3>6
  <2> QED
    BY <1>6, <2>5, <2>6, <2>7 DEF OnRtnOrder
<1>7. CASE OnRtnTrade
  <2>1. cb.vol \in Nat /\ "EXECUTION" \in AllBits
    BY <1>1, OrderAssumption DEF EventType, AllBits
  <2>2. PICK c \in {{}, {"CLOSED"}} :
          /\ track' = [track EXCEPT ![cb.ref].st = (@ \cup {"EXECUTION"}) \cup c,
                                    ![cb.ref].traded = @ + cb.vol]
          /\ c # {} => track[cb.ref].traded + cb.vol >= track[cb.ref].vol
    BY <1>7 DEF OnRtnTrade
  <2>3. track'[cb.ref] =
          [st |-> (track[cb.ref].st \cup {"EXECUTION"}) \cup c,
           vol |-> track[cb.ref].vol,
           traded |-> track[cb.ref].traded + cb.vol,
           from |-> track[cb.ref].from, local |-> track[cb.ref].local]
    BY <1>2, <2>2 DEF TypeInv, EngineType, TrackType
  <2>4. track'[cb.ref] \in TrackType
    BY <1>2, <1>3, <2>1, <2>3 DEF TrackType
  <2>5. \A r \in Refs \ {cb.ref} : track'[r] = track[r]
    BY <2>2 DEF TypeInv, EngineType
  <2>6. track' \in [Refs -> TrackType]
    <3>1. track' = [r \in Refs |-> track'[r]]
      BY <2>2 DEF TypeInv, EngineType
    <3>2. \A r \in Refs : track'[r] \in TrackType
      BY <2>4, <2>5 DEF TypeInv, EngineType
    <3> QED
      BY <3>1, <3>2
  <2>7. acct' \in Int
    BY <1>7, <2>1 DEF OnRtnTrade, Freed, TypeInv, EngineType
  <2>8. /\ cb' = NoEvent /\ callbackUnchanged /\ cb.kind = "trade"
        /\ rtns' = Append(rtns, Rtn(cb.from, "EXECUTION", cb.local, cb.ref,
                                    cb.vol, front[cb.ref].oid))
    BY <1>7 DEF OnRtnTrade, Written
  <2>9. ~FinalEvent(cb) /\ "EXECUTION" \notin Final /\ "EXECUTION" \notin Closing
    BY <2>8 DEF FinalEvent, Final, Closing
  <2>10. track'[cb.ref].st \cap Closing # {} =>
           \/ track[cb.ref].st \cap Closing # {}
           \/ track'[cb.ref].traded >= track[cb.ref].vol
    <3>1. /\ track'[cb.ref].traded = track[cb.ref].traded + cb.vol
          /\ track'[cb.ref].st = (track[cb.ref].st \cup {"EXECUTION"}) \cup c
      BY <2>3
    <3>2. track'[cb.ref].st \cap Closing # {} =>
            track[cb.ref].st \cap Closing # {} \/ c # {}
      BY <2>9, <3>1
    <3> QED
      BY <2>2, <3>1, <3>2
  <2> QED
    BY <1>1, <2>1, <2>3, <2>5, <2>6, <2>7, <2>8, <2>9, <2>10 DEF Handled
<1>8. ASSUME NEW type \in {"REJECT", "MARKET_REJECT"}, InsertRejected(type)
      PROVE  Handled
  <2>1. type \in AllBits /\ Bits(type) \subseteq AllBits
    BY BitsType DEF AllBits, Final
  <2>2. track[cb.ref].vol \in Nat
    BY <1>2, OrderAssumption DEF TrackType
  <2> QED
    <3>1. FinalEvent(cb) /\ Closes(cb) /\ type \in Final /\ type # "EXECUTION"
      BY <1>8 DEF InsertRejected, FinalEvent, Closes, Final
    <3>2. Test(track[cb.ref].st, type) => track[cb.ref].st \cap Closing # {}
      BY <3>1 DEF Test, Bits, Closing
    <3> QED
      BY <1>3, <1>4, <1>5, <1>8, <2>1, <2>2, <3>1, <3>2 DEF InsertRejected
<1>9. ASSUME NEW by, ActionRejected(by)
      PROVE  Handled
  <2>1. "CANCEL_REJECT" \in AllBits /\ {"CANCEL_REJECT"} \subseteq AllBits
    BY DEF AllBits
  <2>2. track[cb.ref].vol \in Nat
    BY <1>2, OrderAssumption DEF TrackType
  <2> QED
    <3>1. /\ ~FinalEvent(cb) /\ "CANCEL_REJECT" \notin Final
          /\ "CANCEL_REJECT" \notin Closing
      BY <1>9 DEF ActionRejected, FinalEvent, Final, Closing
    <3> QED
      BY <1>4, <1>9, <2>1, <2>2, <3>1 DEF ActionRejected
<1> QED
  BY <1>6, <1>7, <1>8, <1>9
  DEF Handlers, OnRspOrderInsert, OnErrRtnOrderInsert, OnRspOrderAction,
      OnErrRtnOrderAction

-----------------------------------------------------------------------------
(* What every step of the front does: one order that was sent changes, but *)
(* not its number, and events about it are due.                            *)
Fronted(r, es) ==
  /\ frontOnly
  /\ front' \in [Refs -> FrontType]
  /\ \A q \in Refs \ {r} : front'[q] = front[q]
  /\ front[r].st # "none" /\ front'[r].st # "none"
  /\ front'[r].oid = front[r].oid
  /\ es \in Seq(EventType) /\ evq' = evq \o es
  /\ \A k \in DOMAIN es : es[k].ref = r
  /\ ntrade' \in Nat /\ dups' \in 0 .. MaxDups

(* A queue of one event. *)
LEMMA OneEvent ==
  ASSUME NEW e \in EventType, NEW s \in Seq(EventType)
  PROVE  /\ <<e>> \in Seq(EventType) /\ DOMAIN <<e>> = {1} /\ <<e>>[1] = e
         /\ Append(s, e) = s \o <<e>>
OBVIOUS

(* Every step of the front adds one event or two. *)
LEMMA FrontedEffect ==
  ASSUME TypeInv, FreshInv, Front
  PROVE  \E r \in Refs : \E es \in Seq(EventType) : Fronted(r, es)
<1>1. /\ MaxOrders \in Nat /\ Vol \in Nat \ {0} /\ 0 \in 0 .. Vol /\ 1 \in 0 .. Vol
      /\ MaxDups \in Nat
  BY OrderAssumption
<1>2. /\ front \in [Refs -> FrontType] /\ evq \in Seq(EventType)
      /\ ntrade \in Nat /\ dups \in 0 .. MaxDups
  BY DEF TypeInv, FrontTypes
<1>3. ASSUME NEW r \in Refs, NEW from, NEW to, NEW e \in EventType,
             e.ref = r, FrontMoves(r, from, to, <<e>>),
             from \in {"sent", "accepted"}, to \in {"accepted", "queued", "closed"}
      PROVE  Fronted(r, <<e>>)
  <2>1. front' = [front EXCEPT ![r].st = to] /\ front[r].st = from
    BY <1>3 DEF FrontMoves
  <2>2. front' \in [Refs -> FrontType]
    <3>1. /\ front'[r] = [st |-> to, traded |-> front[r].traded,
                           cxl |-> front[r].cxl, oid |-> front[r].oid]
          /\ front' = [q \in Refs |-> front'[q]]
          /\ \A q \in Refs \ {r} : front'[q] = front[q]
      BY <1>2, <2>1 DEF FrontType
    <3>2. front'[r] \in FrontType
      BY <1>1, <1>2, <1>3, <3>1 DEF FrontType
    <3> QED
      BY <1>2, <3>1, <3>2
  <2>3. /\ \A q \in Refs \ {r} : front'[q] = front[q]
        /\ front[r].st # "none" /\ front'[r].st # "none"
        /\ front'[r].oid = front[r].oid
    BY <1>2, <1>3, <2>1 DEF FrontType
  <2>4. /\ evq' = evq \o <<e>> /\ frontOnly
        /\ ntrade' \in Nat /\ dups' \in 0 .. MaxDups
    BY <1>2, <1>3 DEF FrontMoves
  <2> QED
    BY <1>2, <1>3, <2>2, <2>3, <2>4, OneEvent DEF Fronted
<1>4. ASSUME NEW r \in Refs, Answers(r)
      PROVE  \E es \in Seq(EventType) : Fronted(r, es)
  <2>1. CASE FrontAccepts(r)
    <3>1. PICK e : e = Event("order", r, "Unknown", 0, 0)
      OBVIOUS
    <3>2. e \in EventType /\ e.ref = r
      BY <1>1, <3>1 DEF Event, EventType
    <3>3. Fronted(r, <<e>>)
      BY <1>3, <2>1, <3>1, <3>2 DEF FrontAccepts
    <3> QED
      BY <3>2, <3>3, <1>2, OneEvent
  <2>2. CASE FrontRejects(r)
    <3>1. PICK e : e = Event("reject", r, "REJECT", 0, 0)
      OBVIOUS
    <3>2. e \in EventType /\ e.ref = r
      BY <1>1, <3>1 DEF Event, EventType
    <3>3. Fronted(r, <<e>>)
      BY <1>3, <2>2, <3>1, <3>2 DEF FrontRejects
    <3> QED
      BY <3>2, <3>3, <1>2, OneEvent
  <2>3. CASE MarketRejects(r)
    <3>1. PICK e : e = Event("reject", r, "MARKET_REJECT", 0, 0)
      OBVIOUS
    <3>2. e \in EventType /\ e.ref = r
      BY <1>1, <3>1 DEF Event, EventType
    <3>3. Fronted(r, <<e>>)
      BY <1>3, <2>3, <3>1, <3>2 DEF MarketRejects
    <3> QED
      BY <3>2, <3>3, <1>2, OneEvent
  <2>4. CASE MarketQueues(r)
    <3>1. PICK e : e = Event("order", r, "NoTradeQueueing", 0, 0)
      OBVIOUS
    <3>2. e \in EventType /\ e.ref = r
      BY <1>1, <3>1 DEF Event, EventType
    <3>3. Fronted(r, <<e>>)
      BY <1>3, <2>4, <3>1, <3>2 DEF MarketQueues
    <3> QED
      BY <3>2, <3>3, <1>2, OneEvent
  <2>5. CASE MarketCancels(r)
    <3>1. PICK e : e = Event("order", r, "Canceled", Vol - front[r].traded, 0)
      OBVIOUS
    <3>2. Vol - front[r].traded \in 0 .. Vol
      BY <1>1, <1>2 DEF FrontType
    <3>3. e \in EventType /\ e.ref = r
      BY <1>1, <3>1, <3>2 DEF Event, EventType
    <3>4. /\ front[r].st = "queued"
          /\ front' = [front EXCEPT ![r].st = "closed", ![r].cxl = FALSE]
      BY <2>5 DEF MarketCancels
    <3>5. /\ front'[r] = [st |-> "closed", traded |-> front[r].traded,
                           cxl |-> FALSE, oid |-> front[r].oid]
          /\ front' = [q \in Refs |-> front'[q]]
          /\ \A q \in Refs \ {r} : front'[q] = front[q]
      BY <1>2, <3>4 DEF FrontType
    <3>6. /\ front'[r] \in FrontType
          /\ front'[r].st # "none" /\ front'[r].oid = front[r].oid
      BY <1>1, <1>2, <3>5 DEF FrontType
    <3>7. front' \in [Refs -> FrontType]
      BY <1>2, <3>5, <3>6
    <3>8. /\ evq' = evq \o <<e>> /\ frontOnly
          /\ ntrade' \in Nat /\ dups' \in 0 .. MaxDups
      BY <1>2, <2>5, <3>1, <3>3, OneEvent DEF MarketCancels
    <3>9. \A q \in Refs \ {r} : front'[q] = front[q]
      BY <3>5
    <3>10. front[r].st # "none"
      BY <3>4
    <3>11. Fronted(r, <<e>>)
      BY <1>2, <3>3, <3>6, <3>7, <3>8, <3>9, <3>10, OneEvent DEF Fronted
    <3> QED
      BY <1>2, <3>3, <3>11, OneEvent
  <2>6. CASE CancelRefused(r)
    <3>1. PICK by \in {"front", "market"} :
            evq' = Append(evq, Event("action", r, by, 0, 0))
      BY <2>6 DEF CancelRefused
    <3>2. PICK e : e = Event("action", r, by, 0, 0)
      OBVIOUS
    <3>3. e \in EventType /\ e.ref = r
      BY <1>1, <3>2 DEF Event, EventType
    <3>4. front[r].st # "none"
      BY <2>6 DEF CancelRefused, FreshInv, NoOrder
    <3>5. front' = [front EXCEPT ![r].cxl = FALSE]
      BY <2>6 DEF CancelRefused
    <3>6. /\ front' \in [Refs -> FrontType]
          /\ \A q \in Refs \ {r} : front'[q] = front[q]
          /\ front'[r].st = front[r].st /\ front'[r].oid = front[r].oid
      BY <1>2, <3>5 DEF FrontType
    <3>7. /\ evq' = evq \o <<e>> /\ frontOnly
          /\ ntrade' \in Nat /\ dups' \in 0 .. MaxDups
      BY <1>2, <2>6, <3>1, <3>2, <3>3, OneEvent DEF CancelRefused
    <3> QED
      BY <3>3, <3>4, <3>6, <3>7, OneEvent, <1>2 DEF Fronted
  <2> QED
    BY <1>4, <2>1, <2>2, <2>3, <2>4, <2>5, <2>6 DEF Answers
<1>5. ASSUME NEW r \in Refs, TradeAgain(r)
      PROVE  \E es \in Seq(EventType) : Fronted(r, es)
  <2>1. PICK e : e = Event("trade", r, "Trade", 1, Head(seen[r]))
    OBVIOUS
  <2>2. Head(seen[r]) \in Nat /\ seen[r] # <<>>
    BY <1>5 DEF TradeAgain, TypeInv, EngineType
  <2>3. e \in EventType /\ e.ref = r
    BY <1>1, <2>1, <2>2 DEF Event, EventType
  <2>4. front[r].st # "none"
    BY <2>2 DEF FreshInv
  <2>5. evq' = evq \o <<e>> /\ frontOnly /\ front' = front
    BY <1>2, <1>5, <2>1, <2>3, OneEvent DEF TradeAgain
  <2>6. ntrade' \in Nat /\ dups' \in 0 .. MaxDups
    BY <1>1, <1>2, <1>5 DEF TradeAgain
  <2> QED
    BY <1>2, <2>3, <2>4, <2>5, <2>6, OneEvent DEF Fronted
<1>6. ASSUME NEW r \in Refs, NEW n \in 1 .. Vol, MarketTrades(r, n)
      PROVE  \E es \in Seq(EventType) : Fronted(r, es)
  <2>1. PICK what \in {"AllTraded", "PartTradedQueueing"} :
          evq' = evq \o <<Event("order", r, what, 0, 0),
                          Event("trade", r, "Trade", n, ntrade + 1)>>
    BY <1>6 DEF MarketTrades
  <2>2. PICK d, e : /\ d = Event("order", r, what, 0, 0)
                    /\ e = Event("trade", r, "Trade", n, ntrade + 1)
    OBVIOUS
  <2>3. d \in EventType /\ d.ref = r /\ e \in EventType /\ e.ref = r
    <3>1. n \in 0 .. Vol /\ ntrade + 1 \in Nat
      BY <1>1, <1>2
    <3>2. d \in EventType /\ d.ref = r
      BY <1>1, <2>2 DEF Event, EventType
    <3>3. e \in EventType /\ e.ref = r
      BY <1>1, <2>2, <3>1 DEF Event, EventType
    <3> QED
      BY <3>2, <3>3
  <2>4. /\ <<d, e>> \in Seq(EventType)
        /\ \A k \in DOMAIN <<d, e>> : <<d, e>>[k].ref = r
    BY <2>3
  <2>5. PICK to \in {"closed", "queued"} :
          front' = [front EXCEPT ![r].traded = @ + n, ![r].st = to]
    BY <1>6 DEF MarketTrades
  <2>6. /\ front'[r] = [st |-> to, traded |-> front[r].traded + n,
                         cxl |-> front[r].cxl, oid |-> front[r].oid]
        /\ front' = [q \in Refs |-> front'[q]]
        /\ \A q \in Refs \ {r} : front'[q] = front[q]
    BY <1>2, <2>5 DEF FrontType
  <2>7. front[r].st = "queued" /\ front[r].traded + n \in 0 .. Vol
    BY SMTT(30), <1>1, <1>2, <1>6 DEF MarketTrades, FrontType
  <2>8. /\ front'[r] \in FrontType
        /\ front'[r].st # "none" /\ front'[r].oid = front[r].oid
    BY <1>1, <1>2, <2>6, <2>7 DEF FrontType
  <2>10. front' \in [Refs -> FrontType]
    BY <1>2, <2>6, <2>8
  <2>9. ntrade' \in Nat /\ dups' \in 0 .. MaxDups /\ frontOnly
    BY <1>2, <1>6 DEF MarketTrades
  <2> QED
    BY <2>1, <2>2, <2>4, <2>6, <2>7, <2>8, <2>9, <2>10 DEF Fronted
<1> QED
  BY <1>4, <1>5, <1>6 DEF Front

-----------------------------------------------------------------------------
(* The tracks the helper takes over are tracks that were filled. *)
LEMMA OwnFacts ==
  ASSUME TypeInv
  PROVE  /\ \E n \in 0 .. reqId - 1 :
              OwnTracks(reqId) = [i \in 1 .. n |-> OwnTracks(reqId)[i]]
         /\ \A i \in DOMAIN OwnTracks(reqId) :
              /\ OwnTracks(reqId)[i] \in Refs
              /\ OwnTracks(reqId)[i] < reqId
<1> DEFINE own == {r \in Refs : r < reqId /\ track[r].from}
           n == Cardinality(own)
<1>1. own \subseteq 1 .. reqId - 1 /\ reqId \in Nat \ {0}
  BY OrderAssumption DEF Refs, TypeInv, EngineType
<1>2. IsFiniteSet(own) /\ n \in 0 .. reqId - 1
  <2>1. PICK T : T = 1 .. reqId - 1
    OBVIOUS
  <2>2. IsFiniteSet(T) /\ Cardinality(T) = reqId - 1
    BY <1>1, <2>1, FS_Interval
  <2>3. own \in SUBSET T
    BY <1>1, <2>1
  <2>4. IsFiniteSet(own) /\ n <= Cardinality(T)
    BY <2>2, <2>3, FS_Subset
  <2>5. n \in Nat
    BY <2>4, FS_CardinalityType
  <2> HIDE DEF n, own
  <2> QED
    BY <1>1, <2>2, <2>4, <2>5
<1>3. OwnTracks(reqId) =
        [i \in 1 .. n |-> CHOOSE r \in own : Cardinality({q \in own : q <= r}) = i]
  BY DEF OwnTracks
<1>4. ASSUME NEW i \in 1 .. n
      PROVE  OwnTracks(reqId)[i] \in own
  <2>1. \A r \in own : r \in Int
    BY <1>1
  <2>2. PICK s : s = own
    OBVIOUS
  <2>3. \E r \in s : Cardinality({q \in s : q <= r}) = i
    <3>1. i \in 1 .. Cardinality(s) /\ IsFiniteSet(s) /\ \A r \in s : r \in Int
      BY <1>2, <2>1, <2>2
    <3> QED
      BY <3>1, RankExists
  <2> QED
    BY ZenonT(60), <1>3, <2>2, <2>3
<1> QED
  BY <1>2, <1>3, <1>4

(* The steps of the helper. *)
LEMMA HelperTypeStep ==
  ASSUME BaseInv, Helper
  PROVE  TypeInv'
<1> USE OrderAssumption
<1>1. HelperType /\ EngineType /\ FrontTypes
  BY DEF BaseInv, TypeInv
<1>2. EngineType' /\ FrontTypes'
  <2>1. UNCHANGED <<reqId, epc, ecmd, eold, cb, track, seen, acct>>
    BY DEF Helper, SendOrder, GetRtn, DeleteOrder, HelperStop, HelperReader,
           HelperQuery, engineVars
  <2>2. UNCHANGED <<front, evq, ntrade, dups>>
    BY DEF Helper, SendOrder, GetRtn, DeleteOrder, HelperStop, HelperReader,
           HelperQuery, frontVars
  <2> QED
    BY <1>1, <2>1, <2>2 DEF EngineType, FrontTypes
<1>3. Refs = 1 .. MaxOrders /\ MaxOrders \in Nat
  BY DEF Refs
<1>4. CASE SendOrder
  <2>1. sent + 1 \in 1 .. MaxOrders /\ sent' \in 0 .. MaxOrders
    BY <1>1, <1>4 DEF SendOrder, HelperType
  <2>2. ots' \in Seq(OtType)
    <3>1. [oid |-> sent + 1, st |-> {"SEND"}, traded |-> 0, ref |-> -1] \in OtType
      BY <2>1 DEF OtType, AllBits
    <3> QED
      BY <1>1, <1>4, <3>1, AppendFacts DEF SendOrder, HelperType
  <2>3. cmds' \in Seq(CmdType)
    <3>1. Len(ots) + 1 \in 1 .. MaxOrders
      BY <1>1, <1>4, <2>1 DEF SendOrder, HelperType, BaseInv, CmdInv
    <3>2. InsertCmd(sent + 1, Len(ots) + 1) \in CmdType
      BY <2>1, <3>1 DEF InsertCmd, CmdType
    <3> QED
      BY <1>1, <1>4, <3>2, AppendFacts DEF SendOrder, HelperType
  <2> QED
    BY <1>1, <1>2, <1>4, <2>1, <2>2, <2>3 DEF SendOrder, HelperType, TypeInv
<1>5. CASE GetRtn
  <2>1. Head(rtns) \in RtnType /\ rtns' \in Seq(RtnType)
    BY <1>1, <1>5, TailFacts DEF GetRtn, HelperType
  <2>2. ots' \in Seq(OtType)
    <3>1. CASE ots' = ots
      BY <1>1, <3>1 DEF HelperType
    <3>2. CASE ots' # ots
      <4>1. PICK m : m = Head(rtns)
        OBVIOUS
      <4>2. /\ m.local \in DOMAIN ots
            /\ ots' = [ots EXCEPT ![m.local] = Updated(ots[m.local], m)]
        BY <1>5, <3>2, <4>1 DEF GetRtn
      <4>3. ots[m.local] \in OtType
        BY <1>1, <4>2 DEF HelperType
      <4>4. Updated(ots[m.local], m) \in OtType
        <5>1. m.type \in AllBits /\ m.vol \in Nat /\ m.ref \in Refs \cup {-1}
          BY <2>1, <4>1 DEF RtnType
        <5>2. Bits(m.type) \subseteq AllBits /\ {"CLOSED"} \subseteq AllBits
          BY <5>1, BitsType DEF AllBits
        <5> QED
          BY <4>3, <5>1, <5>2 DEF Updated, OtType
      <4> QED
        BY <1>1, <4>2, <4>4 DEF HelperType
    <3> QED
      BY <3>1, <3>2
  <2> QED
    BY <1>1, <1>2, <1>5, <2>1, <2>2 DEF GetRtn, HelperType, TypeInv
<1>6. ASSUME NEW i \in DOMAIN ots, DeleteOrder(i)
      PROVE  TypeInv'
  <2>1. ots[i] \in OtType /\ i \in 1 .. Len(ots) /\ ots[i].ref \in Refs
    <3>1. ots[i] \in OtType /\ i \in 1 .. Len(ots)
      BY <1>1 DEF HelperType
    <3>2. ots[i].ref >= 0
      BY <1>6 DEF DeleteOrder, Cancellable
    <3> QED
      BY <3>1, <3>2 DEF OtType
  <2>2. ots' \in Seq(OtType)
    <3>1. [ots[i] EXCEPT !.st = @ \cup {"CXLING"}] \in OtType
      BY <2>1 DEF OtType, AllBits
    <3> QED
      BY <1>1, <1>6, <2>1, <3>1 DEF DeleteOrder, HelperType
  <2>3. cmds' \in Seq(CmdType)
    <3>1. i \in 1 .. MaxOrders
      BY <1>1, <2>1 DEF HelperType, BaseInv, CmdInv
    <3>2. CancelCmd(ots[i], i) \in CmdType
      BY <2>1, <3>1 DEF CancelCmd, CmdType, OtType
    <3> QED
      BY <1>1, <1>6, <3>2, AppendFacts DEF DeleteOrder, HelperType
  <2>4. cancels' \in 0 .. MaxCancels
    BY SMTT(30), <1>1, <1>6 DEF DeleteOrder, HelperType
  <2> QED
    BY <1>1, <1>2, <1>6, <2>2, <2>3, <2>4 DEF DeleteOrder, HelperType, TypeInv
<1>7. CASE HelperStop
  BY <1>1, <1>2, <1>7 DEF HelperStop, HelperType, TypeInv
<1>8. CASE HelperReader
  BY <1>1, <1>2, <1>8 DEF HelperReader, HelperType, TypeInv
<1>9. CASE HelperQuery
  <2> DEFINE own == OwnTracks(reqId)
  <2>1. PICK n \in 0 .. reqId - 1 : own = [i \in 1 .. n |-> own[i]]
    BY OwnFacts DEF BaseInv
  <2>2. \A i \in 1 .. n : own[i] \in Refs /\ own[i] < reqId
    BY <2>1, OwnFacts DEF BaseInv
  <2> HIDE DEF own
  <2>3. ots' = [i \in 1 .. n |->
                  [oid |-> front[own[i]].oid, st |-> track[own[i]].st,
                   traded |-> track[own[i]].traded, ref |-> own[i]]]
    BY <1>9, <2>1 DEF HelperQuery, QryOrderTrack, own
  <2>4. ASSUME NEW r \in Refs, r < reqId
        PROVE  [oid |-> front[r].oid, st |-> track[r].st,
                traded |-> track[r].traded, ref |-> r] \in OtType
    <3>1. front[r].oid \in 1 .. MaxOrders
      BY <1>1, <2>4 DEF BaseInv, FreshInv, Begun, HelperType
    <3> QED
      BY <1>1, <3>1 DEF EngineType, TrackType, OtType
  <2>5. \A i \in 1 .. n : ots'[i] \in OtType
    BY <2>2, <2>3, <2>4
  <2>6. ots' \in Seq(OtType)
    BY <2>3, <2>5
  <2> QED
    BY <1>1, <1>2, <1>9, <2>6 DEF HelperQuery, HelperType, TypeInv
<1> QED
  BY <1>4, <1>5, <1>6, <1>7, <1>8, <1>9 DEF Helper

(* The steps of the listening thread. *)
LEMMA ListeningTypeStep ==
  ASSUME BaseInv, Listening
  PROVE  TypeInv'
<1> USE OrderAssumption
<1>1. HelperType /\ EngineType /\ FrontTypes
  BY DEF BaseInv, TypeInv
<1>2. UNCHANGED <<hup, ots, sent, cancels, restarts>>
  BY DEF Listening, TakeCmd, InsertFails, InsertSent, FillOrder, FillFrom,
         InsertAck, OnNewLoad, OnNewStore, CancelFails, CancelSent,
         CxlingLoad, CxlingStore, helperVars
<1>3. Refs = 1 .. MaxOrders /\ MaxOrders \in Nat
  BY DEF Refs
<1>4. epc \in Inserting => ecmd \in CmdType /\ reqId \in Refs
  <2>1. epc \in Inserting =>
          ecmd.cmd = "insert" /\ reqId <= ecmd.oid /\ ecmd.oid <= sent
    BY DEF BaseInv, CmdInv
  <2>2. epc \in Inserting => ecmd \in CmdType
    BY <1>1, <2>1 DEF EngineType, NoCmd
  <2>3. ecmd \in CmdType => ecmd.oid \in 1 .. MaxOrders
    BY DEF CmdType
  <2>4. epc \in Inserting => reqId \in 1 .. MaxOrders
    BY <1>1, <1>3, <2>1, <2>2, <2>3 DEF EngineType
  <2> QED
    BY <1>3, <2>2, <2>4
<1>5. epc \in Canceling => ecmd \in CmdType /\ ecmd.ref \in Refs
  <2>1. epc \in Canceling => ecmd.cmd = "cancel"
    BY DEF BaseInv, CmdInv
  <2> QED
    BY <1>1, <2>1 DEF EngineType, CmdType, NoCmd
<1>6. ASSUME NEW m \in RtnType, rtns' = Append(rtns, m)
      PROVE  rtns' \in Seq(RtnType)
  BY <1>1, <1>6, AppendFacts DEF HelperType
<1>7. \A type \in {"ERR", "TDSEND", "CANCEL_REJECT"} : type \in AllBits
  BY DEF AllBits, Final
<1>8. CASE TakeCmd
  <2>1. Head(cmds) \in CmdType /\ cmds' \in Seq(CmdType)
    BY <1>1, <1>8, TailFacts DEF TakeCmd, HelperType
  <2>2. epc' \in {"insert", "cancel"}
    BY <1>8, <2>1 DEF TakeCmd, CmdType
  <2>3. HelperType'
    BY <1>1, <1>2, <1>8, <2>1 DEF TakeCmd, HelperType
  <2> QED
    BY <1>1, <1>8, <2>1, <2>2, <2>3
    DEF TakeCmd, EngineType, FrontTypes, frontVars, TypeInv
<1>9. CASE InsertFails
  <2>1. Rtn(TRUE, "ERR", ecmd.local, -1, Vol, ecmd.oid) \in RtnType
    BY <1>3, <1>4, <1>7, <1>9 DEF InsertFails, Rtn, RtnType, CmdType, Inserting
  <2>2. HelperType'
    BY <1>1, <1>2, <1>6, <1>9, <2>1 DEF InsertFails, Written, HelperType
  <2> QED
    BY <1>1, <1>9, <2>2
    DEF InsertFails, EngineType, FrontTypes, frontVars, TypeInv
<1>10. CASE InsertSent
  <2>1. [st |-> "sent", traded |-> 0, cxl |-> FALSE, oid |-> ecmd.oid] \in FrontType
    BY <1>3, <1>4, <1>10 DEF InsertSent, FrontType, CmdType, Inserting
  <2>2. front' \in [Refs -> FrontType]
    BY <1>1, <1>10, <2>1 DEF InsertSent, FrontTypes
  <2> QED
    BY <1>1, <1>2, <1>10, <2>2
    DEF InsertSent, HelperType, EngineType, FrontTypes, TypeInv
<1>11. CASE FillOrder
  <2>1. reqId \in Refs /\ track[reqId] \in TrackType
    BY <1>1, <1>4, <1>11 DEF FillOrder, Inserting, EngineType
  <2>2. /\ track' = [r \in Refs |-> track'[r]]
        /\ \A r \in Refs \ {reqId} : track'[r] = track[r]
        /\ track'[reqId] = [st |-> {"TDSEND"}, vol |-> Vol, traded |-> 0,
                            from |-> track[reqId].from,
                            local |-> track[reqId].local]
    BY <1>1, <1>11, <2>1 DEF FillOrder, EngineType, TrackType
  <2>3. track'[reqId] \in TrackType
    BY <1>7, <2>1, <2>2 DEF TrackType
  <2>4. track' \in [Refs -> TrackType]
    BY <1>1, <2>2, <2>3 DEF EngineType
  <2> QED
    BY <1>1, <1>2, <1>11, <2>4
    DEF FillOrder, HelperType, EngineType, FrontTypes, frontVars, TypeInv
<1>12. CASE FillFrom
  <2>1. reqId \in Refs /\ track[reqId] \in TrackType /\ ecmd \in CmdType
    BY <1>1, <1>4, <1>12 DEF FillFrom, Inserting, EngineType
  <2>2. /\ track' = [r \in Refs |-> track'[r]]
        /\ \A r \in Refs \ {reqId} : track'[r] = track[r]
        /\ track'[reqId] = [st |-> track[reqId].st, vol |-> track[reqId].vol,
                            traded |-> track[reqId].traded, from |-> TRUE,
                            local |-> ecmd.local]
    BY <1>1, <1>12, <2>1 DEF FillFrom, EngineType, TrackType
  <2>3. track'[reqId] \in TrackType
    BY <1>3, <2>1, <2>2 DEF TrackType, CmdType
  <2>4. track' \in [Refs -> TrackType]
    BY <1>1, <2>2, <2>3 DEF EngineType
  <2> QED
    BY <1>1, <1>2, <1>12, <2>4
    DEF FillFrom, HelperType, EngineType, FrontTypes, frontVars, TypeInv
<1>13. CASE InsertAck
  <2>1. Rtn(TRUE, "TDSEND", ecmd.local, reqId, Vol, ecmd.oid) \in RtnType
    BY <1>3, <1>4, <1>7, <1>13 DEF InsertAck, Rtn, RtnType, CmdType, Inserting
  <2>2. HelperType'
    BY <1>1, <1>2, <1>6, <1>13, <2>1 DEF InsertAck, Written, HelperType
  <2>3. reqId' \in 1 .. MaxOrders + 1
    BY <1>1, <1>3, <1>4, <1>13 DEF InsertAck, Inserting
  <2> QED
    BY <1>1, <1>13, <2>2, <2>3
    DEF InsertAck, EngineType, FrontTypes, frontVars, TypeInv
<1>14. CASE OnNewLoad
  <2>1. eold' \in [st: SUBSET AllBits, n: Int]
    <3>1. acct \in Int /\ eold \in [st: SUBSET AllBits, n: Int]
      BY <1>1 DEF EngineType
    <3>2. eold' = [st |-> eold.st, n |-> acct]
      BY <1>14, <3>1 DEF OnNewLoad
    <3> QED
      BY <3>1, <3>2
  <2> QED
    BY <1>1, <1>2, <1>14, <2>1
    DEF OnNewLoad, HelperType, EngineType, FrontTypes, frontVars, TypeInv
<1>15. CASE OnNewStore
  <2>1. eold' \in [st: SUBSET AllBits, n: Int] /\ acct' \in Int
    <3>1. acct \in Int /\ eold \in [st: SUBSET AllBits, n: Int]
      BY <1>1 DEF EngineType
    <3>2. eold' = [st |-> eold.st, n |-> 0]
      BY <1>15, <3>1 DEF OnNewStore
    <3>3. acct' = eold.n + Vol /\ eold.n \in Int /\ eold.st \in SUBSET AllBits
      BY <1>15, <3>1 DEF OnNewStore
    <3> QED
      BY <3>2, <3>3
  <2> QED
    BY <1>1, <1>2, <1>15, <2>1
    DEF OnNewStore, HelperType, EngineType, FrontTypes, frontVars, TypeInv
<1>16. CASE CancelFails
  <2>1. Rtn(TRUE, "CANCEL_REJECT", ecmd.local, ecmd.ref, 0, ecmd.oid) \in RtnType
    BY <1>3, <1>5, <1>7, <1>16 DEF CancelFails, Rtn, RtnType, CmdType, Canceling
  <2>2. HelperType'
    BY <1>1, <1>2, <1>6, <1>16, <2>1 DEF CancelFails, Written, HelperType
  <2> QED
    BY <1>1, <1>16, <2>2
    DEF CancelFails, EngineType, FrontTypes, frontVars, TypeInv
<1>17. CASE CancelSent
  <2>1. ecmd.ref \in Refs
    BY <1>5, <1>17 DEF CancelSent, Canceling
  <2>2. [front[ecmd.ref] EXCEPT !.cxl = TRUE] \in FrontType
    BY <1>1, <2>1 DEF FrontTypes, FrontType
  <2>3. front' \in [Refs -> FrontType]
    BY <1>1, <1>17, <2>1, <2>2 DEF CancelSent, FrontTypes
  <2> QED
    BY <1>1, <1>2, <1>17, <2>3
    DEF CancelSent, HelperType, EngineType, FrontTypes, TypeInv
<1>18. CASE CxlingLoad
  <2>1. track[ecmd.ref].st \in SUBSET AllBits
    BY <1>1, <1>5, <1>18 DEF CxlingLoad, Canceling, EngineType, TrackType
  <2> QED
    BY <1>1, <1>2, <1>18, <2>1
    DEF CxlingLoad, HelperType, EngineType, FrontTypes, frontVars, TypeInv
<1>19. CASE CxlingStore
  <2>1. ecmd.ref \in Refs
    BY <1>5, <1>19 DEF CxlingStore, Canceling
  <2>2. eold.st \cup {"CXLING"} \in SUBSET AllBits
    BY <1>1 DEF EngineType, AllBits
  <2>3. [track[ecmd.ref] EXCEPT !.st = eold.st \cup {"CXLING"}] \in TrackType
    BY ZenonT(60), <1>1, <2>1, <2>2 DEF EngineType, TrackType
  <2>4. track' \in [Refs -> TrackType]
    BY <1>1, <1>19, <2>1, <2>3 DEF CxlingStore, EngineType
  <2>5. eold' \in [st: SUBSET AllBits, n: Int]
    BY <1>1, <1>19 DEF CxlingStore, EngineType
  <2> QED
    BY <1>1, <1>2, <1>19, <2>4, <2>5
    DEF CxlingStore, HelperType, EngineType, FrontTypes, frontVars, TypeInv
<1> QED
  BY <1>8, <1>9, <1>10, <1>11, <1>12, <1>13, <1>14, <1>15, <1>16, <1>17,
     <1>18, <1>19 DEF Listening

(* The beginning of a callback. *)
LEMMA KeepFacts ==
  ASSUME NEW r \in Refs, seen[r] \in Seq(Nat), NEW id \in Nat
  PROVE  /\ Keep(r, id) \in Seq(Nat) /\ Len(Keep(r, id)) <= FilterLen
         /\ Keep(r, id) # <<>> /\ Keep(r, id)[1] = id
         /\ \A i \in DOMAIN Keep(r, id) :
              \/ Keep(r, id)[i] = id
              \/ \E j \in DOMAIN seen[r] : Keep(r, id)[i] = seen[r][j]
<1> DEFINE s == <<id>> \o seen[r]
<1>1. FilterLen \in Nat \ {0}
  BY OrderAssumption
<1>2. <<id>> \in Seq(Nat) /\ Len(<<id>>) = 1 /\ DOMAIN <<id>> = {1} /\ <<id>>[1] = id
  OBVIOUS
<1>3. /\ s \in Seq(Nat) /\ Len(s) = 1 + Len(seen[r]) /\ DOMAIN s = 1 .. Len(s)
      /\ s[1] = id /\ Len(seen[r]) \in Nat
      /\ \A k \in DOMAIN s : k = 1 \/ (k - 1 \in DOMAIN seen[r] /\ s[k] = seen[r][k - 1])
  <2> HIDE DEF s
  <2>1. s = <<id>> \o seen[r]
    BY DEF s
  <2> QED
    BY <1>2, <2>1, ConcatFacts
<1>4. Keep(r, id) = IF Len(s) > FilterLen THEN SubSeq(s, 1, FilterLen) ELSE s
  BY DEF Keep, s
<1> HIDE DEF s
<1>5. CASE Len(s) > FilterLen
  <2>1. Keep(r, id) = SubSeq(s, 1, FilterLen)
    BY <1>4, <1>5
  <2>2. 1 \in 1 .. Len(s) + 1 /\ FilterLen \in 1 .. Len(s)
    BY <1>1, <1>3, <1>5
  <2>3. /\ SubSeq(s, 1, FilterLen) \in Seq(Nat)
        /\ Len(SubSeq(s, 1, FilterLen)) = FilterLen
    BY <1>1, <1>3, <2>2
  <2>4. \A k \in 1 .. FilterLen : SubSeq(s, 1, FilterLen)[k] = s[k]
    BY <1>1, <1>3, <2>2
  <2>5. /\ DOMAIN Keep(r, id) = 1 .. FilterLen
        /\ Keep(r, id) \in Seq(Nat) /\ Len(Keep(r, id)) = FilterLen
    BY <2>1, <2>3
  <2>6. \A k \in 1 .. FilterLen : Keep(r, id)[k] = s[k]
    BY <2>1, <2>4
  <2>7. \A k \in 1 .. FilterLen : k \in DOMAIN s
    BY <1>1, <1>3, <1>5
  <2>8. 1 \in 1 .. FilterLen /\ Keep(r, id) # <<>>
    BY <1>1, <2>5
  <2>9. \A i \in DOMAIN Keep(r, id) :
          \/ Keep(r, id)[i] = id
          \/ \E j \in DOMAIN seen[r] : Keep(r, id)[i] = seen[r][j]
    BY ZenonT(60), <1>3, <2>5, <2>6, <2>7
  <2> QED
    BY <1>3, <2>5, <2>6, <2>8, <2>9
<1>6. CASE ~(Len(s) > FilterLen)
  <2>1. Keep(r, id) = s
    BY <1>4, <1>6
  <2>2. Len(s) <= FilterLen /\ s # <<>>
    BY <1>1, <1>3, <1>6
  <2> QED
    BY <1>3, <2>1, <2>2
<1> QED
  BY <1>5, <1>6

(* An event of which it is known whom to answer. *)
LEMMA BegunEvent ==
  ASSUME NEW e \in EventType, NEW f \in BOOLEAN, NEW l \in 0 .. MaxOrders,
         NEW b, b = [e EXCEPT !.from = f, !.local = l]
  PROVE  /\ b \in EventType /\ b.from = f /\ b.local = l
         /\ b.kind = e.kind /\ b.ref = e.ref /\ b.what = e.what
         /\ b.vol = e.vol /\ b.id = e.id
BY DEF EventType

(* The types are kept where a callback begins, ... *)
LEMMA BeginTypeStep ==
  ASSUME BaseInv, CallbackBegin
  PROVE  TypeInv'
<1> USE OrderAssumption
<1>1. HelperType /\ EngineType /\ FrontTypes
  BY DEF BaseInv, TypeInv
<1>2. PICK e : e = Head(evq)
  OBVIOUS
<1>3. e \in EventType /\ evq' \in Seq(EventType) /\ e.ref \in Refs
  <2>1. evq \in Seq(EventType) /\ evq # <<>> /\ evq' = Tail(evq)
    BY <1>1 DEF CallbackBegin, FrontTypes
  <2>2. e \in EventType /\ evq' \in Seq(EventType)
    BY <1>2, <2>1, TailFacts
  <2> QED
    BY <2>2 DEF EventType
<1>4. cb' \in EventType \cup {NoEvent}
  <2>1. track[e.ref].from \in BOOLEAN /\ track[e.ref].local \in 0 .. MaxOrders
    BY <1>1, <1>3 DEF EngineType, TrackType
  <2>3. [e EXCEPT !.from = track[e.ref].from, !.local = track[e.ref].local]
          \in EventType
    <3>1. PICK f, l : f = track[e.ref].from /\ l = track[e.ref].local
      OBVIOUS
    <3> QED
      BY <1>3, <2>1, <3>1 DEF EventType
  <2>4. \/ cb' = NoEvent
        \/ cb' = [e EXCEPT !.from = track[e.ref].from,
                           !.local = track[e.ref].local]
    BY <1>2 DEF CallbackBegin
  <2> QED
    BY <2>3, <2>4
<1>5. seen' \in [Refs -> Seq(Nat)] /\ \A r \in Refs : Len(seen'[r]) <= FilterLen
  <2>1. CASE seen' = seen
    BY <1>1, <2>1 DEF EngineType
  <2>2. CASE seen' = [seen EXCEPT ![e.ref] = Keep(e.ref, e.id)]
    <3>1. Keep(e.ref, e.id) \in Seq(Nat) /\ Len(Keep(e.ref, e.id)) <= FilterLen
      <4>1. seen[e.ref] \in Seq(Nat) /\ e.id \in Nat
        BY <1>1, <1>3 DEF EngineType, EventType
      <4> QED
        BY <1>3, <4>1, KeepFacts
    <3> QED
      BY <1>1, <1>3, <2>2, <3>1 DEF EngineType
  <2> QED
    BY <1>2, <2>1, <2>2 DEF CallbackBegin
<1>6. UNCHANGED <<hup, ots, sent, cancels, restarts, cmds, rtns, reqId, epc,
                  ecmd, eold, track, acct, front, ntrade, dups>>
  BY DEF CallbackBegin, helperVars
<1> QED
  BY <1>1, <1>3, <1>4, <1>5, <1>6
  DEF HelperType, EngineType, FrontTypes, TypeInv

(* ... by its handler, ... *)
LEMMA HandledTypeStep ==
  ASSUME BaseInv, Handled
  PROVE  TypeInv'
<1> USE OrderAssumption
<1>1. HelperType /\ EngineType /\ FrontTypes
  BY DEF BaseInv, TypeInv
<1>2. UNCHANGED <<hup, ots, sent, cancels, restarts, cmds, reqId, epc, ecmd,
                  eold, seen, front, evq, ntrade, dups>>
  BY DEF Handled, callbackUnchanged, helperVars, frontVars
<1>3. rtns' \in Seq(RtnType)
  <2>1. CASE rtns' = rtns
    BY <1>1, <2>1 DEF HelperType
  <2>2. ASSUME NEW type \in AllBits, NEW v \in Nat,
               rtns' = Append(rtns, Rtn(cb.from, type, cb.local, cb.ref, v,
                                        front[cb.ref].oid))
        PROVE  rtns' \in Seq(RtnType)
    <3>1. /\ cb.from \in BOOLEAN /\ cb.local \in 0 .. MaxOrders
          /\ cb.ref \in Refs
      BY DEF Handled, EventType
    <3>2. front[cb.ref].oid \in 0 .. MaxOrders
      BY <1>1, <3>1 DEF FrontTypes, FrontType
    <3>3. Rtn(cb.from, type, cb.local, cb.ref, v, front[cb.ref].oid) \in RtnType
      BY <3>1, <3>2 DEF Rtn, RtnType
    <3> QED
      BY <1>1, <2>2, <3>3, AppendFacts DEF HelperType
  <2> QED
    BY <2>1, <2>2 DEF Handled
<1>4. /\ cb' = NoEvent /\ acct' \in Int /\ track' \in [Refs -> TrackType]
  BY DEF Handled
<1> QED
  BY <1>1, <1>2, <1>3, <1>4 DEF HelperType, EngineType, FrontTypes, TypeInv

(* ... and by the front. *)
LEMMA FrontedTypeStep ==
  ASSUME BaseInv, NEW r \in Refs, NEW es \in Seq(EventType), Fronted(r, es)
  PROVE  TypeInv'
<1>1. HelperType /\ EngineType /\ FrontTypes
  BY DEF BaseInv, TypeInv
<1>2. UNCHANGED <<hup, ots, sent, cancels, restarts, cmds, rtns, reqId, epc,
                  ecmd, eold, cb, track, seen, acct>>
  BY DEF Fronted, frontOnly, helperVars, engineVars
<1>3. evq' \in Seq(EventType)
  BY <1>1, ConcatFacts DEF Fronted, FrontTypes
<1>4. front' \in [Refs -> FrontType] /\ ntrade' \in Nat /\ dups' \in 0 .. MaxDups
  BY DEF Fronted
<1> QED
  BY <1>1, <1>2, <1>3, <1>4 DEF HelperType, EngineType, FrontTypes, TypeInv

-----------------------------------------------------------------------------
(* Every step keeps the types. *)
LEMMA TypeStep ==
  ASSUME BaseInv, [Next]_vars
  PROVE  TypeInv'
<1>1. CASE Helper
  BY <1>1, HelperTypeStep
<1>2. CASE Listening
  BY <1>2, ListeningTypeStep
<1>3. CASE Callbacks
  <2>1. CallbackBegin \/ Handlers
    BY <1>3 DEF Callbacks, Handlers
  <2> QED
    BY <2>1, BeginTypeStep, HandledEffect, HandledTypeStep DEF BaseInv
<1>4. CASE Front
  BY <1>4, FrontedEffect, FrontedTypeStep DEF BaseInv
<1>5. CASE UNCHANGED vars
  BY <1>5 DEF vars, BaseInv, TypeInv, HelperType, EngineType, FrontTypes
<1> QED
  BY <1>1, <1>2, <1>3, <1>4, <1>5 DEF Next

(* Only the listening thread moves on, and only the helper and this thread *)
(* touch the commands.                                                     *)
LEMMA OthersKeep ==
  ASSUME BaseInv, Callbacks \/ Front \/ UNCHANGED vars
  PROVE  UNCHANGED <<hup, ots, sent, cancels, restarts, cmds, reqId, epc, ecmd,
                     eold>>
<1>1. CASE Callbacks
  <2>1. CallbackBegin \/ Handled
    BY <1>1, HandledEffect DEF Callbacks, Handlers, BaseInv
  <2> QED
    BY <2>1 DEF CallbackBegin, Handled, callbackUnchanged, helperVars
<1>2. CASE Front
  <2>1. PICK r \in Refs, es \in Seq(EventType) : Fronted(r, es)
    BY <1>2, FrontedEffect DEF BaseInv
  <2> QED
    BY <2>1 DEF Fronted, frontOnly, helperVars, engineVars
<1>3. CASE UNCHANGED vars
  BY <1>3 DEF vars
<1> QED
  BY <1>1, <1>2, <1>3

(* The steps of the helper leave the engine and the front alone. *)
LEMMA HelperKeeps ==
  ASSUME Helper
  PROVE  UNCHANGED <<reqId, epc, ecmd, eold, cb, track, seen, acct, front, evq,
                     ntrade, dups>>
BY DEF Helper, SendOrder, GetRtn, DeleteOrder, HelperStop, HelperReader,
       HelperQuery, engineVars, frontVars

(* The steps of the listening thread leave the helper, the callbacks, the  *)
(* filter and the queue of the front alone.                                *)
LEMMA ListeningKeeps ==
  ASSUME Listening
  PROVE  UNCHANGED <<hup, ots, sent, cancels, restarts, cb, seen, evq, ntrade,
                     dups>>
BY DEF Listening, TakeCmd, InsertFails, InsertSent, FillOrder, FillFrom,
       InsertAck, OnNewLoad, OnNewStore, CancelFails, CancelSent, CxlingLoad,
       CxlingStore, helperVars, frontVars

(* A reference that was used stays used. *)
LEMMA BegunStep ==
  ASSUME BaseInv, [Next]_vars, NEW r \in Refs
  PROVE  /\ Begun(r) => Begun(r)'
         /\ Filled(r) => Filled(r)'
         /\ reqId <= reqId'
<1>1. reqId \in Nat /\ r \in Nat
  BY OrderAssumption DEF BaseInv, TypeInv, EngineType, Refs
<1>2. CASE Listening
  <2>1. CASE InsertAck
    <3>1. reqId' = reqId + 1 /\ epc = "ack"
      BY <2>1 DEF InsertAck
    <3> QED
      BY <1>1, <3>1 DEF Begun, Filled
  <2>2. CASE ~InsertAck
    <3>1. reqId' = reqId
      BY <1>2, <2>2
      DEF Listening, TakeCmd, InsertFails, InsertSent, FillOrder, FillFrom,
          OnNewLoad, OnNewStore, CancelFails, CancelSent, CxlingLoad,
          CxlingStore
    <3>2. /\ epc # "ack"
          /\ epc = "fill" => epc' = "fillFrom"
          /\ epc = "fillFrom" => epc' = "ack"
      BY <1>2, <2>2
      DEF Listening, TakeCmd, InsertFails, InsertSent, FillOrder, FillFrom,
          OnNewLoad, OnNewStore, CancelFails, CancelSent, CxlingLoad,
          CxlingStore
    <3> QED
      BY <1>1, <3>1, <3>2 DEF Begun, Filled
  <2> QED
    BY <2>1, <2>2
<1>3. CASE reqId' = reqId /\ epc' = epc
  BY <1>1, <1>3 DEF Begun, Filled
<1> QED
  BY <1>2, <1>3, OthersKeep, HelperKeeps DEF Next

-----------------------------------------------------------------------------
(* The commands, kept by every step. *)
LEMMA CmdStep ==
  ASSUME BaseInv, [Next]_vars
  PROVE  CmdInv'
<1> USE OrderAssumption
<1>1. /\ cmds \in Seq(CmdType) /\ ots \in Seq(OtType) /\ sent \in Nat
      /\ reqId \in Nat
  BY DEF BaseInv, TypeInv, HelperType, EngineType
<1>2. CmdInv
  BY DEF BaseInv
<1>3. \A k \in DOMAIN cmds : cmds[k] \in CmdType
  BY <1>1
<1>4. \A c \in CmdType : c.oid \in Nat
  BY DEF CmdType
<1>5. ASSUME UNCHANGED <<cmds, reqId, epc, ecmd, sent>>, Len(ots') <= sent
      PROVE  CmdInv'
  BY <1>2, <1>5 DEF CmdInv
<1>6. CASE Helper
  <2>1. UNCHANGED <<reqId, epc, ecmd>>
    BY <1>6, HelperKeeps
  <2>2. CASE SendOrder
    <3>1. PICK c : c = InsertCmd(sent + 1, Len(ots) + 1)
      OBVIOUS
    <3>2. /\ cmds' = Append(cmds, c) /\ sent' = sent + 1
          /\ c.cmd = "insert" /\ c.oid = sent + 1
          /\ c \in CmdType
      <4>1. cmds' = Append(cmds, c) /\ sent' = sent + 1 /\ sent < MaxOrders
        BY <2>2, <3>1 DEF SendOrder
      <4>2. Len(ots) + 1 \in 1 .. MaxOrders /\ sent + 1 \in 1 .. MaxOrders
        BY <1>1, <1>2, <4>1 DEF CmdInv
      <4> QED
        BY <3>1, <4>1, <4>2 DEF InsertCmd, CmdType
    <3>3. /\ DOMAIN cmds' = 1 .. Len(cmds) + 1 /\ DOMAIN cmds = 1 .. Len(cmds)
          /\ \A k \in DOMAIN cmds : cmds'[k] = cmds[k]
          /\ cmds'[Len(cmds) + 1] = c /\ Len(cmds) \in Nat
      BY <1>1, <3>2, AppendFacts
    <3>4. Len(ots') = Len(ots) + 1
      BY <1>1, <2>2 DEF SendOrder
    <3>5. \A k \in DOMAIN cmds : cmds[k].cmd = "insert" =>
            cmds[k].oid \in Nat /\ reqId <= cmds[k].oid /\ cmds[k].oid <= sent
      BY <1>2, <1>3, <1>4 DEF CmdInv
    <3>6. \A k \in DOMAIN cmds' : cmds'[k].cmd = "insert" =>
            reqId <= cmds'[k].oid /\ cmds'[k].oid <= sent + 1
      BY <1>1, <1>2, <3>2, <3>3, <3>5 DEF CmdInv
    <3>7. ASSUME NEW j \in DOMAIN cmds', NEW k \in DOMAIN cmds', j < k,
                 cmds'[j].cmd = "insert", cmds'[k].cmd = "insert"
          PROVE  cmds'[j].oid < cmds'[k].oid
      <4>1. j \in DOMAIN cmds
        BY <3>3, <3>7
      <4>2. CASE k \in DOMAIN cmds
        BY <1>2, <3>3, <3>7, <4>1, <4>2 DEF CmdInv
      <4>3. CASE k = Len(cmds) + 1
        BY <1>1, <3>2, <3>3, <3>5, <3>7, <4>1, <4>3
      <4> QED
        BY <3>3, <4>2, <4>3
    <3>8. epc \in Inserting =>
            /\ ecmd.cmd = "insert" /\ reqId <= ecmd.oid /\ ecmd.oid <= sent
            /\ ecmd.oid \in Nat
            /\ \A k \in DOMAIN cmds : cmds[k].cmd = "insert" =>
                 ecmd.oid < cmds[k].oid
      <4>1. ecmd \in CmdType \cup {NoCmd} /\ NoCmd.oid = 0
        BY DEF BaseInv, TypeInv, EngineType, NoCmd
      <4> QED
        BY <1>2, <1>4, <4>1 DEF CmdInv
    <3>9. epc \in Inserting =>
            /\ ecmd.oid <= sent + 1
            /\ \A k \in DOMAIN cmds' : cmds'[k].cmd = "insert" =>
                 ecmd.oid < cmds'[k].oid
      BY <1>1, <3>2, <3>3, <3>8
    <3>10. reqId <= sent' + 1 /\ Len(ots') <= sent'
      BY <1>1, <1>2, <3>2, <3>4 DEF CmdInv
    <3> QED
      BY <1>2, <2>1, <3>2, <3>6, <3>7, <3>8, <3>9, <3>10 DEF CmdInv
  <2>3. ASSUME NEW i \in DOMAIN ots, DeleteOrder(i)
        PROVE  CmdInv'
    <3>1. PICK c : c = CancelCmd(ots[i], i)
      OBVIOUS
    <3>2. cmds' = Append(cmds, c) /\ sent' = sent /\ c.cmd = "cancel"
      BY <2>3, <3>1 DEF DeleteOrder, CancelCmd
    <3>3. /\ DOMAIN cmds' = 1 .. Len(cmds) + 1 /\ DOMAIN cmds = 1 .. Len(cmds)
          /\ \A k \in DOMAIN cmds : cmds'[k] = cmds[k]
          /\ cmds'[Len(cmds) + 1] = c /\ Len(cmds) \in Nat
      BY <1>1, <3>2
    <3>4. \A k \in DOMAIN cmds' : cmds'[k].cmd = "insert" =>
            k \in DOMAIN cmds /\ cmds'[k] = cmds[k]
      BY <3>2, <3>3
    <3>5. Len(ots') = Len(ots)
      BY <1>1, <2>3 DEF DeleteOrder
    <3> QED
      BY <1>2, <2>1, <3>2, <3>4, <3>5 DEF CmdInv
  <2>4. CASE GetRtn
    <3>1. Len(ots') = Len(ots) /\ UNCHANGED <<cmds, sent>>
      BY <1>1, <2>4 DEF GetRtn
    <3> QED
      BY <1>2, <1>5, <2>1, <3>1 DEF CmdInv
  <2>5. CASE HelperStop
    BY <1>1, <1>5, <2>1, <2>5 DEF HelperStop
  <2>6. CASE HelperReader
    BY <1>2, <1>5, <2>1, <2>6 DEF HelperReader, CmdInv
  <2>7. CASE HelperQuery
    <3>1. PICK n \in 0 .. reqId - 1 :
            OwnTracks(reqId) = [i \in 1 .. n |-> OwnTracks(reqId)[i]]
      BY OwnFacts DEF BaseInv
    <3>2. DOMAIN OwnTracks(reqId) = 1 .. n
      BY <3>1
    <3>3. DOMAIN ots' = 1 .. n
      BY <2>7, <3>2 DEF HelperQuery, QryOrderTrack
    <3>4. ots' \in Seq(OtType)
      BY TypeStep, <1>6 DEF TypeInv, HelperType, Next
    <3>5. Len(ots') = n
      BY <3>3, <3>4
    <3>6. Len(ots') <= sent
      BY <1>1, <1>2, <3>5 DEF CmdInv
    <3> QED
      BY <1>5, <2>1, <2>7, <3>6 DEF HelperQuery
  <2> QED
    BY <1>6, <2>2, <2>3, <2>4, <2>5, <2>6, <2>7 DEF Helper
<1>7. CASE Listening
  <2>1. UNCHANGED <<sent, ots>>
    BY <1>7, ListeningKeeps
  <2>2. CASE TakeCmd
    <3>1. /\ cmds # <<>> /\ cmds' = Tail(cmds) /\ ecmd' = cmds[1] /\ reqId' = reqId
          /\ epc' = cmds[1].cmd /\ 1 \in DOMAIN cmds
      BY <1>1, <2>2, TailFacts DEF TakeCmd
    <3>2. \A k \in DOMAIN cmds' : cmds'[k] = cmds[k + 1] /\ k + 1 \in DOMAIN cmds
      BY <1>1, <3>1, TailFacts
    <3>3. DOMAIN cmds' \subseteq Nat \ {0}
      BY <1>1, <3>1
    <3>4. epc' \in {"insert", "cancel"}
      BY <1>3, <3>1 DEF CmdType
    <3>5. \A j, k \in DOMAIN cmds' : j < k => j + 1 < k + 1
      BY <3>3
    <3>6. \A k \in DOMAIN cmds' : 1 < k + 1
      BY <3>3
    <3>7. /\ \A k \in DOMAIN cmds' : cmds'[k].cmd = "insert" =>
               reqId <= cmds'[k].oid /\ cmds'[k].oid <= sent
          /\ \A j, k \in DOMAIN cmds' :
               j < k /\ cmds'[j].cmd = "insert" /\ cmds'[k].cmd = "insert" =>
                 cmds'[j].oid < cmds'[k].oid
      BY <1>2, <3>2, <3>5 DEF CmdInv
    <3>8. ecmd'.cmd = "insert" =>
            /\ reqId <= ecmd'.oid /\ ecmd'.oid <= sent
            /\ \A k \in DOMAIN cmds' : cmds'[k].cmd = "insert" =>
                 ecmd'.oid < cmds'[k].oid
      BY <1>2, <3>1, <3>2, <3>6 DEF CmdInv
    <3>9. reqId <= sent + 1 /\ Len(ots) <= sent
      BY <1>2 DEF CmdInv
    <3> QED
      BY <2>1, <3>1, <3>4, <3>7, <3>8, <3>9 DEF CmdInv, Inserting, Canceling
  <2>3. CASE InsertAck
    <3>1. /\ reqId' = reqId + 1 /\ UNCHANGED <<cmds, ecmd>> /\ epc' = "onNew"
          /\ epc = "ack"
      BY <2>3 DEF InsertAck
    <3>2. ecmd \in CmdType /\ reqId <= ecmd.oid /\ ecmd.oid <= sent
      BY <1>2, <3>1 DEF CmdInv, Inserting, BaseInv, TypeInv, EngineType, NoCmd
    <3>3. \A k \in DOMAIN cmds : cmds[k].cmd = "insert" => reqId + 1 <= cmds[k].oid
      BY <1>1, <1>2, <1>3, <1>4, <3>1, <3>2 DEF CmdInv, Inserting
    <3>4. reqId + 1 <= sent + 1
      BY <1>1, <1>4, <3>2
    <3> QED
      BY <1>2, <2>1, <3>1, <3>3, <3>4 DEF CmdInv, Inserting, Canceling
  <2>4. CASE ~TakeCmd /\ ~InsertAck
    <3>1. UNCHANGED <<cmds, reqId>>
      BY <1>7, <2>4
      DEF Listening, InsertFails, InsertSent, FillOrder, FillFrom, OnNewLoad,
          OnNewStore, CancelFails, CancelSent, CxlingLoad, CxlingStore
    <3>2. \/ epc' = "idle" /\ ecmd' = NoCmd
          \/ UNCHANGED ecmd /\ epc \in Inserting /\ epc' \in Inserting
          \/ UNCHANGED ecmd /\ epc \in Canceling /\ epc' \in Canceling
          \/ UNCHANGED ecmd /\ epc' = "onNewStore"
      BY <1>7, <2>4
      DEF Listening, InsertFails, InsertSent, FillOrder, FillFrom, OnNewLoad,
          OnNewStore, CancelFails, CancelSent, CxlingLoad, CxlingStore,
          Inserting, Canceling
    <3> QED
      BY <1>2, <2>1, <3>1, <3>2 DEF CmdInv, Inserting, Canceling
  <2> QED
    BY <2>2, <2>3, <2>4
<1>8. CASE Callbacks \/ Front \/ UNCHANGED vars
  BY <1>2, <1>5, <1>8, OthersKeep DEF CmdInv
<1> QED
  BY <1>6, <1>7, <1>8 DEF Next

-----------------------------------------------------------------------------
(* References that were not used and references that were, kept by every   *)
(* step.  First what a step of another actor may change of one of them.    *)
LEMMA FreshFrame ==
  ASSUME FreshInv, UNCHANGED <<reqId, epc, ecmd>>, sent \in Nat, sent' \in Nat,
         sent <= sent',
         \A r \in Refs :
           /\ front[r].st # "none" => front'[r].st # "none"
           /\ front'[r].oid = front[r].oid
           /\ ~Begun(r) => /\ front'[r] = front[r] /\ track'[r] = track[r]
                           /\ seen'[r] = seen[r]
           /\ track'[r].from = track[r].from
           /\ track'[r].vol = track[r].vol
  PROVE  FreshInv'
<1>1. \A r \in Refs : /\ Begun(r)' <=> Begun(r)
                      /\ Filled(r)' <=> Filled(r)
  BY DEF Begun, Filled
<1>2. \A r \in Refs : Begun(r) => front'[r].oid \in 1 .. sent'
  BY DEF FreshInv
<1> QED
  BY <1>1, <1>2 DEF FreshInv

(* A reference is fresh until the order is handed to the front. *)
LEMMA FreshStep ==
  ASSUME BaseInv, [Next]_vars
  PROVE  FreshInv'
<1> USE OrderAssumption
<1>1. FreshInv /\ TypeInv /\ sent \in Nat /\ reqId \in Nat
  BY DEF BaseInv, TypeInv, HelperType, EngineType
<1>2. \A r \in Refs : r \in Nat
  BY DEF Refs
<1>3. CASE Helper
  <2>1. UNCHANGED <<reqId, epc, ecmd, track, seen, front>>
    BY <1>3, HelperKeeps
  <2>2. sent' \in Nat /\ sent <= sent'
    BY <1>1, <1>3 DEF Helper, SendOrder, GetRtn, DeleteOrder, HelperStop,
                      HelperReader, HelperQuery
  <2> QED
    BY <1>1, <2>1, <2>2, FreshFrame
<1>4. CASE CallbackBegin
  <2>1. UNCHANGED <<reqId, epc, ecmd, track, front, sent>>
    BY <1>4 DEF CallbackBegin, helperVars
  <2>2. PICK e : e = Head(evq)
    OBVIOUS
  <2>3. Begun(e.ref)
    <3>1. evq \in Seq(EventType) /\ evq # <<>>
      BY <1>1, <1>4 DEF TypeInv, FrontTypes, CallbackBegin
    <3>2. 1 \in DOMAIN evq /\ e = evq[1]
      BY <2>2, <3>1, TailFacts
    <3> QED
      BY <3>2 DEF BaseInv, RefsInv, Used
  <2>4. seen' = seen \/ seen' = [seen EXCEPT ![e.ref] = Keep(e.ref, e.id)]
    BY <1>4, <2>2 DEF CallbackBegin
  <2>5. \A r \in Refs : ~Begun(r) => seen'[r] = seen[r]
    BY <1>1, <2>3, <2>4 DEF TypeInv, EngineType
  <2> QED
    BY <1>1, <2>1, <2>5, FreshFrame
<1>5. CASE Handlers
  <2>1. Handled
    BY <1>1, <1>5, HandledEffect
  <2>2. UNCHANGED <<reqId, epc, ecmd, seen, front, sent>>
    BY <2>1 DEF Handled, callbackUnchanged, helperVars, frontVars
  <2>3. Begun(cb.ref) /\ cb.ref \in Refs
    BY <2>1 DEF Handled, EventType, NoEvent, BaseInv, RefsInv, Used
  <2>4. \A r \in Refs : /\ ~Begun(r) => track'[r] = track[r]
                        /\ track'[r].from = track[r].from
                        /\ track'[r].vol = track[r].vol
    BY <2>1, <2>3 DEF Handled
  <2> QED
    BY <1>1, <2>2, <2>4, FreshFrame
<1>6. CASE Front
  <2>1. PICK q \in Refs, es \in Seq(EventType) : Fronted(q, es)
    BY <1>1, <1>6, FrontedEffect
  <2>2. UNCHANGED <<reqId, epc, ecmd, track, seen, sent>>
    BY <2>1 DEF Fronted, frontOnly, helperVars, engineVars
  <2>3. Begun(q)
    BY <1>1, <2>1 DEF Fronted, FreshInv, NoOrder
  <2>4. \A r \in Refs : /\ front[r].st # "none" => front'[r].st # "none"
                        /\ front'[r].oid = front[r].oid
                        /\ ~Begun(r) => front'[r] = front[r]
    BY <2>1, <2>3 DEF Fronted
  <2> QED
    BY <1>1, <2>2, <2>4, FreshFrame
<1>7. CASE UNCHANGED vars
  BY <1>1, <1>7, FreshFrame DEF vars
<1>8. CASE Listening
  <2>1. UNCHANGED <<seen, sent>>
    BY <1>8, ListeningKeeps
  <2>2. epc \in Inserting =>
          /\ ecmd \in CmdType /\ ecmd.oid \in 1 .. sent /\ reqId \in Refs
    <3>1. epc \in Inserting =>
            /\ ecmd.cmd = "insert" /\ reqId <= ecmd.oid /\ ecmd.oid <= sent
      BY DEF BaseInv, CmdInv
    <3>2. epc \in Inserting => ecmd \in CmdType
      BY <1>1, <3>1 DEF TypeInv, EngineType, NoCmd
    <3>3. \A c \in CmdType : c.oid \in 1 .. MaxOrders
      BY DEF CmdType
    <3>4. reqId \in 1 .. MaxOrders + 1
      BY <1>1 DEF TypeInv, EngineType
    <3> QED
      BY <1>1, <3>1, <3>2, <3>3, <3>4 DEF Refs
  <2>3. front \in [Refs -> FrontType] /\ track \in [Refs -> TrackType]
    BY <1>1 DEF TypeInv, EngineType, FrontTypes
  <2>4. CASE InsertSent
    <3>1. /\ epc = "insert" /\ epc' = "fill"
          /\ front' = [front EXCEPT ![reqId] =
                         [st |-> "sent", traded |-> 0, cxl |-> FALSE,
                          oid |-> ecmd.oid]]
          /\ UNCHANGED <<reqId, ecmd, track>>
      BY <2>4 DEF InsertSent
    <3>2. reqId \in Refs /\ ecmd.oid \in 1 .. sent
      BY <2>2, <3>1 DEF Inserting
    <3>3. /\ front'[reqId].st = "sent" /\ front'[reqId].oid = ecmd.oid
          /\ \A r \in Refs \ {reqId} : front'[r] = front[r]
      BY <2>3, <3>1, <3>2
    <3>4. \A r \in Refs : /\ Begun(r)' <=> Begun(r) \/ r = reqId
                          /\ Filled(r)' <=> Filled(r)
      BY <1>1, <1>2, <3>1 DEF Begun, Filled
    <3>5. ~Begun(reqId)
      BY <1>1, <3>1 DEF Begun
    <3> QED
      BY <1>1, <2>1, <3>1, <3>2, <3>3, <3>4, <3>5 DEF FreshInv
  <2>5. CASE FillOrder
    <3>1. /\ epc = "fill" /\ epc' = "fillFrom"
          /\ track' = [track EXCEPT ![reqId].st = {"TDSEND"},
                         ![reqId].vol = Vol, ![reqId].traded = 0]
          /\ UNCHANGED <<reqId, ecmd, front>>
      BY <2>5 DEF FillOrder, frontVars
    <3>2. reqId \in Refs
      BY <2>2, <3>1 DEF Inserting
    <3>3. /\ track'[reqId].vol = Vol /\ track'[reqId].from = track[reqId].from
          /\ \A r \in Refs \ {reqId} : track'[r] = track[r]
      BY <2>3, <3>1, <3>2 DEF TrackType
    <3>4. \A r \in Refs : /\ Begun(r)' <=> Begun(r)
                          /\ Filled(r)' <=> Filled(r)
      BY <1>1, <1>2, <3>1 DEF Begun, Filled
    <3>5. Begun(reqId) /\ ~Filled(reqId)
      BY <1>1, <3>1 DEF Begun, Filled
    <3> QED
      BY ZenonT(60), <1>1, <2>1, <3>1, <3>2, <3>3, <3>4, <3>5 DEF FreshInv
  <2>6. CASE FillFrom
    <3>1. /\ epc = "fillFrom" /\ epc' = "ack"
          /\ track' = [track EXCEPT ![reqId].from = TRUE,
                                    ![reqId].local = ecmd.local]
          /\ UNCHANGED <<reqId, ecmd, front>>
      BY <2>6 DEF FillFrom, frontVars
    <3>2. reqId \in Refs
      BY <2>2, <3>1 DEF Inserting
    <3>3. /\ track'[reqId].vol = track[reqId].vol /\ track'[reqId].from = TRUE
          /\ \A r \in Refs \ {reqId} : track'[r] = track[r]
      BY <2>3, <3>1, <3>2 DEF TrackType
    <3>4. \A r \in Refs : /\ Begun(r)' <=> Begun(r)
                          /\ Filled(r)' <=> Filled(r) \/ r = reqId
      BY <1>1, <1>2, <3>1 DEF Begun, Filled
    <3>5. Begun(reqId) /\ track[reqId].vol = Vol
      BY <1>1, <3>1, <3>2 DEF Begun, FreshInv
    <3> QED
      BY ZenonT(60), <1>1, <2>1, <3>1, <3>2, <3>3, <3>4, <3>5 DEF FreshInv
  <2>7. CASE InsertAck
    <3>1. /\ epc = "ack" /\ epc' = "onNew" /\ reqId' = reqId + 1
          /\ UNCHANGED <<ecmd, front, track>>
      BY <2>7 DEF InsertAck, frontVars
    <3>2. \A r \in Refs : /\ Begun(r)' <=> Begun(r)
                          /\ Filled(r)' <=> Filled(r)
                          /\ r = reqId' => ~Begun(r)'
      BY <1>1, <1>2, <3>1 DEF Begun, Filled
    <3> QED
      BY <1>1, <2>1, <3>1, <3>2 DEF FreshInv
  <2>8. CASE CancelSent
    <3>1. /\ epc = "cancel" /\ epc' = "cxling"
          /\ front' = [front EXCEPT ![ecmd.ref].cxl = TRUE]
          /\ UNCHANGED <<reqId, ecmd, track>>
      BY <2>8 DEF CancelSent
    <3>2. Begun(ecmd.ref)
      BY <3>1 DEF BaseInv, RefsInv, Used, Canceling
    <3>3. \A r \in Refs : /\ front'[r].st = front[r].st
                          /\ front'[r].oid = front[r].oid
                          /\ r # ecmd.ref => front'[r] = front[r]
      BY <2>3, <3>1 DEF FrontType
    <3>4. \A r \in Refs : /\ Begun(r)' <=> Begun(r)
                          /\ Filled(r)' <=> Filled(r)
      BY <1>1, <1>2, <3>1 DEF Begun, Filled
    <3>5. \A r \in Refs : ~Begun(r) => front'[r] = front[r]
      BY <3>2, <3>3
    <3>6. epc' # "fillFrom" /\ \A r \in Refs : r = reqId => ~Begun(r)
      BY <1>1, <3>1 DEF Begun
    <3> QED
      BY <1>1, <2>1, <3>1, <3>3, <3>4, <3>5, <3>6 DEF FreshInv
  <2>9. CASE CxlingStore
    <3>1. /\ epc = "cxlingStore" /\ epc' = "idle"
          /\ track' = [track EXCEPT ![ecmd.ref].st = eold.st \cup {"CXLING"}]
          /\ UNCHANGED <<reqId, front>>
      BY <2>9 DEF CxlingStore, frontVars
    <3>2. Begun(ecmd.ref)
      BY <3>1 DEF BaseInv, RefsInv, Used, Canceling
    <3>3. \A r \in Refs : /\ track'[r].from = track[r].from
                          /\ track'[r].vol = track[r].vol
                          /\ r # ecmd.ref => track'[r] = track[r]
      BY <2>3, <3>1 DEF TrackType
    <3>4. \A r \in Refs : /\ Begun(r)' <=> Begun(r)
                          /\ Filled(r)' <=> Filled(r)
      BY <1>1, <1>2, <3>1 DEF Begun, Filled
    <3>5. \A r \in Refs : ~Begun(r) => track'[r] = track[r]
      BY <3>2, <3>3
    <3>6. epc' # "fillFrom" /\ \A r \in Refs : r = reqId => ~Begun(r)
      BY <1>1, <3>1 DEF Begun
    <3> QED
      BY <1>1, <2>1, <3>1, <3>3, <3>4, <3>5, <3>6 DEF FreshInv
  <2>10. CASE TakeCmd \/ InsertFails \/ OnNewLoad \/ OnNewStore \/ CancelFails
              \/ CxlingLoad
    <3>1. /\ UNCHANGED <<reqId, track, front>>
          /\ epc \notin {"fill", "fillFrom", "ack"}
      BY <2>10 DEF TakeCmd, InsertFails, OnNewLoad, OnNewStore, CancelFails,
                   CxlingLoad, frontVars
    <3>2. epc' \notin {"fill", "fillFrom", "ack"}
      <4>1. CASE TakeCmd
        <5>1. Head(cmds) \in CmdType
          BY <1>1, <4>1 DEF TakeCmd, TypeInv, HelperType
        <5> QED
          BY <4>1, <5>1 DEF TakeCmd, CmdType
      <4> QED
        BY <2>10, <4>1 DEF InsertFails, OnNewLoad, OnNewStore, CancelFails,
                           CxlingLoad
    <3>3. \A r \in Refs : /\ Begun(r)' <=> Begun(r)
                          /\ Filled(r)' <=> Filled(r)
                          /\ r = reqId => ~Begun(r)
      BY <1>1, <1>2, <3>1, <3>2 DEF Begun, Filled
    <3> QED
      BY <1>1, <2>1, <3>1, <3>2, <3>3 DEF FreshInv
  <2> QED
    BY <1>8, <2>4, <2>5, <2>6, <2>7, <2>8, <2>9, <2>10 DEF Listening
<1> QED
  BY <1>3, <1>4, <1>5, <1>6, <1>7, <1>8 DEF Next, Callbacks, Handlers

-----------------------------------------------------------------------------
(* What names a reference, kept by every step. *)
LEMMA UsedStep ==
  ASSUME BaseInv, [Next]_vars
  PROVE  Used \subseteq Used'
BY BegunStep DEF Used

(* The orders of the helper name used references, also after a query. *)
LEMMA OtsRefsStep ==
  ASSUME BaseInv, [Next]_vars
  PROVE  \A i \in DOMAIN ots' : ots'[i].ref # -1 => ots'[i].ref \in Used'
<1>1. /\ ots \in Seq(OtType) /\ rtns \in Seq(RtnType)
      /\ DOMAIN ots = 1 .. Len(ots) /\ Len(ots) \in Nat
  BY DEF BaseInv, TypeInv, HelperType
<1>2. \A i \in DOMAIN ots : ots[i].ref # -1 => ots[i].ref \in Used'
  BY UsedStep DEF BaseInv, RefsInv
<1>3. CASE ots' = ots
  BY <1>2, <1>3
<1>4. CASE SendOrder
  <2>1. PICK o : /\ o = [oid |-> sent + 1, st |-> {"SEND"}, traded |-> 0,
                         ref |-> -1]
                 /\ ots' = Append(ots, o)
    BY <1>4 DEF SendOrder
  <2>2. /\ DOMAIN ots' = 1 .. Len(ots) + 1
        /\ \A i \in DOMAIN ots : ots'[i] = ots[i]
        /\ ots'[Len(ots) + 1].ref = -1
    BY <1>1, <2>1
  <2> QED
    BY <1>1, <1>2, <2>2
<1>5. CASE GetRtn
  <2>1. PICK m : m = Head(rtns)
    OBVIOUS
  <2>2. m.ref # -1 => m.ref \in Used'
    <3>1. rtns # <<>>
      BY <1>5 DEF GetRtn
    <3>2. 1 \in DOMAIN rtns /\ m = rtns[1]
      BY <1>1, <2>1, <3>1, TailFacts
    <3> QED
      BY <3>2, UsedStep DEF BaseInv, RefsInv
  <2>3. \/ ots' = ots
        \/ /\ m.local \in DOMAIN ots
           /\ ots' = [ots EXCEPT ![m.local] = Updated(ots[m.local], m)]
    BY <1>5, <2>1 DEF GetRtn
  <2>4. \A ot : Updated(ot, m).ref = m.ref
    BY DEF Updated
  <2> QED
    BY <1>1, <1>2, <2>2, <2>3, <2>4
<1>6. ASSUME NEW j \in DOMAIN ots, DeleteOrder(j)
      PROVE  \A i \in DOMAIN ots' : ots'[i].ref # -1 => ots'[i].ref \in Used'
  <2>1. ots' = [ots EXCEPT ![j].st = @ \cup {"CXLING"}]
    BY <1>6 DEF DeleteOrder
  <2>2. /\ DOMAIN ots' = DOMAIN ots
        /\ \A i \in DOMAIN ots : ots'[i].ref = ots[i].ref
    BY <1>1, <2>1 DEF OtType
  <2> QED
    BY <1>2, <2>2
<1>7. CASE HelperStop
  BY <1>7 DEF HelperStop
<1>8. CASE HelperQuery
  <2>1. \A r \in Refs : r < reqId => r \in Used
    BY DEF Used, Begun
  <2>2. \A i \in DOMAIN OwnTracks(reqId) : OwnTracks(reqId)[i] \in Used
    BY <2>1, OwnFacts DEF BaseInv
  <2>3. /\ DOMAIN ots' = DOMAIN OwnTracks(reqId)
        /\ \A i \in DOMAIN ots' : ots'[i].ref = OwnTracks(reqId)[i]
    BY <1>8 DEF HelperQuery, QryOrderTrack
  <2> QED
    BY <2>2, <2>3, UsedStep
<1>9. CASE HelperReader \/ Listening \/ Callbacks \/ Front \/ UNCHANGED vars
  BY <1>3, <1>9, OthersKeep, ListeningKeeps DEF HelperReader
<1> QED
  BY <1>4, <1>5, <1>6, <1>7, <1>8, <1>9 DEF Next, Helper

(* The returns: what a step writes, and what it leaves. *)
LEMMA RtnsStep ==
  ASSUME BaseInv, [Next]_vars
  PROVE  \/ rtns' = rtns
         \/ rtns' = <<>>
         \/ GetRtn /\ rtns # <<>> /\ rtns' = Tail(rtns)
         \/ \E m \in RtnType :
              /\ rtns' = Append(rtns, m)
              /\ m.ref # -1 => m.ref \in Used'
              /\ \/ /\ epc # "idle" /\ m.to
                    /\ m.local = ecmd.local /\ m.oid = ecmd.oid
                 \/ /\ Handled
                    /\ m.to = cb.from /\ m.local = cb.local /\ m.ref = cb.ref
                    /\ m.oid = front[cb.ref].oid
<1> USE OrderAssumption
<1>1. TypeInv /\ TypeInv'
  BY TypeStep DEF BaseInv
<1>2. rtns \in Seq(RtnType) /\ rtns' \in Seq(RtnType)
  BY <1>1 DEF TypeInv, HelperType
<1>3. ASSUME NEW m, rtns' = Append(rtns, m)
      PROVE  m \in RtnType
  <2>1. PICK n : n = Len(rtns) + 1
    OBVIOUS
  <2>2. n \in DOMAIN rtns' /\ rtns'[n] = m
    BY <1>2, <1>3, <2>1
  <2> QED
    BY <1>2, <2>2
<1>4. CASE Helper
  BY <1>4 DEF Helper, SendOrder, GetRtn, DeleteOrder, HelperStop, HelperReader,
              HelperQuery
<1>5. CASE InsertFails \/ InsertAck \/ CancelFails
  <2>1. PICK type, ref, v :
          /\ rtns' = Append(rtns, Rtn(TRUE, type, ecmd.local, ref, v, ecmd.oid))
          /\ \/ ref = -1
             \/ ref = reqId /\ InsertAck
             \/ ref = ecmd.ref /\ CancelFails
    BY <1>5 DEF InsertFails, InsertAck, CancelFails, Written
  <2>2. PICK m : m = Rtn(TRUE, type, ecmd.local, ref, v, ecmd.oid)
    OBVIOUS
  <2>3. /\ m.to /\ m.local = ecmd.local /\ m.ref = ref /\ m.oid = ecmd.oid
        /\ rtns' = Append(rtns, m)
    BY <2>1, <2>2 DEF Rtn
  <2>4. epc # "idle"
    BY <1>5 DEF InsertFails, InsertAck, CancelFails
  <2>5. ref # -1 => ref \in Used'
    <3>1. CASE InsertAck
      <4>1. reqId' = reqId + 1 /\ reqId \in Nat /\ epc = "ack"
        BY <1>1, <3>1 DEF InsertAck, TypeInv, EngineType
      <4>2. reqId \in Refs
        <5>1. ecmd.cmd = "insert" /\ reqId <= ecmd.oid
          BY <4>1 DEF BaseInv, CmdInv, Inserting
        <5>2. ecmd.oid \in 1 .. MaxOrders
          BY <1>1, <5>1 DEF TypeInv, EngineType, CmdType, NoCmd
        <5> QED
          BY <1>1, <5>1, <5>2 DEF TypeInv, EngineType, Refs
      <4>3. reqId \in Used'
        BY <4>1, <4>2 DEF Used, Begun, Refs
      <4> QED
        BY <2>1, <3>1, <4>1, <4>3 DEF CancelFails
    <3>2. CASE CancelFails
      <4>1. ecmd.ref \in Used /\ epc = "cancel"
        BY <3>2 DEF CancelFails, BaseInv, RefsInv, Canceling
      <4> QED
        BY <2>1, <4>1, UsedStep DEF InsertAck
    <3>3. CASE ~InsertAck /\ ~CancelFails
      BY <2>1, <3>3
    <3> QED
      BY <3>1, <3>2, <3>3
  <2> QED
    BY <1>3, <2>3, <2>4, <2>5
<1>6. CASE Listening /\ ~InsertFails /\ ~InsertAck /\ ~CancelFails
  BY <1>6 DEF Listening, TakeCmd, InsertSent, FillOrder, FillFrom, OnNewLoad,
              OnNewStore, CancelSent, CxlingLoad, CxlingStore
<1>7. CASE CallbackBegin
  BY <1>7 DEF CallbackBegin
<1>8. CASE Handlers
  <2>1. Handled
    BY <1>1, <1>8, HandledEffect
  <2>2. CASE rtns' = rtns
    BY <2>2
  <2>3. ASSUME NEW type \in AllBits, NEW v \in Nat,
               rtns' = Append(rtns, Rtn(cb.from, type, cb.local, cb.ref, v,
                                        front[cb.ref].oid))
        PROVE  \E m \in RtnType :
                 /\ rtns' = Append(rtns, m)
                 /\ m.ref # -1 => m.ref \in Used'
                 /\ m.to = cb.from /\ m.local = cb.local /\ m.ref = cb.ref
                 /\ m.oid = front[cb.ref].oid
    <3>1. PICK m : m = Rtn(cb.from, type, cb.local, cb.ref, v,
                           front[cb.ref].oid)
      OBVIOUS
    <3>2. /\ m.to = cb.from /\ m.local = cb.local /\ m.ref = cb.ref
          /\ m.oid = front[cb.ref].oid /\ rtns' = Append(rtns, m)
      BY <2>3, <3>1 DEF Rtn
    <3>3. cb.ref \in Used
      BY <2>1 DEF Handled, EventType, NoEvent, BaseInv, RefsInv
    <3> QED
      BY <1>3, <3>2, <3>3, UsedStep
  <2> QED
    BY <2>1, <2>2, <2>3 DEF Handled
<1>9. CASE Front
  <2>1. PICK q \in Refs, es \in Seq(EventType) : Fronted(q, es)
    BY <1>1, <1>9, FrontedEffect DEF BaseInv
  <2> QED
    BY <2>1 DEF Fronted, frontOnly
<1> QED
  BY <1>4, <1>5, <1>6, <1>7, <1>8, <1>9
  DEF Next, Callbacks, Handlers, Listening, vars

(* Every step names used references only. *)
LEMMA RefsStep ==
  ASSUME BaseInv, [Next]_vars
  PROVE  RefsInv'
<1> USE OrderAssumption
<1>1. TypeInv /\ RefsInv /\ Used \subseteq Used' /\ TypeInv'
  BY UsedStep, TypeStep DEF BaseInv
<1>2. /\ ots \in Seq(OtType) /\ rtns \in Seq(RtnType) /\ cmds \in Seq(CmdType)
      /\ evq \in Seq(EventType) /\ track \in [Refs -> TrackType]
  BY <1>1 DEF TypeInv, HelperType, FrontTypes, EngineType
<1>3. \A i \in DOMAIN ots' : ots'[i].ref # -1 => ots'[i].ref \in Used'
  BY OtsRefsStep
<1>4. \A k \in DOMAIN rtns' : rtns'[k].ref # -1 => rtns'[k].ref \in Used'
  <2>1. CASE rtns' = rtns \/ rtns' = <<>>
    BY <1>1, <2>1 DEF RefsInv
  <2>2. CASE rtns # <<>> /\ rtns' = Tail(rtns)
    BY <1>1, <1>2, <2>2, TailFacts DEF RefsInv
  <2>3. ASSUME NEW m \in RtnType, rtns' = Append(rtns, m),
               m.ref # -1 => m.ref \in Used'
        PROVE  \A k \in DOMAIN rtns' : rtns'[k].ref # -1 => rtns'[k].ref \in Used'
    BY <1>1, <1>2, <2>3, AppendFacts DEF RefsInv
  <2> QED
    BY <2>1, <2>2, <2>3, RtnsStep
<1>5. \A k \in DOMAIN cmds' : cmds'[k].cmd = "cancel" => cmds'[k].ref \in Used'
  <2>1. CASE cmds' = cmds
    BY <1>1, <2>1 DEF RefsInv
  <2>2. CASE TakeCmd
    <3>1. cmds # <<>> /\ cmds' = Tail(cmds)
      BY <2>2 DEF TakeCmd
    <3> QED
      BY <1>1, <1>2, <3>1, TailFacts DEF RefsInv
  <2>3. ASSUME NEW c \in CmdType, cmds' = Append(cmds, c),
               c.cmd = "cancel" => c.ref \in Used
        PROVE  \A k \in DOMAIN cmds' : cmds'[k].cmd = "cancel" => cmds'[k].ref \in Used'
    BY <1>1, <1>2, <2>3, AppendFacts DEF RefsInv
  <2>4. ASSUME NEW c, cmds' = Append(cmds, c)
        PROVE  c \in CmdType
    <3>1. PICK n : n = Len(cmds) + 1
      OBVIOUS
    <3>2. cmds' \in Seq(CmdType) /\ n \in DOMAIN cmds' /\ cmds'[n] = c
      BY <1>1, <1>2, <2>4, <3>1 DEF TypeInv, HelperType
    <3> QED
      BY <3>2
  <2>5. CASE SendOrder
    <3>1. PICK c : c = InsertCmd(sent + 1, Len(ots) + 1)
      OBVIOUS
    <3>2. cmds' = Append(cmds, c) /\ c.cmd = "insert"
      BY <2>5, <3>1 DEF SendOrder, InsertCmd
    <3> QED
      BY <2>3, <2>4, <3>2
  <2>6. ASSUME NEW i \in DOMAIN ots, DeleteOrder(i)
        PROVE  \A k \in DOMAIN cmds' : cmds'[k].cmd = "cancel" => cmds'[k].ref \in Used'
    <3>1. PICK c : c = CancelCmd(ots[i], i)
      OBVIOUS
    <3>2. cmds' = Append(cmds, c) /\ c.ref = ots[i].ref
      BY <2>6, <3>1 DEF DeleteOrder, CancelCmd
    <3>3. ots[i].ref # -1
      <4>1. ots[i].ref >= 0
        BY <2>6 DEF DeleteOrder, Cancellable
      <4> QED
        BY <4>1
    <3> QED
      BY <1>1, <2>3, <2>4, <3>2, <3>3 DEF RefsInv
  <2>7. CASE Helper
    BY <2>1, <2>5, <2>6, <2>7 DEF Helper, GetRtn, HelperStop, HelperReader,
                                  HelperQuery
  <2>8. CASE Listening
    BY <2>1, <2>2, <2>8
    DEF Listening, InsertFails, InsertSent, FillOrder, FillFrom, InsertAck,
        OnNewLoad, OnNewStore, CancelFails, CancelSent, CxlingLoad, CxlingStore
  <2> QED
    BY <2>1, <2>7, <2>8, OthersKeep DEF Next
<1>6. epc' \in Canceling => ecmd'.ref \in Used'
  <2>1. CASE epc' = epc /\ ecmd' = ecmd
    BY <1>1, <2>1 DEF RefsInv
  <2>2. CASE TakeCmd
    <3>1. cmds # <<>> /\ ecmd' = Head(cmds) /\ epc' = Head(cmds).cmd
      BY <2>2 DEF TakeCmd
    <3>2. 1 \in DOMAIN cmds /\ Head(cmds) = cmds[1] /\ cmds[1] \in CmdType
      BY <1>2, <3>1, TailFacts
    <3> QED
      BY <1>1, <3>1, <3>2 DEF RefsInv, CmdType, Canceling
  <2>3. CASE Listening /\ ~TakeCmd
    BY <1>1, <2>3
    DEF Listening, InsertFails, InsertSent, FillOrder, FillFrom, InsertAck,
        OnNewLoad, OnNewStore, CancelFails, CancelSent, CxlingLoad,
        CxlingStore, Canceling, RefsInv
  <2> QED
    BY <2>1, <2>2, <2>3, OthersKeep, HelperKeeps DEF Next
<1>7. \A k \in DOMAIN evq' : evq'[k].ref \in Used'
  <2>1. CASE evq' = evq
    BY <1>1, <2>1 DEF RefsInv
  <2>2. CASE CallbackBegin
    <3>1. evq # <<>> /\ evq' = Tail(evq)
      BY <2>2 DEF CallbackBegin
    <3> QED
      BY <1>1, <1>2, <3>1, TailFacts DEF RefsInv
  <2>3. CASE Front
    <3>1. PICK q \in Refs, es \in Seq(EventType) : Fronted(q, es)
      BY <2>3, FrontedEffect DEF BaseInv
    <3>2. q \in Used
      BY <3>1 DEF Fronted, BaseInv, FreshInv, NoOrder, Used
    <3>3. evq' = evq \o es /\ \A k \in DOMAIN es : es[k].ref = q
      BY <3>1 DEF Fronted
    <3> QED
      BY <1>1, <1>2, <3>2, <3>3, ConcatFacts DEF RefsInv
  <2>4. CASE Handlers
    <3>1. Handled
      BY <1>1, <2>4, HandledEffect
    <3> QED
      BY <2>1, <3>1 DEF Handled, callbackUnchanged, frontVars
  <2> QED
    BY <2>1, <2>2, <2>3, <2>4, ListeningKeeps, HelperKeeps
    DEF Next, Callbacks, Handlers, vars
<1>8. /\ cb' # NoEvent => cb'.ref \in Used'
      /\ cb' # NoEvent /\ cb'.from =>
           track'[cb'.ref].from /\ cb'.local = track'[cb'.ref].local
  <2>1. CASE cb' = NoEvent
    BY <2>1
  <2>2. CASE cb' = cb /\ track' = track
    BY <1>1, <2>2 DEF RefsInv
  <2>3. CASE CallbackBegin
    <3>1. PICK e : e = Head(evq)
      OBVIOUS
    <3>2. e = evq[1] /\ 1 \in DOMAIN evq /\ e \in EventType
      BY <1>2, <2>3, <3>1, TailFacts DEF CallbackBegin
    <3>3. PICK f, l : f = track[e.ref].from /\ l = track[e.ref].local
      OBVIOUS
    <3>4. cb' = NoEvent \/ cb' = [e EXCEPT !.from = f, !.local = l]
      BY <2>3, <3>1, <3>3 DEF CallbackBegin
    <3>5. cb' # NoEvent => cb'.ref = e.ref /\ cb'.from = f /\ cb'.local = l
      BY <3>2, <3>4 DEF EventType
    <3>6. track' = track
      BY <2>3 DEF CallbackBegin
    <3> QED
      BY <1>1, <3>2, <3>3, <3>5, <3>6 DEF RefsInv
  <2>4. CASE Handlers
    <3>1. Handled
      BY <1>1, <2>4, HandledEffect
    <3> QED
      BY <2>1, <3>1 DEF Handled
  <2>5. CASE Listening
    <3>1. cb' = cb
      BY <2>5, ListeningKeeps
    <3>2. ASSUME cb # NoEvent
          PROVE  /\ cb.ref \in Refs
                 /\ track[cb.ref].from => /\ track'[cb.ref].from
                                          /\ track'[cb.ref].local = track[cb.ref].local
      <4>1. cb.ref \in Refs
        BY <1>1, <3>2 DEF RefsInv, Used
      <4>2. CASE FillOrder
        <5>1. track' = [track EXCEPT ![reqId].st = {"TDSEND"},
                          ![reqId].vol = Vol, ![reqId].traded = 0]
          BY <4>2 DEF FillOrder
        <5>2. \A r \in Refs : /\ track'[r].from = track[r].from
                              /\ track'[r].local = track[r].local
          BY <1>2, <5>1 DEF TrackType
        <5> QED
          BY <4>1, <5>2
      <4>3. CASE FillFrom
        <5>1. /\ track' = [track EXCEPT ![reqId].from = TRUE,
                                        ![reqId].local = ecmd.local]
              /\ epc = "fillFrom"
          BY <4>3 DEF FillFrom
        <5>2. \A r \in Refs \ {reqId} : track'[r] = track[r]
          BY <1>2, <5>1
        <5>3. reqId \in Refs => ~track[reqId].from
          BY SMTT(30), <1>1, <5>1 DEF BaseInv, FreshInv, Filled, TypeInv, EngineType
        <5> QED
          BY <4>1, <5>2, <5>3
      <4>4. CASE CxlingStore
        <5>1. track' = [track EXCEPT ![ecmd.ref].st = eold.st \cup {"CXLING"}]
          BY <4>4 DEF CxlingStore
        <5>2. \A r \in Refs : /\ track'[r].from = track[r].from
                              /\ track'[r].local = track[r].local
          BY <1>2, <5>1 DEF TrackType
        <5> QED
          BY <4>1, <5>2
      <4>5. CASE track' = track
        BY <4>1, <4>5
      <4> QED
        BY <2>5, <4>2, <4>3, <4>4, <4>5
        DEF Listening, TakeCmd, InsertFails, InsertSent, InsertAck, OnNewLoad,
            OnNewStore, CancelFails, CancelSent, CxlingLoad
    <3> QED
      BY <1>1, <3>1, <3>2 DEF RefsInv
  <2>6. CASE Front
    <3>1. PICK q \in Refs, es \in Seq(EventType) : Fronted(q, es)
      BY <2>6, FrontedEffect DEF BaseInv
    <3> QED
      BY <2>2, <3>1 DEF Fronted, frontOnly, engineVars
  <2> QED
    BY <2>2, <2>3, <2>4, <2>5, <2>6, HelperKeeps
    DEF Next, Callbacks, Handlers, vars
<1> QED
  BY <1>3, <1>4, <1>5, <1>6, <1>7, <1>8 DEF RefsInv

(* The invariant holds at the start and is kept by every step. *)
LEMMA BaseInit ==
  ASSUME Init
  PROVE  BaseInv
<1> USE OrderAssumption
<1>1. TypeInv
  <2>1. HelperType
    BY DEF Init, HelperType
  <2>2. EngineType
    <3>1. NoTrack \in TrackType
      BY DEF NoTrack, TrackType
    <3>2. <<>> \in Seq(Nat) /\ Len(<<>>) = 0
      OBVIOUS
    <3> QED
      BY <3>1, <3>2 DEF Init, EngineType
  <2>3. FrontTypes
    <3>1. NoOrder \in FrontType
      BY DEF NoOrder, FrontType
    <3> QED
      BY <3>1 DEF Init, FrontTypes
  <2> QED
    BY <2>1, <2>2, <2>3 DEF TypeInv
<1>2. CmdInv
  BY DEF Init, CmdInv, Inserting, Canceling
<1>3. FreshInv
  <2>1. \A r \in Refs : ~Begun(r) /\ ~Filled(r)
    BY DEF Init, Begun, Filled, Refs
  <2> QED
    BY <2>1 DEF Init, FreshInv, NoTrack
<1>4. RefsInv
  BY DEF Init, RefsInv, Canceling
<1> QED
  BY <1>1, <1>2, <1>3, <1>4 DEF BaseInv

(* The invariant is inductive. *)
LEMMA BaseStep ==
  ASSUME BaseInv, [Next]_vars
  PROVE  BaseInv'
BY TypeStep, CmdStep, FreshStep, RefsStep DEF BaseInv

(* What the messages, tracks and references of engine, helper and front    *)
(* promise each other holds in every state.                                *)
THEOREM BaseAlways == Spec => []BaseInv
BY BaseInit, BaseStep, PTL DEF Spec

-----------------------------------------------------------------------------
(* In the first run of the helper: the orders it holds, ... *)
LEMMA LocalOtsStep ==
  ASSUME BaseInv, LocalInv, [Next]_vars, restarts' = 0
  PROVE  /\ restarts = 0 /\ hup' = "up" /\ Len(ots') = sent'
         /\ \A i \in DOMAIN ots' : ots'[i].oid = i
         /\ \A k \in DOMAIN cmds' : cmds'[k].local = cmds'[k].oid
<1>1. /\ ots \in Seq(OtType) /\ DOMAIN ots = 1 .. Len(ots) /\ Len(ots) \in Nat
      /\ cmds \in Seq(CmdType) /\ restarts \in Nat
  BY OrderAssumption DEF BaseInv, TypeInv, HelperType
<1>2. restarts = 0
  <2>1. CASE Helper
    BY <1>1, <2>1 DEF Helper, SendOrder, GetRtn, DeleteOrder, HelperStop,
                      HelperReader, HelperQuery
  <2> QED
    BY <2>1, OthersKeep, ListeningKeeps DEF Next
<1>3. /\ hup = "up" /\ Len(ots) = sent
      /\ \A i \in DOMAIN ots : ots[i].oid = i
      /\ \A k \in DOMAIN cmds : cmds[k].local = cmds[k].oid
  BY <1>2 DEF LocalInv
<1>4. CASE UNCHANGED <<hup, ots, sent, cmds>>
  BY <1>2, <1>3, <1>4
<1>5. CASE SendOrder
  <2>1. PICK o, c :
          /\ o = [oid |-> sent + 1, st |-> {"SEND"}, traded |-> 0, ref |-> -1]
          /\ c = InsertCmd(sent + 1, Len(ots) + 1)
    OBVIOUS
  <2>2. /\ ots' = Append(ots, o) /\ cmds' = Append(cmds, c) /\ sent' = sent + 1
        /\ hup' = hup /\ o.oid = sent + 1 /\ c.local = Len(ots) + 1
        /\ c.oid = sent + 1
    BY <1>5, <2>1 DEF SendOrder, InsertCmd
  <2>3. /\ DOMAIN ots' = 1 .. Len(ots) + 1 /\ Len(ots') = Len(ots) + 1
        /\ \A i \in DOMAIN ots : ots'[i] = ots[i]
        /\ ots'[Len(ots) + 1] = o
    BY <1>1, <2>2
  <2>4. /\ DOMAIN cmds = 1 .. Len(cmds) /\ DOMAIN cmds' = 1 .. Len(cmds) + 1
        /\ \A k \in DOMAIN cmds : cmds'[k] = cmds[k]
        /\ cmds'[Len(cmds) + 1] = c /\ Len(cmds) \in Nat
    BY <1>1, <2>2
  <2>5. \A i \in DOMAIN ots' : ots'[i].oid = i
    BY <1>1, <1>3, <2>2, <2>3
  <2>6. \A k \in DOMAIN cmds' : cmds'[k].local = cmds'[k].oid
    BY <1>3, <2>2, <2>4
  <2> QED
    BY <1>2, <1>3, <2>2, <2>3, <2>5, <2>6
<1>6. ASSUME NEW j \in DOMAIN ots, DeleteOrder(j)
      PROVE  /\ hup' = "up" /\ Len(ots') = sent'
             /\ \A i \in DOMAIN ots' : ots'[i].oid = i
             /\ \A k \in DOMAIN cmds' : cmds'[k].local = cmds'[k].oid
  <2>1. PICK c : c = CancelCmd(ots[j], j)
    OBVIOUS
  <2>2. /\ ots' = [ots EXCEPT ![j].st = @ \cup {"CXLING"}]
        /\ cmds' = Append(cmds, c) /\ UNCHANGED <<hup, sent>>
        /\ c.local = j /\ c.oid = ots[j].oid
    BY <1>6, <2>1 DEF DeleteOrder, CancelCmd
  <2>3. /\ DOMAIN ots' = DOMAIN ots /\ Len(ots') = Len(ots)
        /\ \A i \in DOMAIN ots : ots'[i].oid = ots[i].oid
    BY <1>1, <2>2 DEF OtType
  <2>4. /\ DOMAIN cmds = 1 .. Len(cmds) /\ DOMAIN cmds' = 1 .. Len(cmds) + 1
        /\ \A k \in DOMAIN cmds : cmds'[k] = cmds[k]
        /\ cmds'[Len(cmds) + 1] = c /\ Len(cmds) \in Nat
    BY <1>1, <2>2
  <2>5. \A k \in DOMAIN cmds' : cmds'[k].local = cmds'[k].oid
    BY <1>3, <2>2, <2>4
  <2> QED
    BY <1>3, <2>2, <2>3, <2>5
<1>7. CASE GetRtn
  <2>1. PICK m : m = Head(rtns)
    OBVIOUS
  <2>2. /\ UNCHANGED <<hup, sent, cmds>>
        /\ \/ ots' = ots
           \/ /\ m.local \in DOMAIN ots
              /\ ots' = [ots EXCEPT ![m.local] = Updated(ots[m.local], m)]
    BY <1>7, <2>1 DEF GetRtn
  <2>3. \A ot : Updated(ot, m).oid = ot.oid
    BY DEF Updated
  <2>4. /\ DOMAIN ots' = DOMAIN ots /\ Len(ots') = Len(ots)
        /\ \A i \in DOMAIN ots : ots'[i].oid = ots[i].oid
    BY <1>1, <2>2, <2>3
  <2> QED
    BY <1>2, <1>3, <2>2, <2>4
<1>8. CASE TakeCmd
  <2>1. cmds # <<>> /\ cmds' = Tail(cmds) /\ UNCHANGED <<hup, ots, sent>>
    BY <1>8 DEF TakeCmd, helperVars
  <2>2. \A k \in DOMAIN cmds' : cmds'[k] = cmds[k + 1] /\ k + 1 \in DOMAIN cmds
    BY <1>1, <2>1, TailFacts
  <2> QED
    BY <1>2, <1>3, <2>1, <2>2
<1>9. CASE Helper
  <2>1. ~HelperStop /\ ~HelperReader /\ ~HelperQuery
    BY <1>1, <1>2, <1>3 DEF HelperStop, HelperReader, HelperQuery
  <2> QED
    BY <1>2, <1>5, <1>6, <1>7, <1>9, <2>1 DEF Helper
<1>10. CASE Listening
  <2>1. UNCHANGED <<hup, ots, sent>>
    BY <1>10, ListeningKeeps
  <2>2. TakeCmd \/ cmds' = cmds
    BY <1>10
    DEF Listening, InsertFails, InsertSent, FillOrder, FillFrom, InsertAck,
        OnNewLoad, OnNewStore, CancelFails, CancelSent, CxlingLoad, CxlingStore
  <2> QED
    BY <1>4, <1>8, <2>1, <2>2
<1> QED
  BY <1>4, <1>9, <1>10, OthersKeep DEF Next

(* ... the command and the tracks of the engine, ... *)
LEMMA LocalTrackStep ==
  ASSUME BaseInv, LocalInv, [Next]_vars, restarts = 0
  PROVE  /\ ecmd'.local = ecmd'.oid
         /\ \A r \in Refs : track'[r].from => track'[r].local = front'[r].oid
<1>1. /\ TypeInv /\ FreshInv
      /\ track \in [Refs -> TrackType] /\ front \in [Refs -> FrontType]
  BY DEF BaseInv, TypeInv, EngineType, FrontTypes
<1>2. /\ ecmd.local = ecmd.oid
      /\ \A k \in DOMAIN cmds : cmds[k].local = cmds[k].oid
      /\ \A r \in Refs : track[r].from => track[r].local = front[r].oid
  BY DEF LocalInv
<1>3. ASSUME ecmd' = ecmd,
             \A r \in Refs : /\ front'[r].oid = front[r].oid
                             /\ track'[r].from = track[r].from
                             /\ track'[r].local = track[r].local
      PROVE  /\ ecmd'.local = ecmd'.oid
             /\ \A r \in Refs : track'[r].from => track'[r].local = front'[r].oid
  BY <1>2, <1>3
<1>4. ASSUME UNCHANGED <<track, front>>, ecmd'.local = ecmd'.oid
      PROVE  /\ ecmd'.local = ecmd'.oid
             /\ \A r \in Refs : track'[r].from => track'[r].local = front'[r].oid
  BY <1>2, <1>4
<1>5. CASE Helper \/ UNCHANGED vars
  BY <1>3, <1>5, HelperKeeps DEF vars
<1>6. CASE CallbackBegin
  BY <1>3, <1>6 DEF CallbackBegin
<1>7. CASE Handlers
  <2>1. Handled
    BY <1>1, <1>7, HandledEffect
  <2>2. UNCHANGED <<ecmd, front>>
    BY <2>1 DEF Handled, callbackUnchanged, frontVars
  <2>3. \A r \in Refs : /\ track'[r].from = track[r].from
                        /\ track'[r].local = track[r].local
    BY <2>1 DEF Handled
  <2> QED
    BY <1>3, <2>2, <2>3
<1>8. CASE Front
  <2>1. PICK q \in Refs, es \in Seq(EventType) : Fronted(q, es)
    BY <1>1, <1>8, FrontedEffect
  <2>2. UNCHANGED <<ecmd, track>>
    BY <2>1 DEF Fronted, frontOnly, engineVars
  <2>3. \A r \in Refs : front'[r].oid = front[r].oid
    BY <2>1 DEF Fronted
  <2> QED
    BY <1>3, <2>2, <2>3
<1>9. CASE Listening
  <2>1. CASE TakeCmd
    <3>1. /\ cmds # <<>> /\ ecmd' = Head(cmds) /\ UNCHANGED <<track, front>>
          /\ cmds \in Seq(CmdType)
      BY <1>1, <2>1 DEF TakeCmd, frontVars, TypeInv, HelperType
    <3>2. 1 \in DOMAIN cmds /\ Head(cmds) = cmds[1]
      BY <3>1, TailFacts
    <3> QED
      BY <1>2, <1>4, <3>1, <3>2
  <2>2. CASE InsertSent
    <3>1. /\ front' = [front EXCEPT ![reqId] =
                         [st |-> "sent", traded |-> 0, cxl |-> FALSE,
                          oid |-> ecmd.oid]]
          /\ UNCHANGED <<ecmd, track>> /\ epc = "insert"
      BY <2>2 DEF InsertSent
    <3>2. \A r \in Refs \ {reqId} : front'[r] = front[r]
      BY <1>1, <3>1
    <3>3. reqId \in Refs => ~track[reqId].from
      BY <1>1, <3>1 DEF FreshInv, Filled, TypeInv, EngineType
    <3> QED
      BY <1>2, <3>1, <3>2, <3>3
  <2>3. CASE FillOrder
    <3>1. /\ track' = [track EXCEPT ![reqId].st = {"TDSEND"},
                          ![reqId].vol = Vol, ![reqId].traded = 0]
          /\ UNCHANGED <<ecmd, front>>
      BY <2>3 DEF FillOrder, frontVars
    <3>2. \A r \in Refs : /\ track'[r].from = track[r].from
                          /\ track'[r].local = track[r].local
      BY <1>1, <3>1 DEF TrackType
    <3> QED
      BY <1>3, <3>1, <3>2
  <2>4. CASE FillFrom
    <3>1. /\ track' = [track EXCEPT ![reqId].from = TRUE,
                                    ![reqId].local = ecmd.local]
          /\ UNCHANGED <<ecmd, front>> /\ epc = "fillFrom"
      BY <2>4 DEF FillFrom, frontVars
    <3>2. /\ \A r \in Refs \ {reqId} : track'[r] = track[r]
          /\ reqId \in Refs => track'[reqId].local = ecmd.local
      BY <1>1, <3>1 DEF TrackType
    <3>3. reqId \in Refs => front[reqId].oid = ecmd.oid
      BY <1>1, <3>1 DEF FreshInv, Begun
    <3> QED
      BY <1>2, <3>1, <3>2, <3>3
  <2>5. CASE CancelSent
    <3>1. /\ front' = [front EXCEPT ![ecmd.ref].cxl = TRUE]
          /\ UNCHANGED <<ecmd, track>>
      BY <2>5 DEF CancelSent
    <3>2. \A r \in Refs : front'[r].oid = front[r].oid
      BY <1>1, <3>1 DEF FrontType
    <3> QED
      BY <1>3, <3>1, <3>2
  <2>6. CASE CxlingStore
    <3>1. /\ track' = [track EXCEPT ![ecmd.ref].st = eold.st \cup {"CXLING"}]
          /\ ecmd' = NoCmd /\ front' = front
      BY <2>6 DEF CxlingStore, frontVars
    <3>2. \A r \in Refs : /\ track'[r].from = track[r].from
                          /\ track'[r].local = track[r].local
      BY <1>1, <3>1 DEF TrackType
    <3> QED
      BY <1>2, <3>1, <3>2 DEF NoCmd
  <2>7. CASE InsertFails \/ InsertAck \/ OnNewLoad \/ OnNewStore \/ CancelFails
             \/ CxlingLoad
    <3>1. UNCHANGED <<track, front>> /\ (ecmd' = ecmd \/ ecmd' = NoCmd)
      BY <2>7 DEF InsertFails, InsertAck, OnNewLoad, OnNewStore, CancelFails,
                  CxlingLoad, frontVars
    <3> QED
      BY <1>2, <1>4, <3>1 DEF NoCmd
  <2> QED
    BY <1>9, <2>1, <2>2, <2>3, <2>4, <2>5, <2>6, <2>7 DEF Listening
<1> QED
  BY <1>5, <1>6, <1>7, <1>8, <1>9 DEF Next, Callbacks, Handlers

(* ... and the returns. *)
LEMMA LocalStep ==
  ASSUME BaseInv, LocalInv, [Next]_vars
  PROVE  LocalInv'
<1>1. SUFFICES ASSUME restarts' = 0
               PROVE  LocalInv'
  BY DEF LocalInv
<1>2. restarts = 0
  BY <1>1, LocalOtsStep
<1>3. rtns \in Seq(RtnType)
  BY DEF BaseInv, TypeInv, HelperType
<1>4. /\ \A k \in DOMAIN rtns : rtns[k].to => rtns[k].local = rtns[k].oid
      /\ ecmd.local = ecmd.oid
      /\ \A r \in Refs : track[r].from => track[r].local = front[r].oid
  BY <1>2 DEF LocalInv
<1>5. \A k \in DOMAIN rtns' : rtns'[k].to => rtns'[k].local = rtns'[k].oid
  <2>1. CASE rtns' = rtns \/ rtns' = <<>>
    BY <1>4, <2>1
  <2>2. CASE rtns # <<>> /\ rtns' = Tail(rtns)
    BY <1>3, <1>4, <2>2, TailFacts
  <2>3. ASSUME NEW m \in RtnType, rtns' = Append(rtns, m),
               m.to => m.local = m.oid
        PROVE  \A k \in DOMAIN rtns' : rtns'[k].to => rtns'[k].local = rtns'[k].oid
    BY <1>3, <1>4, <2>3, AppendFacts
  <2>4. ASSUME Handled, cb.from
        PROVE  cb.local = front[cb.ref].oid
    <3>1. cb # NoEvent
      BY <2>4 DEF Handled, EventType, NoEvent
    <3>2. cb.ref \in Refs /\ track[cb.ref].from /\ cb.local = track[cb.ref].local
      BY <2>4, <3>1 DEF BaseInv, RefsInv, Used
    <3> QED
      BY <1>4, <3>2
  <2> QED
    BY <1>4, <2>1, <2>2, <2>3, <2>4, RtnsStep
<1> QED
  BY <1>1, <1>2, <1>5, LocalOtsStep, LocalTrackStep DEF LocalInv

(* At the start there is nothing to find. *)
LEMMA LocalInit ==
  ASSUME Init
  PROVE  LocalInv
BY DEF Init, LocalInv, NoCmd, NoTrack

(* In its first run the helper applies every return to the order it is for, *)
(* however the callbacks and the listening thread follow each other.        *)
LEMMA LocalReaches ==
  ASSUME LocalInv, restarts = 0
  PROVE  RtnReachesOrder
BY DEF LocalInv, RtnReachesOrder

(* While the helper has not been restarted every return reaches its order *)
(* (sendOrder, writeRtn, doGetRtn), for any number of restarts to come.    *)
THEOREM FirstRunReaches == Spec => [](restarts = 0 => RtnReachesOrder)
<1>1. BaseInv /\ LocalInv /\ [Next]_vars => BaseInv' /\ LocalInv'
  BY BaseStep, LocalStep
<1>2. Init => BaseInv /\ LocalInv
  BY BaseInit, LocalInit
<1>3. BaseInv /\ LocalInv => (restarts = 0 => RtnReachesOrder)
  BY LocalReaches
<1> QED
  BY <1>1, <1>2, <1>3, PTL DEF Spec

(* The same for a helper that is not restarted. *)
THEOREM ReturnsReachOrders ==
  ASSUME MaxRestarts = 0
  PROVE  Spec => []RtnReachesOrder
<1>1. BaseInv => restarts = 0
  BY DEF BaseInv, TypeInv, HelperType
<1> QED
  BY <1>1, BaseAlways, FirstRunReaches, PTL

-----------------------------------------------------------------------------
(***************************************************************************)
(* The trades of an order, from the front through the callbacks and the    *)
(* returns to the helper: each is counted once, and a closed order is over. *)
(***************************************************************************)

(* Trades: the volume in the callback, and the sum over the queue. *)
CbVol(r) == IF cb.kind = "trade" /\ cb.ref = r THEN cb.vol ELSE 0
DueSum(r) == SumFunction(DueVol(r))

(* Position k of the queue holds a trade of r. *)
IsTrade(k, r) == k \in DOMAIN evq /\ evq[k].kind = "trade" /\ evq[k].ref = r

(* A trade id is in a filter. *)
Has(s, id) == \E i \in DOMAIN s : s[i] = id

(* No callback begins early, and every reference is one the engine accepts. *)
Plain == ~EarlyCallback /\ MaxOrders <= RefEnd

(* The trades of an order come in the order of their ids, the one kept     *)
(* first is the latest, and a repetition is due only when nothing else is. *)
TradeInv ==
  \A r \in Refs :
    /\ \A i \in DOMAIN seen[r] :
         seen[r][i] <= ntrade /\ seen[r][i] <= seen[r][1]
    /\ \A k \in DOMAIN evq : IsTrade(k, r) =>
         evq[k].id <= ntrade /\ (seen[r] # <<>> => seen[r][1] <= evq[k].id)
    /\ \A j, k \in DOMAIN evq :
         j < k /\ IsTrade(j, r) /\ IsTrade(k, r) => evq[j].id < evq[k].id
    /\ ~Filled(r) => track[r].traded = 0
    /\ cb.kind = "trade" /\ cb.ref = r => Filled(r)

CountInv ==
  /\ \A r \in Refs : track[r].traded + CbVol(r) + DueSum(r) <= front[r].traded
  /\ Plain => \A r \in Refs :
       track[r].traded + CbVol(r) + DueSum(r) = front[r].traded

(* With EarlyCallback FALSE no callback finds a track that is being filled. *)
PlainInv ==
  Plain /\ cb # NoEvent => Filled(cb.ref) /\ cb.from

(* The volumes are natural numbers. *)
LEMMA VolTypes ==
  ASSUME TypeInv, NEW r \in Refs
  PROVE  /\ DOMAIN DueVol(r) = DOMAIN evq
         /\ \A k \in DOMAIN evq : DueVol(r)[k] \in Nat
         /\ CbVol(r) \in Nat /\ DueSum(r) \in Nat
         /\ track[r].traded \in Nat /\ front[r].traded \in Nat
<1> USE OrderAssumption
<1>1. /\ evq \in Seq(EventType) /\ cb \in EventType \cup {NoEvent}
      /\ track \in [Refs -> TrackType] /\ front \in [Refs -> FrontType]
  BY DEF TypeInv, EngineType, FrontTypes
<1>2. \A e \in EventType : e.vol \in Nat
  BY DEF EventType
<1>3. \A k \in DOMAIN evq : evq[k].vol \in Nat
  BY <1>1, <1>2
<1>4. DOMAIN DueVol(r) = DOMAIN evq /\ \A k \in DOMAIN evq : DueVol(r)[k] \in Nat
  BY <1>3 DEF DueVol
<1>5. DOMAIN evq = 1 .. Len(evq) /\ Len(evq) \in Nat
  BY <1>1
<1>6. DueSum(r) \in Nat
  BY <1>4, <1>5, SumSeqNat DEF DueSum
<1>7. CbVol(r) \in Nat
  BY <1>1, <1>2 DEF CbVol, NoEvent
<1>8. track[r].traded \in Nat /\ front[r].traded \in Nat
  BY <1>1 DEF TrackType, FrontType
<1> QED
  BY <1>4, <1>6, <1>7, <1>8

(* What is due is the same when queue and filter are. *)
LEMMA DueSame ==
  ASSUME NEW r \in Refs, evq' = evq, seen'[r] = seen[r]
  PROVE  DueSum(r)' = DueSum(r)
BY DEF DueSum, DueVol, Kept

(* What a callback takes from the queue. *)
LEMMA DueTail ==
  ASSUME TypeInv, NEW r \in Refs, evq # <<>>, evq' = Tail(evq),
         \A k \in DOMAIN evq \ {1} : IsTrade(k, r) =>
           (Has(seen'[r], evq[k].id) <=> Has(seen[r], evq[k].id))
  PROVE  DueSum(r) = DueVol(r)[1] + DueSum(r)' /\ DueSum(r)' \in Nat
<1>1. evq \in Seq(EventType)
  BY SMTT(30) DEF TypeInv, FrontTypes
<1>2. PICK n \in Nat : Len(evq) = n + 1
  <2>1. Len(evq) \in Nat \ {0}
    BY <1>1, TailFacts
  <2>2. Len(evq) - 1 \in Nat /\ Len(evq) = (Len(evq) - 1) + 1
    BY <2>1
  <2> QED
    BY <2>2
<1>3. DOMAIN evq = 1 .. n + 1
  BY <1>1, <1>2
<1>4. DOMAIN evq' = 1 .. n
  <2>1. DOMAIN Tail(evq) = 1 .. Len(evq) - 1
    BY <1>1, TailFacts
  <2> QED
    BY <1>2, <2>1
<1>5. \A k \in 1 .. n : evq'[k] = evq[k + 1] /\ k + 1 \in DOMAIN evq \ {1}
  BY <1>1, <1>3, <1>4, TailFacts
<1>6. PICK f, g : f = DueVol(r) /\ g = DueVol(r)'
  OBVIOUS
<1>7. DOMAIN f = 1 .. n + 1 /\ \A i \in 1 .. n + 1 : f[i] \in Nat
  BY <1>3, <1>6, VolTypes
<1>8. DOMAIN g = 1 .. n
  BY <1>4, <1>6 DEF DueVol
<1>9. \A k \in 1 .. n : g[k] = f[k + 1]
  <2> TAKE k \in 1 .. n
  <2>1. f[k + 1] = IF evq[k + 1].kind = "trade" /\ evq[k + 1].ref = r
                      /\ ~Has(seen[r], evq[k + 1].id)
                   THEN evq[k + 1].vol ELSE 0
    BY <1>5, <1>6 DEF DueVol, Kept, Has
  <2>2. g[k] = IF evq'[k].kind = "trade" /\ evq'[k].ref = r
                  /\ ~Has(seen'[r], evq'[k].id)
               THEN evq'[k].vol ELSE 0
    BY <1>4, <1>6 DEF DueVol, Kept, Has
  <2>3. k + 1 \in DOMAIN evq \ {1} /\ evq'[k] = evq[k + 1]
    BY <1>5
  <2>4. evq[k + 1].kind = "trade" /\ evq[k + 1].ref = r =>
          (Has(seen'[r], evq[k + 1].id) <=> Has(seen[r], evq[k + 1].id))
    BY <2>3 DEF IsTrade
  <2> QED
    BY <2>1, <2>2, <2>3, <2>4
<1>10. SumFunction(f) = f[1] + SumFunction(g)
  <2>1. \A i \in 1 .. n + 1 : f[i] \in Int
    BY <1>7
  <2> QED
    BY ZenonT(60), <1>7, <1>8, <1>9, <2>1, SumTail
<1>11. \A i \in 1 .. n : g[i] \in Nat
  BY <1>7, <1>9
<1>12. SumFunction(g) \in Nat
  BY <1>8, <1>11, SumSeqNat
<1> QED
  BY <1>6, <1>10, <1>12 DEF DueSum

(* What an event adds to what is due. *)
EventVol(r, e) ==
  IF e.kind = "trade" /\ e.ref = r /\ ~Has(seen[r], e.id) THEN e.vol ELSE 0

(* What one more event in the queue adds. *)
LEMMA DueAppend ==
  ASSUME TypeInv, NEW r \in Refs, NEW e \in EventType,
         evq' = Append(evq, e), seen'[r] = seen[r]
  PROVE  DueSum(r)' = DueSum(r) + EventVol(r, e)
<1>1. evq \in Seq(EventType)
  BY DEF TypeInv, FrontTypes
<1>2. PICK n \in Nat : Len(evq) = n
  BY <1>1
<1>3. /\ DOMAIN evq = 1 .. n /\ DOMAIN evq' = 1 .. n + 1 /\ evq'[n + 1] = e
      /\ \A k \in 1 .. n : evq'[k] = evq[k]
  BY <1>1, <1>2, AppendFacts
<1>4. PICK f, g : f = DueVol(r) /\ g = DueVol(r)'
  OBVIOUS
<1>5. DOMAIN f = 1 .. n /\ \A k \in 1 .. n : f[k] \in Int
  BY <1>3, <1>4, VolTypes
<1>6. DOMAIN g = 1 .. n + 1
  BY <1>3, <1>4 DEF DueVol
<1>7. \A k \in 1 .. n : g[k] = f[k] /\ k \in 1 .. n + 1
  BY <1>3, <1>4 DEF DueVol, Kept
<1>8. g[n + 1] = EventVol(r, e)
  BY <1>3, <1>4 DEF DueVol, Kept, EventVol, Has
<1>9. e.vol \in Int
  BY OrderAssumption DEF EventType
<1>10. \A k \in 1 .. n + 1 : g[k] \in Int
  BY <1>5, <1>7, <1>8, <1>9 DEF EventVol
<1>11. SumFunction(g) = SumFunction(f) + g[n + 1]
  BY <1>5, <1>6, <1>7, <1>10, SumMore
<1> QED
  BY <1>4, <1>8, <1>11 DEF DueSum

(* What two more events add, of which the first is no trade. *)
LEMMA DueAppendTwo ==
  ASSUME TypeInv, NEW r \in Refs, NEW d \in EventType, NEW e \in EventType,
         d.kind # "trade", evq' = evq \o <<d, e>>, seen'[r] = seen[r]
  PROVE  DueSum(r)' = DueSum(r) + EventVol(r, e)
<1>1. evq \in Seq(EventType) /\ <<d, e>> \in Seq(EventType)
  BY DEF TypeInv, FrontTypes
<1>2. PICK n \in Nat, m \in Nat : Len(evq) = n /\ m = n + 1
  BY <1>1
<1>3. PICK q : q = Append(evq, d)
  OBVIOUS
<1>4. evq' = Append(q, e) /\ q \in Seq(EventType)
  BY <1>1, <1>3
<1>5. /\ DOMAIN evq = 1 .. n /\ DOMAIN evq' = 1 .. m + 1
      /\ DOMAIN q = 1 .. m
      /\ evq'[m] = d /\ evq'[m + 1] = e
      /\ \A k \in 1 .. n : evq'[k] = evq[k]
  <2>1. /\ DOMAIN q = 1 .. m /\ Len(q) = m /\ q[m] = d
        /\ DOMAIN evq = 1 .. n /\ \A k \in 1 .. n : q[k] = evq[k]
    BY <1>1, <1>2, <1>3, AppendFacts
  <2>2. /\ DOMAIN evq' = 1 .. m + 1 /\ evq'[m + 1] = e
        /\ \A k \in 1 .. m : evq'[k] = q[k]
    BY <1>4, <2>1, AppendFacts
  <2>3. m \in 1 .. m /\ \A k \in 1 .. n : k \in 1 .. m
    BY <1>2
  <2> QED
    BY <2>1, <2>2, <2>3
<1>6. PICK f, g : f = DueVol(r) /\ g = DueVol(r)'
  OBVIOUS
<1>7. PICK h : h = [k \in 1 .. m |-> g[k]]
  OBVIOUS
<1>8. DOMAIN f = 1 .. n /\ \A k \in 1 .. n : f[k] \in Int
  <2>1. DOMAIN evq = 1 .. n
    BY <1>5
  <2>2. DOMAIN f = DOMAIN evq /\ \A k \in DOMAIN evq : f[k] \in Nat
    BY <1>6, VolTypes
  <2> QED
    BY <2>1, <2>2
<1>9. DOMAIN g = 1 .. m + 1 /\ DOMAIN h = 1 .. m
  BY <1>5, <1>6, <1>7 DEF DueVol
<1>10. \A k \in 1 .. n : g[k] = f[k]
  BY <1>5, <1>6 DEF DueVol, Kept
<1>11. g[m + 1] = EventVol(r, e) /\ g[m] = 0
  <2>1. m \in DOMAIN evq' /\ m + 1 \in DOMAIN evq'
    BY <1>2, <1>5
  <2> QED
    BY <1>5, <1>6, <2>1 DEF DueVol, Kept, EventVol, Has
<1>12. e.vol \in Int
  BY OrderAssumption DEF EventType
<1>13. \A k \in 1 .. m + 1 : g[k] \in Int
  <2>1. g[m] \in Int /\ g[m + 1] \in Int
    BY <1>11, <1>12 DEF EventVol
  <2>2. \A k \in 1 .. m + 1 : k \in 1 .. n \/ k = m \/ k = m + 1
    BY <1>2
  <2> QED
    BY <1>8, <1>10, <2>1, <2>2
<1>14. /\ \A k \in 1 .. m : h[k] \in Int /\ h[k] = g[k]
       /\ \A k \in 1 .. n : h[k] = f[k]
  BY <1>2, <1>10, <1>13, <1>7
<1>15. SumFunction(g) = SumFunction(h) + g[m + 1]
  BY <1>9, <1>13, <1>14, SumMore
<1>16. SumFunction(h) = SumFunction(f) + h[m]
  BY <1>2, <1>8, <1>9, <1>14, SumMore
<1>17. h[m] = 0 /\ SumFunction(f) \in Int
  <2>1. m \in 1 .. m
    BY <1>2
  <2>2. DueSum(r) \in Nat
    BY VolTypes
  <2> QED
    BY <1>2, <1>6, <1>11, <1>14, <2>1, <2>2 DEF DueSum
<1> QED
  BY <1>6, <1>11, <1>15, <1>16, <1>17 DEF DueSum

-----------------------------------------------------------------------------
(* What a step of the front does to the order r with the event e: it tells *)
(* a new state or refuses a cancel, it repeats a trade, or it trades.      *)
Tells(r, e) ==
  /\ e.kind # "trade" /\ ~(e.kind = "order" /\ e.what = "AllTraded")
  /\ evq' = Append(evq, e) /\ ntrade' = ntrade
  /\ \A q \in Refs : front'[q].traded = front[q].traded
  /\ FinalEvent(e) => front[r].st # "closed"
  /\ front'[r].st = "closed" <=> front[r].st = "closed" \/ FinalEvent(e)

Repeats(r, e) ==
  /\ e.kind = "trade" /\ seen[r] # <<>> /\ e.id = seen[r][1]
  /\ cb.ref # r /\ \A i \in DOMAIN evq : evq[i].ref # r
  /\ evq' = Append(evq, e) /\ front' = front /\ ntrade' = ntrade

Trades(r, d, e) ==
  /\ d.kind = "order" /\ d.ref = r /\ ~FinalEvent(d)
  /\ e.kind = "trade" /\ e.id = ntrade + 1
  /\ evq' = evq \o <<d, e>> /\ ntrade' = ntrade + 1
  /\ front[r].st = "queued" /\ front'[r].traded = front[r].traded + e.vol
  /\ front'[r].st = "closed" <=> front'[r].traded = Vol
  /\ d.what = "AllTraded" <=> front'[r].traded = Vol

FrontDoes(r, d, e) ==
  /\ frontOnly /\ e.ref = r /\ front[r].st # "none"
  /\ front' \in [Refs -> FrontType] /\ front'[r].oid = front[r].oid
  /\ front'[r].st # "none"
  /\ \A q \in Refs \ {r} : front'[q] = front[q]
  /\ Tells(r, e) \/ Repeats(r, e) \/ Trades(r, d, e)

(* Every step of the front tells, repeats, or trades. *)
LEMMA FrontCases ==
  ASSUME TypeInv, FreshInv, Front
  PROVE  \E r \in Refs, d, e \in EventType : FrontDoes(r, d, e)
<1>1. /\ MaxOrders \in Nat /\ Vol \in Nat \ {0} /\ 0 \in 0 .. Vol /\ 1 \in 0 .. Vol
      /\ MaxDups \in Nat
  BY OrderAssumption
<1>2. /\ front \in [Refs -> FrontType] /\ evq \in Seq(EventType)
      /\ ntrade \in Nat /\ dups \in 0 .. MaxDups
  BY DEF TypeInv, FrontTypes
<1>3. ASSUME NEW r \in Refs, NEW from, NEW to, NEW e \in EventType,
             e.ref = r, FrontMoves(r, from, to, <<e>>),
             from \in {"sent", "accepted"}, to \in {"accepted", "queued", "closed"},
             to = "closed" <=> FinalEvent(e),
             e.kind \in {"order", "reject"}, e.what # "AllTraded"
      PROVE  FrontDoes(r, e, e)
  <2>1. front' = [front EXCEPT ![r].st = to] /\ front[r].st = from
    BY <1>3 DEF FrontMoves
  <2>2. /\ front'[r] = [st |-> to, traded |-> front[r].traded,
                        cxl |-> front[r].cxl, oid |-> front[r].oid]
        /\ front' = [q \in Refs |-> front'[q]]
        /\ \A q \in Refs \ {r} : front'[q] = front[q]
    BY <1>2, <2>1 DEF FrontType
  <2>3. front'[r] \in FrontType
    BY <1>1, <1>2, <1>3, <2>2 DEF FrontType
  <2>4. front' \in [Refs -> FrontType]
    BY <1>2, <2>2, <2>3
  <2>5. /\ evq' = Append(evq, e) /\ ntrade' = ntrade /\ frontOnly
    BY <1>2, <1>3, OneEvent DEF FrontMoves
  <2>6. Tells(r, e)
    BY <1>3, <2>1, <2>2, <2>5 DEF Tells
  <2> QED
    BY <1>3, <2>1, <2>2, <2>4, <2>5, <2>6 DEF FrontDoes
<1>4. ASSUME NEW r \in Refs, Answers(r)
      PROVE  \E d, e \in EventType : FrontDoes(r, d, e)
  <2>1. CASE FrontAccepts(r)
    <3>1. PICK e : e = Event("order", r, "Unknown", 0, 0)
      OBVIOUS
    <3>2. e \in EventType /\ e.ref = r
      BY <1>1, <3>1 DEF Event, EventType
    <3>3. ~FinalEvent(e) /\ e.kind = "order" /\ e.what # "AllTraded"
      BY <3>1 DEF Event, FinalEvent
    <3>4. FrontMoves(r, "sent", "accepted", <<e>>)
      BY <2>1, <3>1 DEF FrontAccepts
    <3> QED
      BY <1>3, <3>2, <3>3, <3>4
  <2>2. CASE FrontRejects(r)
    <3>1. PICK e : e = Event("reject", r, "REJECT", 0, 0)
      OBVIOUS
    <3>2. e \in EventType /\ e.ref = r
      BY <1>1, <3>1 DEF Event, EventType
    <3>3. FinalEvent(e) /\ e.kind = "reject" /\ e.what # "AllTraded"
      BY <3>1 DEF Event, FinalEvent
    <3>4. FrontMoves(r, "sent", "closed", <<e>>)
      BY <2>2, <3>1 DEF FrontRejects
    <3> QED
      BY <1>3, <3>2, <3>3, <3>4
  <2>3. CASE MarketRejects(r)
    <3>1. PICK e : e = Event("reject", r, "MARKET_REJECT", 0, 0)
      OBVIOUS
    <3>2. e \in EventType /\ e.ref = r
      BY <1>1, <3>1 DEF Event, EventType
    <3>3. FinalEvent(e) /\ e.kind = "reject" /\ e.what # "AllTraded"
      BY <3>1 DEF Event, FinalEvent
    <3>4. FrontMoves(r, "accepted", "closed", <<e>>)
      BY <2>3, <3>1 DEF MarketRejects
    <3> QED
      BY <1>3, <3>2, <3>3, <3>4
  <2>4. CASE MarketQueues(r)
    <3>1. PICK e : e = Event("order", r, "NoTradeQueueing", 0, 0)
      OBVIOUS
    <3>2. e \in EventType /\ e.ref = r
      BY <1>1, <3>1 DEF Event, EventType
    <3>3. ~FinalEvent(e) /\ e.kind = "order" /\ e.what # "AllTraded"
      BY <3>1 DEF Event, FinalEvent
    <3>4. FrontMoves(r, "accepted", "queued", <<e>>)
      BY <2>4, <3>1 DEF MarketQueues
    <3> QED
      BY <1>3, <3>2, <3>3, <3>4
  <2>5. CASE MarketCancels(r)
    <3>1. PICK e : e = Event("order", r, "Canceled", Vol - front[r].traded, 0)
      OBVIOUS
    <3>2. Vol - front[r].traded \in 0 .. Vol
      BY <1>1, <1>2 DEF FrontType
    <3>3. e \in EventType /\ e.ref = r
      BY <1>1, <3>1, <3>2 DEF Event, EventType
    <3>4. /\ front[r].st = "queued"
          /\ front' = [front EXCEPT ![r].st = "closed", ![r].cxl = FALSE]
          /\ evq' = Append(evq, e) /\ ntrade' = ntrade /\ frontOnly
      BY <2>5, <3>1 DEF MarketCancels
    <3>5. /\ front'[r] = [st |-> "closed", traded |-> front[r].traded,
                           cxl |-> FALSE, oid |-> front[r].oid]
          /\ front' = [q \in Refs |-> front'[q]]
          /\ \A q \in Refs \ {r} : front'[q] = front[q]
      BY <1>2, <3>4 DEF FrontType
    <3>6. front'[r] \in FrontType
      BY <1>1, <1>2, <3>5 DEF FrontType
    <3>7. front' \in [Refs -> FrontType]
      BY <1>2, <3>5, <3>6
    <3>8. FinalEvent(e) /\ e.kind = "order" /\ e.what # "AllTraded"
      BY <3>1 DEF Event, FinalEvent
    <3>9. \A q \in Refs : front'[q].traded = front[q].traded
      BY <3>5
    <3>10. front'[r].st = "closed" /\ front[r].st # "closed"
      BY <3>4, <3>5
    <3>11. Tells(r, e)
      BY <3>4, <3>8, <3>9, <3>10 DEF Tells
    <3> QED
      BY <3>3, <3>4, <3>5, <3>7, <3>11 DEF FrontDoes
  <2>6. CASE CancelRefused(r)
    <3>1. PICK by \in {"front", "market"} :
            evq' = Append(evq, Event("action", r, by, 0, 0))
      BY <2>6 DEF CancelRefused
    <3>2. PICK e : e = Event("action", r, by, 0, 0)
      OBVIOUS
    <3>3. e \in EventType /\ e.ref = r
      BY <1>1, <3>2 DEF Event, EventType
    <3>4. /\ front[r].st # "none" /\ ntrade' = ntrade /\ frontOnly
          /\ front' = [front EXCEPT ![r].cxl = FALSE]
      BY <2>6 DEF CancelRefused, FreshInv, NoOrder
    <3>5. /\ front'[r] = [st |-> front[r].st, traded |-> front[r].traded,
                           cxl |-> FALSE, oid |-> front[r].oid]
          /\ front' \in [Refs -> FrontType]
          /\ \A q \in Refs \ {r} : front'[q] = front[q]
      BY <1>2, <3>4 DEF FrontType
    <3>6. ~FinalEvent(e) /\ e.kind = "action"
      BY <3>2 DEF Event, FinalEvent
    <3>7. Tells(r, e)
      BY <3>1, <3>2, <3>4, <3>5, <3>6 DEF Tells
    <3> QED
      BY <3>3, <3>4, <3>5, <3>7 DEF FrontDoes
  <2> QED
    BY <1>4, <2>1, <2>2, <2>3, <2>4, <2>5, <2>6 DEF Answers
<1>5. ASSUME NEW r \in Refs, TradeAgain(r)
      PROVE  \E d, e \in EventType : FrontDoes(r, d, e)
  <2>1. PICK e : e = Event("trade", r, "Trade", 1, Head(seen[r]))
    OBVIOUS
  <2>2. seen[r] \in Seq(Nat) /\ seen[r] # <<>>
    BY <1>5 DEF TradeAgain, TypeInv, EngineType
  <2>3. Head(seen[r]) \in Nat /\ Head(seen[r]) = seen[r][1]
    BY <2>2, TailFacts
  <2>4. e \in EventType /\ e.ref = r
    BY <1>1, <2>1, <2>3 DEF Event, EventType
  <2>5. front[r].st # "none"
    BY <2>2 DEF FreshInv
  <2>6. e.kind = "trade" /\ e.id = seen[r][1]
    BY <2>1, <2>3 DEF Event
  <2>7. Repeats(r, e) /\ frontOnly
    BY <1>5, <2>1, <2>2, <2>6 DEF TradeAgain, Repeats
  <2> QED
    BY <1>2, <2>4, <2>5, <2>7 DEF FrontDoes, Repeats
<1>6. ASSUME NEW r \in Refs, NEW n \in 1 .. Vol, MarketTrades(r, n)
      PROVE  \E d, e \in EventType : FrontDoes(r, d, e)
  <2>1. PICK left : left = Vol - front[r].traded - n
    OBVIOUS
  <2>2. PICK what \in {"AllTraded", "PartTradedQueueing"} :
          /\ what = "AllTraded" <=> left = 0
          /\ evq' = evq \o <<Event("order", r, what, 0, 0),
                             Event("trade", r, "Trade", n, ntrade + 1)>>
    BY <1>6, <2>1 DEF MarketTrades
  <2>3. PICK d, e : /\ d = Event("order", r, what, 0, 0)
                    /\ e = Event("trade", r, "Trade", n, ntrade + 1)
    OBVIOUS
  <2>4. d \in EventType /\ d.ref = r /\ e \in EventType /\ e.ref = r
    <3>1. n \in 0 .. Vol /\ ntrade + 1 \in Nat
      BY <1>1, <1>2
    <3>2. d \in EventType /\ d.ref = r
      BY <1>1, <2>3 DEF Event, EventType
    <3>3. e \in EventType /\ e.ref = r
      BY <1>1, <2>3, <3>1 DEF Event, EventType
    <3> QED
      BY <3>2, <3>3
  <2>5. PICK to \in {"closed", "queued"} :
          /\ front' = [front EXCEPT ![r].traded = @ + n, ![r].st = to]
          /\ to = "closed" <=> left = 0
    BY <1>6, <2>1 DEF MarketTrades
  <2>6. /\ front'[r] = [st |-> to, traded |-> front[r].traded + n,
                         cxl |-> front[r].cxl, oid |-> front[r].oid]
        /\ front' = [q \in Refs |-> front'[q]]
        /\ \A q \in Refs \ {r} : front'[q] = front[q]
    BY <1>2, <2>5 DEF FrontType
  <2>7. /\ front[r].st = "queued" /\ front[r].traded + n \in 0 .. Vol
        /\ left = 0 <=> front[r].traded + n = Vol
    <3>1. front[r].traded \in 0 .. Vol
      BY <1>2 DEF FrontType
    <3>2. front[r].st = "queued" /\ left >= 0
      BY <1>6, <2>1 DEF MarketTrades
    <3> QED
      BY <1>1, <2>1, <3>1, <3>2
  <2>8. front'[r] \in FrontType
    BY <1>1, <1>2, <2>6, <2>7 DEF FrontType
  <2>9. front' \in [Refs -> FrontType]
    BY <1>2, <2>6, <2>8
  <2>10. /\ d.kind = "order" /\ ~FinalEvent(d) /\ d.what = what
         /\ e.kind = "trade" /\ e.id = ntrade + 1 /\ e.vol = n
    BY <2>2, <2>3 DEF Event, FinalEvent
  <2>11. ntrade' = ntrade + 1 /\ frontOnly
    BY <1>6 DEF MarketTrades
  <2>12. Trades(r, d, e)
    BY <2>2, <2>3, <2>4, <2>5, <2>6, <2>7, <2>10, <2>11 DEF Trades
  <2> QED
    BY <2>4, <2>5, <2>6, <2>7, <2>9, <2>11, <2>12 DEF FrontDoes
<1> QED
  BY <1>4, <1>5, <1>6 DEF Front

-----------------------------------------------------------------------------
(* What the beginning of a callback does with the event e. *)
BeginDoes(e) ==
  /\ cb = NoEvent /\ evq # <<>> /\ e = evq[1] /\ evq' = Tail(evq)
  /\ UNCHANGED <<hup, ots, sent, cancels, restarts, cmds, rtns, reqId, epc, ecmd,
                 eold, track, acct, front, ntrade, dups>>
  /\ \/ seen' = seen /\ (e.kind = "trade" => cb' = NoEvent)
     \/ /\ e.kind = "trade" /\ ~Has(seen[e.ref], e.id)
        /\ seen' = [seen EXCEPT ![e.ref] = Keep(e.ref, e.id)]
  /\ \/ cb' = NoEvent
     \/ /\ cb' \in EventType /\ cb'.kind = e.kind /\ cb'.ref = e.ref
        /\ cb'.what = e.what /\ cb'.vol = e.vol
        /\ cb'.from = track[e.ref].from /\ cb'.local = track[e.ref].local
        /\ e.kind # "order" => cb'.from
  /\ Plain => /\ Filled(e.ref) /\ track[e.ref].from
              /\ cb' = NoEvent => e.kind = "trade" /\ Has(seen[e.ref], e.id)

(* What the begin of a callback does to queue, filter and callback. *)
LEMMA BeginCases ==
  ASSUME BaseInv, CallbackBegin
  PROVE  \E e \in EventType : e.ref \in Used /\ BeginDoes(e)
<1>1. /\ TypeInv /\ FreshInv /\ evq \in Seq(EventType)
      /\ track \in [Refs -> TrackType] /\ reqId \in Nat
  BY DEF BaseInv, TypeInv, EngineType, FrontTypes
<1>2. PICK e : e = Head(evq)
  OBVIOUS
<1>3. /\ evq # <<>> /\ e \in EventType /\ e = evq[1] /\ 1 \in DOMAIN evq
      /\ evq' = Tail(evq) /\ cb = NoEvent
  BY <1>1, <1>2, TailFacts DEF CallbackBegin
<1>4. e.ref \in Used /\ e.ref \in Refs
  BY <1>3 DEF BaseInv, RefsInv, Used
<1>5. UNCHANGED <<hup, ots, sent, cancels, restarts, cmds, rtns, reqId, epc,
                  ecmd, eold, track, acct, front, ntrade, dups>>
  BY DEF CallbackBegin, helperVars
<1>6. Kept(e.ref, e.id) <=> Has(seen[e.ref], e.id)
  BY DEF Kept, Has
<1>7. \/ seen' = seen /\ (e.kind = "trade" => cb' = NoEvent)
      \/ /\ e.kind = "trade" /\ ~Has(seen[e.ref], e.id)
         /\ seen' = [seen EXCEPT ![e.ref] = Keep(e.ref, e.id)]
  BY <1>2, <1>6 DEF CallbackBegin, Dropped
<1>8. PICK f, l : f = track[e.ref].from /\ l = track[e.ref].local
  OBVIOUS
<1>9. f \in BOOLEAN /\ l \in 0 .. MaxOrders
  BY <1>1, <1>4, <1>8 DEF TrackType
<1>10. \/ cb' = NoEvent /\ Dropped(e)
       \/ ~Dropped(e) /\ cb' = [e EXCEPT !.from = f, !.local = l]
  BY <1>2, <1>8 DEF CallbackBegin
<1>11. CASE ~Dropped(e) /\ cb' = [e EXCEPT !.from = f, !.local = l]
  <2>1. /\ cb' \in EventType /\ cb'.kind = e.kind /\ cb'.ref = e.ref
        /\ cb'.what = e.what /\ cb'.vol = e.vol
        /\ cb'.from = f /\ cb'.local = l
    BY <1>3, <1>9, <1>11 DEF EventType
  <2>2. e.kind # "order" => f
    BY <1>8, <1>11 DEF Dropped
  <2>3. cb' # NoEvent
    BY <2>1 DEF EventType, NoEvent
  <2>4. Plain => Filled(e.ref) /\ track[e.ref].from
    <3>1. Plain => ~Filling(e.ref)
      BY <1>2 DEF CallbackBegin, Plain
    <3>2. ~Filling(e.ref) => Filled(e.ref)
      BY <1>1, <1>4 DEF Filling, Filled, Used, Begun
    <3> QED
      BY <1>1, <1>4, <3>1, <3>2 DEF FreshInv
  <2> QED
    BY <1>3, <1>4, <1>5, <1>7, <1>8, <2>1, <2>2, <2>3, <2>4 DEF BeginDoes
<1>12. CASE cb' = NoEvent /\ Dropped(e)
  <2>1. Plain => Filled(e.ref) /\ track[e.ref].from
    <3>1. Plain => ~Filling(e.ref)
      BY <1>2 DEF CallbackBegin, Plain
    <3>2. ~Filling(e.ref) => Filled(e.ref)
      BY <1>1, <1>4 DEF Filling, Filled, Used, Begun
    <3> QED
      BY <1>1, <1>4, <3>1, <3>2 DEF FreshInv
  <2>2. Plain => CheckRequestId(e.ref)
    BY <1>4, OrderAssumption DEF Plain, CheckRequestId, Refs
  <2>3. Plain => e.kind = "trade" /\ Has(seen[e.ref], e.id)
    BY <1>6, <1>12, <2>1, <2>2 DEF Dropped
  <2> QED
    BY <1>3, <1>4, <1>5, <1>7, <1>12, <2>1, <2>3 DEF BeginDoes
<1> QED
  BY <1>10, <1>11, <1>12

(* A step of the helper or of the listening thread counts nothing. *)
LEMMA QuietTraded ==
  ASSUME BaseInv, TradeInv, Helper \/ Listening \/ UNCHANGED vars, NEW r \in Refs
  PROVE  /\ UNCHANGED <<cb, seen, evq, ntrade>>
         /\ track'[r].traded = track[r].traded
         /\ front'[r].traded = front[r].traded
<1>1. UNCHANGED <<cb, seen, evq, ntrade>>
  BY HelperKeeps, ListeningKeeps DEF vars
<1>2. /\ TypeInv /\ FreshInv
      /\ track \in [Refs -> TrackType] /\ front \in [Refs -> FrontType]
      /\ reqId \in Nat
  BY DEF BaseInv, TypeInv, EngineType, FrontTypes
<1>3. CASE Helper \/ UNCHANGED vars
  BY <1>1, <1>3, HelperKeeps DEF vars
<1>4. CASE InsertSent
  <2>1. /\ front' = [front EXCEPT ![reqId] =
                       [st |-> "sent", traded |-> 0, cxl |-> FALSE,
                        oid |-> ecmd.oid]]
        /\ track' = track /\ epc = "insert"
    BY <1>4 DEF InsertSent
  <2>2. r = reqId => front[r].traded = 0
    BY <1>2, <2>1 DEF FreshInv, Begun, NoOrder
  <2> QED
    BY <1>1, <1>2, <2>1, <2>2
<1>5. CASE FillOrder
  <2>1. /\ track' = [track EXCEPT ![reqId].st = {"TDSEND"},
                        ![reqId].vol = Vol, ![reqId].traded = 0]
        /\ epc = "fill" /\ front' = front
    BY <1>5 DEF FillOrder, frontVars
  <2>2. r = reqId => track[r].traded = 0
    BY <1>2, <2>1 DEF TradeInv, Filled
  <2>3. r = reqId => track'[r].traded = 0
    BY <1>2, <2>1 DEF TrackType
  <2>4. r # reqId => track'[r] = track[r]
    BY <1>2, <2>1
  <2> QED
    BY <1>1, <2>1, <2>2, <2>3, <2>4
<1>6. CASE FillFrom
  <2>1. /\ track' = [track EXCEPT ![reqId].from = TRUE,
                                  ![reqId].local = ecmd.local]
        /\ front' = front
    BY <1>6 DEF FillFrom, frontVars
  <2> QED
    BY <1>1, <1>2, <2>1 DEF TrackType
<1>7. CASE CancelSent
  <2>1. front' = [front EXCEPT ![ecmd.ref].cxl = TRUE] /\ track' = track
    BY <1>7 DEF CancelSent
  <2> QED
    BY <1>1, <1>2, <2>1 DEF FrontType
<1>8. CASE CxlingStore
  <2>1. /\ track' = [track EXCEPT ![ecmd.ref].st = eold.st \cup {"CXLING"}]
        /\ front' = front
    BY <1>8 DEF CxlingStore, frontVars
  <2> QED
    BY <1>1, <1>2, <2>1 DEF TrackType
<1>9. CASE TakeCmd \/ InsertFails \/ InsertAck \/ OnNewLoad \/ OnNewStore
           \/ CancelFails \/ CxlingLoad
  BY <1>1, <1>9 DEF TakeCmd, InsertFails, InsertAck, OnNewLoad, OnNewStore,
                    CancelFails, CxlingLoad, frontVars
<1> QED
  BY <1>3, <1>4, <1>5, <1>6, <1>7, <1>8, <1>9 DEF Listening

(* A step of the front leaves what the engine has. *)
LEMMA FrontKeeps ==
  ASSUME NEW r \in Refs, NEW d, NEW e, FrontDoes(r, d, e)
  PROVE  UNCHANGED <<hup, ots, sent, cancels, restarts, cmds, rtns, reqId, epc,
                     ecmd, eold, cb, track, seen, acct>>
BY DEF FrontDoes, frontOnly, helperVars, engineVars

-----------------------------------------------------------------------------
(* The trades of an order come in order: kept by the beginning of a        *)
(* callback, ...                                                           *)
LEMMA TradeBegin ==
  ASSUME BaseInv, TradeInv, NEW e \in EventType, e.ref \in Used, BeginDoes(e)
  PROVE  TradeInv'
<1>1. /\ TypeInv /\ FreshInv /\ evq \in Seq(EventType) /\ ntrade \in Nat
      /\ seen \in [Refs -> Seq(Nat)] /\ e.ref \in Refs /\ e.id \in Nat
  BY DEF BaseInv, TypeInv, EngineType, FrontTypes, Used, EventType
<1>2. /\ DOMAIN evq' \subseteq Int /\ 1 \in DOMAIN evq /\ e = evq[1]
      /\ \A k \in DOMAIN evq' :
           evq'[k] = evq[k + 1] /\ k + 1 \in DOMAIN evq /\ 1 < k + 1
  <2>1. evq # <<>> /\ evq' = Tail(evq) /\ e = evq[1]
    BY DEF BeginDoes
  <2>2. DOMAIN evq' = 1 .. Len(evq) - 1 /\ 1 \in DOMAIN evq /\ Len(evq) \in Nat
    BY <1>1, <2>1, TailFacts
  <2>3. \A k \in DOMAIN evq' : evq'[k] = evq[k + 1] /\ k + 1 \in DOMAIN evq
    BY <1>1, <2>1, TailFacts
  <2> QED
    BY <2>1, <2>2, <2>3
<1>3. \A r \in Refs, k \in DOMAIN evq' : IsTrade(k, r)' => IsTrade(k + 1, r)
  BY <1>2 DEF IsTrade
<1>4. UNCHANGED <<ntrade, track, reqId, epc>>
  BY DEF BeginDoes
<1>5. ASSUME NEW r \in Refs
      PROVE  /\ \A i \in DOMAIN seen'[r] :
                  seen'[r][i] <= ntrade /\ seen'[r][i] <= seen'[r][1]
             /\ \A k \in DOMAIN evq' : IsTrade(k, r)' =>
                  /\ evq'[k].id <= ntrade
                  /\ seen'[r] # <<>> => seen'[r][1] <= evq'[k].id
  <2>1. /\ \A i \in DOMAIN seen[r] :
             seen[r][i] <= ntrade /\ seen[r][i] <= seen[r][1]
        /\ \A k \in DOMAIN evq : IsTrade(k, r) =>
             evq[k].id <= ntrade /\ (seen[r] # <<>> => seen[r][1] <= evq[k].id)
        /\ \A j, k \in DOMAIN evq :
             j < k /\ IsTrade(j, r) /\ IsTrade(k, r) => evq[j].id < evq[k].id
    BY DEF TradeInv
  <2>2. CASE seen'[r] = seen[r]
    BY <1>2, <1>3, <2>1, <2>2
  <2>3. CASE seen'[r] # seen[r]
    <3>1. /\ r = e.ref /\ e.kind = "trade" /\ seen'[r] = Keep(r, e.id)
      BY <1>1, <2>3 DEF BeginDoes
    <3>2. IsTrade(1, r)
      BY <1>2, <3>1 DEF IsTrade
    <3>3. e.id <= ntrade /\ (seen[r] # <<>> => seen[r][1] <= e.id)
      BY <1>2, <2>1, <3>2
    <3>4. seen[r] \in Seq(Nat)
      BY <1>1
    <3>5. /\ Keep(r, e.id) # <<>> /\ Keep(r, e.id)[1] = e.id
          /\ \A i \in DOMAIN Keep(r, e.id) :
               \/ Keep(r, e.id)[i] = e.id
               \/ \E j \in DOMAIN seen[r] : Keep(r, e.id)[i] = seen[r][j]
      BY <1>1, <3>4, KeepFacts
    <3>6. \A j \in DOMAIN seen[r] : seen[r][j] \in Nat /\ seen[r] # <<>> /\ seen[r][1] \in Nat
      BY <3>4
    <3>7. \A j \in DOMAIN seen[r] : seen[r][j] <= ntrade /\ seen[r][j] <= e.id
      BY <1>1, <2>1, <3>3, <3>6
    <3>8. \A i \in DOMAIN seen'[r] :
            seen'[r][i] <= ntrade /\ seen'[r][i] <= seen'[r][1]
      BY <1>1, <3>1, <3>3, <3>5, <3>7
    <3>9. ASSUME NEW k \in DOMAIN evq', IsTrade(k, r)'
          PROVE  evq'[k].id <= ntrade /\ seen'[r][1] <= evq'[k].id
      <4>1. /\ k + 1 \in DOMAIN evq /\ IsTrade(k + 1, r) /\ 1 < k + 1
            /\ evq'[k] = evq[k + 1]
        BY <1>2, <1>3, <3>9
      <4>2. e.id < evq[k + 1].id /\ evq[k + 1].id <= ntrade
        <5>1. PICK l : l = k + 1
          OBVIOUS
        <5>2. l \in DOMAIN evq /\ IsTrade(l, r) /\ 1 < l
          BY <4>1, <5>1
        <5>3. evq[1].id < evq[l].id /\ evq[l].id <= ntrade
          BY <1>2, <2>1, <3>2, <5>2
        <5> QED
          BY <1>2, <5>1, <5>3
      <4>3. evq[k + 1].id \in Nat
        <5>1. PICK l : l = k + 1
          OBVIOUS
        <5>2. l \in DOMAIN evq
          BY <4>1, <5>1
        <5>3. evq[l] \in EventType
          BY <1>1, <5>2
        <5>4. evq[l].id \in Nat
          BY <5>3 DEF EventType
        <5> QED
          BY <5>1, <5>4
      <4> QED
        BY <1>1, <3>1, <3>5, <4>1, <4>2, <4>3
    <3> QED
      BY <3>8, <3>9
  <2> QED
    BY <2>2, <2>3
<1>6. ASSUME NEW r \in Refs, NEW j \in DOMAIN evq', NEW k \in DOMAIN evq',
             j < k, IsTrade(j, r)', IsTrade(k, r)'
      PROVE  evq'[j].id < evq'[k].id
  <2>1. /\ j + 1 < k + 1 /\ j + 1 \in DOMAIN evq /\ k + 1 \in DOMAIN evq
        /\ evq'[j] = evq[j + 1] /\ evq'[k] = evq[k + 1]
    BY <1>2, <1>6
  <2>2. IsTrade(j + 1, r) /\ IsTrade(k + 1, r)
    BY <1>3, <1>6
  <2> QED
    BY <2>1, <2>2 DEF TradeInv
<1>7. ASSUME NEW r \in Refs
      PROVE  /\ ~Filled(r)' => track'[r].traded = 0
             /\ cb'.kind = "trade" /\ cb'.ref = r => Filled(r)'
  <2>1. Filled(r)' <=> Filled(r)
    BY <1>4 DEF Filled
  <2>2. cb'.kind = "trade" /\ cb'.ref = r => track[r].from
    BY DEF BeginDoes, NoEvent
  <2> QED
    BY <1>1, <1>4, <2>1, <2>2 DEF TradeInv, FreshInv
<1> QED
  BY <1>4, <1>5, <1>6, <1>7 DEF TradeInv

(* ... by the events of the front, ... *)
LEMMA TradeFront ==
  ASSUME BaseInv, TradeInv, NEW r \in Refs, NEW d \in EventType,
         NEW e \in EventType, FrontDoes(r, d, e)
  PROVE  TradeInv'
<1>1. /\ TypeInv /\ evq \in Seq(EventType) /\ ntrade \in Nat
      /\ seen \in [Refs -> Seq(Nat)] /\ e.id \in Nat
  BY DEF BaseInv, TypeInv, EngineType, FrontTypes, EventType
<1>2. UNCHANGED <<cb, track, seen, reqId, epc>>
  BY FrontKeeps
<1>3. /\ \A q \in Refs : /\ ~Filled(q)' => track'[q].traded = 0
                         /\ cb'.kind = "trade" /\ cb'.ref = q => Filled(q)'
      /\ ntrade' \in Nat /\ ntrade <= ntrade'
  BY <1>1, <1>2 DEF TradeInv, Filled, FrontDoes, Tells, Repeats, Trades
<1>4. PICK n \in Nat : n = Len(evq)
  BY <1>1
<1>5. DOMAIN evq = 1 .. n
  BY <1>1, <1>4
<1>6. PICK m \in Nat : /\ m > n /\ DOMAIN evq' = 1 .. m /\ evq'[m] = e
                       /\ \A k \in 1 .. m : \/ k \in DOMAIN evq /\ evq'[k] = evq[k]
                                            \/ k = m
                                            \/ evq'[k] = d /\ d.kind # "trade" /\ k < m
  <2>1. CASE evq' = Append(evq, e)
    <3>1. /\ DOMAIN evq' = 1 .. n + 1 /\ evq'[n + 1] = e
          /\ \A k \in 1 .. n : evq'[k] = evq[k]
      BY <1>1, <1>4, <1>5, <2>1, AppendFacts
    <3>2. n + 1 \in Nat /\ \A k \in 1 .. n + 1 : k \in 1 .. n \/ k = n + 1
      OBVIOUS
    <3> QED
      BY <1>5, <3>1, <3>2
  <2>2. CASE evq' = evq \o <<d, e>> /\ d.kind = "order"
    <3>1. PICK t : t = <<d, e>>
      OBVIOUS
    <3>2. /\ t \in Seq(EventType) /\ Len(t) = 2 /\ DOMAIN t = {1, 2}
          /\ t[1] = d /\ t[2] = e
      BY <3>1
    <3>3. /\ DOMAIN evq' = 1 .. n + 2
          /\ \A k \in DOMAIN evq : evq'[k] = evq[k]
          /\ \A k \in DOMAIN evq' \ DOMAIN evq :
               k - n \in DOMAIN t /\ evq'[k] = t[k - n]
      BY <1>1, <1>4, <2>2, <3>1, <3>2, ConcatFacts
    <3>4. n + 2 \in Nat /\ n + 2 \in 1 .. n + 2 /\ n + 2 \notin 1 .. n
          /\ (n + 2) - n = 2
      OBVIOUS
    <3>5. evq'[n + 2] = e
      BY <1>5, <3>2, <3>3, <3>4
    <3>6. ASSUME NEW k \in 1 .. n + 2
          PROVE  \/ k \in DOMAIN evq /\ evq'[k] = evq[k]
                 \/ k = n + 2
                 \/ evq'[k] = d /\ d.kind # "trade" /\ k < n + 2
      <4>1. CASE k \in 1 .. n
        BY <1>5, <3>3, <4>1
      <4>2. CASE k = n + 1
        <5>1. k \in DOMAIN evq' \ DOMAIN evq /\ k - n = 1
          BY <1>5, <3>3, <4>2
        <5> QED
          <6>1. evq'[k] = t[1]
            BY <3>3, <5>1
          <6>2. k < n + 2
            BY <4>2
          <6> QED
            BY <2>2, <3>2, <6>1, <6>2
      <4>3. k \in 1 .. n \/ k = n + 1 \/ k = n + 2
        OBVIOUS
      <4> QED
        BY <4>1, <4>2, <4>3
    <3>7. PICK m \in Nat : m = n + 2
      OBVIOUS
    <3>8. m > n /\ DOMAIN evq' = 1 .. m /\ evq'[m] = e
      BY <3>3, <3>5, <3>7
    <3>9. \A k \in 1 .. m : \/ k \in DOMAIN evq /\ evq'[k] = evq[k]
                            \/ k = m
                            \/ evq'[k] = d /\ d.kind # "trade" /\ k < m
      BY <3>6, <3>7
    <3> QED
      BY <3>8, <3>9
  <2> QED
    BY <2>1, <2>2 DEF FrontDoes, Tells, Repeats, Trades
<1>7. ASSUME NEW q \in Refs, NEW k \in DOMAIN evq', IsTrade(k, q)'
      PROVE  \/ IsTrade(k, q) /\ evq'[k] = evq[k] /\ k \in DOMAIN evq /\ k <= n
             \/ k = m /\ e.kind = "trade" /\ q = r
  <2>1. evq'[k].kind = "trade" /\ evq'[k].ref = q /\ e.ref = r
    BY <1>7 DEF IsTrade, FrontDoes
  <2>2. k \in 1 .. m
    BY <1>6
  <2>3. CASE k \in DOMAIN evq /\ evq'[k] = evq[k]
    BY <1>5, <2>1, <2>3 DEF IsTrade
  <2>4. CASE k = m
    BY <1>6, <2>1, <2>4
  <2>5. CASE evq'[k] = d /\ d.kind # "trade"
    BY <2>1, <2>5
  <2> QED
    BY <1>6, <2>2, <2>3, <2>4, <2>5
<1>8. \A k \in DOMAIN evq : evq[k].id \in Nat
  <2>1. \A k \in DOMAIN evq : evq[k] \in EventType
    BY <1>1
  <2>2. \A x \in EventType : x.id \in Nat
    BY DEF EventType
  <2> QED
    BY <2>1, <2>2
<1>9. ASSUME NEW q \in Refs
      PROVE  /\ \A i \in DOMAIN seen[q] :
                  seen[q][i] <= ntrade' /\ seen[q][i] <= seen[q][1]
             /\ \A k \in DOMAIN evq' : IsTrade(k, q)' =>
                  /\ evq'[k].id <= ntrade'
                  /\ seen[q] # <<>> => seen[q][1] <= evq'[k].id
  <2>1. seen[q] \in Seq(Nat) /\ \A i \in DOMAIN seen[q] : seen[q][i] \in Nat
    BY <1>1
  <2>2. \A i \in DOMAIN seen[q] :
          seen[q][i] <= ntrade /\ seen[q][i] <= seen[q][1]
    BY DEF TradeInv
  <2>3. ASSUME NEW k \in DOMAIN evq', IsTrade(k, q)'
        PROVE  /\ evq'[k].id <= ntrade'
               /\ seen[q] # <<>> => seen[q][1] <= evq'[k].id
    <3>1. CASE IsTrade(k, q) /\ evq'[k] = evq[k] /\ k \in DOMAIN evq
      BY <1>1, <1>3, <1>8, <3>1 DEF TradeInv
    <3>2. CASE k = m /\ e.kind = "trade" /\ q = r
      <4>1. evq'[k] = e
        BY <1>6, <3>2
      <4>2. seen[r] # <<>> => seen[r][1] \in Nat /\ seen[r][1] <= ntrade
        BY <2>1, <2>2, <3>2
      <4>3. CASE Repeats(r, e)
        BY <1>1, <3>2, <4>1, <4>2, <4>3 DEF Repeats
      <4>4. CASE Trades(r, d, e)
        BY <1>1, <3>2, <4>1, <4>2, <4>4 DEF Trades
      <4> QED
        BY <3>2, <4>3, <4>4 DEF FrontDoes, Tells
    <3> QED
      BY <1>7, <2>3, <3>1, <3>2
  <2> QED
    BY <1>1, <1>3, <2>1, <2>2, <2>3
<1>10. ASSUME NEW q \in Refs, NEW j \in DOMAIN evq', NEW k \in DOMAIN evq',
              j < k, IsTrade(j, q)', IsTrade(k, q)'
       PROVE  evq'[j].id < evq'[k].id
  <2>1. IsTrade(j, q) /\ evq'[j] = evq[j] /\ j \in DOMAIN evq
    BY <1>6, <1>7, <1>10
  <2>2. CASE IsTrade(k, q) /\ evq'[k] = evq[k] /\ k \in DOMAIN evq
    BY <1>10, <2>1, <2>2 DEF TradeInv
  <2>3. CASE k = m /\ e.kind = "trade" /\ q = r
    <3>1. Trades(r, d, e)
      BY <2>1, <2>3 DEF FrontDoes, Tells, Repeats, IsTrade
    <3>2. evq[j].id <= ntrade /\ evq[j].id \in Nat
      BY <1>8, <2>1 DEF TradeInv
    <3> QED
      BY <1>1, <1>6, <2>1, <2>3, <3>1, <3>2 DEF Trades
  <2> QED
    BY <1>7, <1>10, <2>2, <2>3
<1> QED
  BY <1>2, <1>3, <1>9, <1>10 DEF TradeInv

(* ... and by every step. *)
LEMMA TradeStep ==
  ASSUME BaseInv, TradeInv, [Next]_vars
  PROVE  TradeInv'
<1>1. CASE Helper \/ Listening \/ UNCHANGED vars
  <2>1. /\ UNCHANGED <<cb, seen, evq, ntrade>>
        /\ \A r \in Refs : track'[r].traded = track[r].traded
    <3>1. CASE Refs = {}
      BY <1>1, <3>1, HelperKeeps, ListeningKeeps DEF vars
    <3>2. CASE Refs # {}
      BY <1>1, <3>2, QuietTraded
    <3> QED
      BY <3>1, <3>2
  <2>2. \A r \in Refs : Filled(r) => Filled(r)'
    BY BegunStep
  <2> QED
    BY <2>1, <2>2 DEF TradeInv, IsTrade
<1>2. CASE CallbackBegin
  BY <1>2, BeginCases, TradeBegin
<1>3. CASE Handlers
  <2>1. Handled
    BY <1>3, HandledEffect DEF BaseInv
  <2>2. UNCHANGED <<seen, evq, ntrade, reqId, epc>> /\ cb' = NoEvent
    BY <2>1 DEF Handled, callbackUnchanged, frontVars
  <2>3. \A r \in Refs : ~Filled(r) => track'[r].traded = track[r].traded
    BY <2>1 DEF Handled, TradeInv
  <2>4. \A r \in Refs : Filled(r)' <=> Filled(r)
    BY <2>2 DEF Filled
  <2> QED
    BY <2>2, <2>3, <2>4 DEF TradeInv, IsTrade, NoEvent
<1>4. CASE Front
  BY <1>4, FrontCases, TradeFront DEF BaseInv
<1> QED
  BY <1>1, <1>2, <1>3, <1>4 DEF Next, Callbacks, Handlers

-----------------------------------------------------------------------------
(* What is counted, in a callback and still due is at most what was        *)
(* traded, and with Plain just that: kept by the beginning of a callback,  *)
(* which takes the volume of a trade from the queue, ...                   *)
LEMMA CountBegin ==
  ASSUME BaseInv, TradeInv, CountInv, NEW e \in EventType,
         e.ref \in Used, BeginDoes(e)
  PROVE  CountInv'
<1>1. /\ TypeInv /\ seen \in [Refs -> Seq(Nat)] /\ e.ref \in Refs
      /\ e.id \in Nat /\ e.vol \in Nat
  BY OrderAssumption DEF BaseInv, TypeInv, EngineType, FrontTypes, Used, EventType
<1>2. /\ cb = NoEvent /\ evq # <<>> /\ e = evq[1] /\ evq' = Tail(evq)
      /\ track' = track /\ front' = front /\ evq \in Seq(EventType)
  BY <1>1 DEF BeginDoes, TypeInv, FrontTypes
<1>3. 1 \in DOMAIN evq /\ \A k \in DOMAIN evq \ {1} : 1 < k
  BY <1>2, TailFacts
<1>4. \A k \in DOMAIN evq : evq[k].id \in Nat
  <2>1. \A k \in DOMAIN evq : evq[k] \in EventType
    BY <1>2
  <2>2. \A x \in EventType : x.id \in Nat
    BY DEF EventType
  <2> QED
    BY <2>1, <2>2
<1>5. ASSUME NEW r \in Refs
      PROVE  \A k \in DOMAIN evq \ {1} : IsTrade(k, r) =>
               (Has(seen'[r], evq[k].id) <=> Has(seen[r], evq[k].id))
  <2>1. CASE seen'[r] # seen[r]
    <3>1. /\ r = e.ref /\ e.kind = "trade" /\ seen'[r] = Keep(r, e.id)
      BY <1>1, <2>1 DEF BeginDoes
    <3>2. IsTrade(1, r)
      BY <1>2, <1>3, <3>1 DEF IsTrade
    <3>3. seen[r] \in Seq(Nat) /\ \A i \in DOMAIN seen[r] :
             seen[r][i] \in Nat /\ seen[r] # <<>> /\ seen[r][1] \in Nat
      BY <1>1
    <3>4. \A i \in DOMAIN seen[r] : seen[r][i] <= seen[r][1] /\ seen[r][1] <= e.id
      BY <1>2, <1>3, <3>2, <3>3 DEF TradeInv
    <3>5. \A i \in DOMAIN seen[r] : seen[r][i] <= e.id
      BY <1>1, <3>3, <3>4
    <3>6. \A i \in DOMAIN Keep(r, e.id) :
            \/ Keep(r, e.id)[i] = e.id
            \/ \E j \in DOMAIN seen[r] : Keep(r, e.id)[i] = seen[r][j]
      BY <1>1, <3>3, KeepFacts
    <3>7. ASSUME NEW k \in DOMAIN evq \ {1}, IsTrade(k, r)
          PROVE  ~Has(seen'[r], evq[k].id) /\ ~Has(seen[r], evq[k].id)
      <4>1. e.id < evq[k].id /\ evq[k].id \in Nat
        BY <1>2, <1>3, <1>4, <3>2, <3>7 DEF TradeInv
      <4>2. PICK x : x = evq[k].id
        OBVIOUS
      <4>3. ~Has(seen[r], x)
        BY <1>1, <3>3, <3>5, <4>1, <4>2 DEF Has
      <4>4. ~Has(seen'[r], x)
        BY <1>1, <3>1, <3>3, <3>5, <3>6, <4>1, <4>2 DEF Has
      <4> QED
        BY <4>2, <4>3, <4>4
    <3> QED
      BY <3>7
  <2> QED
    BY <2>1
<1>6. ASSUME NEW r \in Refs
      PROVE  /\ CbVol(r) = 0 /\ DueSum(r) = EventVol(r, e) + DueSum(r)'
             /\ EventVol(r, e) \in Nat
             /\ CbVol(r)' <= EventVol(r, e)
             /\ Plain => CbVol(r)' = EventVol(r, e)
             /\ CbVol(r)' \in Nat
  <2>1. DueSum(r) = DueVol(r)[1] + DueSum(r)'
    BY <1>1, <1>2, <1>5, DueTail
  <2>2. DueVol(r)[1] = EventVol(r, e)
    BY <1>2, <1>3 DEF DueVol, EventVol, Kept, Has
  <2>3. CbVol(r) = 0 /\ EventVol(r, e) \in Nat
    BY <1>1, <1>2 DEF CbVol, EventVol, NoEvent
  <2>4. CASE cb' = NoEvent
    <3>1. CbVol(r)' = 0
      BY <2>4 DEF CbVol, NoEvent
    <3>2. Plain => EventVol(r, e) = 0
      BY <2>4 DEF BeginDoes, EventVol
    <3> QED
      BY <2>1, <2>2, <2>3, <3>1, <3>2
  <2>5. CASE cb' # NoEvent
    <3>1. cb'.kind = e.kind /\ cb'.ref = e.ref /\ cb'.vol = e.vol
      BY <2>5 DEF BeginDoes
    <3>2. e.kind = "trade" => ~Has(seen[e.ref], e.id)
      BY <2>5 DEF BeginDoes
    <3>3. CbVol(r)' = EventVol(r, e)
      BY <3>1, <3>2 DEF CbVol, EventVol
    <3> QED
      BY <2>1, <2>2, <2>3, <3>3
  <2> QED
    BY <2>4, <2>5
<1>7. ASSUME NEW r \in Refs
      PROVE  /\ track'[r].traded + CbVol(r)' + DueSum(r)' <= front'[r].traded
             /\ Plain =>
                  track'[r].traded + CbVol(r)' + DueSum(r)' = front'[r].traded
  <2>1. /\ track[r].traded \in Nat /\ front[r].traded \in Nat
        /\ DueSum(r) \in Nat
    BY <1>1, VolTypes
  <2>2. DueSum(r)' \in Nat
    BY <1>1, <1>2, <1>5, DueTail
  <2>3. /\ track[r].traded + CbVol(r) + DueSum(r) <= front[r].traded
        /\ Plain => track[r].traded + CbVol(r) + DueSum(r) = front[r].traded
    BY DEF CountInv
  <2>4. track'[r].traded = track[r].traded /\ front'[r].traded = front[r].traded
    BY <1>2
  <2>5. /\ CbVol(r) = 0 /\ DueSum(r) = EventVol(r, e) + DueSum(r)'
        /\ EventVol(r, e) \in Nat /\ CbVol(r)' \in Nat
        /\ CbVol(r)' <= EventVol(r, e)
    BY <1>6
  <2>6. Plain => CbVol(r)' = EventVol(r, e)
    BY <1>6
  <2>7. PICK t \in Nat, f \in Nat, c \in Nat, d \in Nat, v \in Nat :
          /\ t = track[r].traded /\ f = front[r].traded /\ c = CbVol(r)'
          /\ d = DueSum(r)' /\ v = EventVol(r, e)
    BY <2>1, <2>2, <2>5
  <2>8. t + v + d <= f /\ (Plain => t + v + d = f)
    BY <2>3, <2>5, <2>7
  <2>9. t + c + d <= f
    BY <2>5, <2>7, <2>8
  <2>10. Plain => t + c + d = f
    BY <2>6, <2>7, <2>8
  <2> QED
    BY <2>4, <2>7, <2>9, <2>10
<1> QED
  BY <1>7 DEF CountInv, Plain

(* ... by the handlers, which count it, ... *)
LEMMA CountHandled ==
  ASSUME BaseInv, CountInv, Handled
  PROVE  CountInv'
<1>1. /\ UNCHANGED <<seen, evq, front>> /\ cb' = NoEvent /\ TypeInv
  BY DEF Handled, callbackUnchanged, frontVars, BaseInv
<1>2. ASSUME NEW r \in Refs
      PROVE  track'[r].traded + CbVol(r)' + DueSum(r)'
               = track[r].traded + CbVol(r) + DueSum(r)
  <2>1. DueSum(r)' = DueSum(r)
    BY <1>1, DueSame
  <2>2. CbVol(r)' = 0
    BY <1>1 DEF CbVol, NoEvent
  <2>3. /\ track[r].traded \in Nat /\ CbVol(r) \in Nat /\ DueSum(r) \in Nat
    BY <1>1, VolTypes
  <2>4. track'[r].traded = track[r].traded + CbVol(r)
    <3>1. CASE r # cb.ref
      BY <2>3, <3>1 DEF Handled, CbVol
    <3>2. CASE r = cb.ref
      BY <2>3, <3>2 DEF Handled, CbVol
    <3> QED
      BY <3>1, <3>2
  <2> QED
    BY <2>1, <2>2, <2>3, <2>4
<1> QED
  BY <1>1, <1>2 DEF CountInv, Plain

(* ... and by the front, which puts a trade that is new in the queue. *)
LEMMA CountFront ==
  ASSUME BaseInv, TradeInv, CountInv, NEW r \in Refs, NEW d \in EventType,
         NEW e \in EventType, FrontDoes(r, d, e)
  PROVE  CountInv'
<1>1. /\ TypeInv /\ ntrade \in Nat /\ seen \in [Refs -> Seq(Nat)]
  BY DEF BaseInv, TypeInv, EngineType, FrontTypes
<1>2. UNCHANGED <<cb, track, seen>> /\ e.ref = r
  BY FrontKeeps DEF FrontDoes
<1>3. ASSUME NEW q \in Refs
      PROVE  /\ DueSum(q)' = DueSum(q) + EventVol(q, e)
             /\ CbVol(q)' = CbVol(q) /\ track'[q] = track[q]
  <2>1. seen'[q] = seen[q] /\ CbVol(q)' = CbVol(q) /\ track'[q] = track[q]
    BY <1>2 DEF CbVol
  <2>2. CASE evq' = Append(evq, e)
    BY <1>1, <2>1, <2>2, DueAppend
  <2>3. CASE evq' = evq \o <<d, e>> /\ d.kind = "order"
    <3>1. d.kind # "trade"
      BY <2>3
    <3> QED
      BY <1>1, <2>1, <2>3, <3>1, DueAppendTwo
  <2> QED
    BY <2>1, <2>2, <2>3 DEF FrontDoes, Tells, Repeats, Trades
<1>4. ASSUME NEW q \in Refs
      PROVE  /\ front'[q].traded = front[q].traded + EventVol(q, e)
             /\ EventVol(q, e) \in Nat
  <2>1. front[q].traded \in Nat /\ e.vol \in Nat /\ e.id \in Nat
    BY <1>1, VolTypes, OrderAssumption DEF EventType
  <2>2. CASE q # r
    <3>1. EventVol(q, e) = 0 /\ front'[q] = front[q]
      BY <1>2, <2>2 DEF EventVol, FrontDoes
    <3> QED
      BY <2>1, <3>1
  <2>3. CASE q = r /\ Tells(r, e)
    <3>1. EventVol(q, e) = 0 /\ front'[q].traded = front[q].traded
      BY <2>3 DEF EventVol, Tells
    <3> QED
      BY <2>1, <3>1
  <2>4. CASE q = r /\ Repeats(r, e)
    <3>1. seen[r] \in Seq(Nat) /\ seen[r] # <<>>
      BY <1>1, <2>4 DEF Repeats
    <3>2. 1 \in DOMAIN seen[r]
      BY <3>1, TailFacts
    <3>3. Has(seen[r], e.id)
      BY <2>4, <3>2 DEF Has, Repeats
    <3>4. EventVol(q, e) = 0 /\ front'[q].traded = front[q].traded
      BY <2>4, <3>3 DEF EventVol, Repeats
    <3> QED
      BY <2>1, <3>4
  <2>5. CASE q = r /\ Trades(r, d, e)
    <3>1. \A i \in DOMAIN seen[r] : seen[r][i] \in Nat /\ seen[r][i] <= ntrade
      BY <1>1 DEF TradeInv
    <3>2. ~Has(seen[r], e.id)
      BY <1>1, <2>5, <3>1 DEF Has, Trades
    <3>3. EventVol(q, e) = e.vol
      BY <1>2, <2>5, <3>2 DEF EventVol, Trades
    <3> QED
      BY <2>1, <2>5, <3>3 DEF Trades
  <2> QED
    BY <2>2, <2>3, <2>4, <2>5 DEF FrontDoes
<1>5. ASSUME NEW q \in Refs
      PROVE  /\ track'[q].traded + CbVol(q)' + DueSum(q)' <= front'[q].traded
             /\ Plain =>
                  track'[q].traded + CbVol(q)' + DueSum(q)' = front'[q].traded
  <2>1. /\ track[q].traded \in Nat /\ front[q].traded \in Nat
        /\ DueSum(q) \in Nat /\ CbVol(q) \in Nat
    BY <1>1, VolTypes
  <2>2. /\ track[q].traded + CbVol(q) + DueSum(q) <= front[q].traded
        /\ Plain => track[q].traded + CbVol(q) + DueSum(q) = front[q].traded
    BY DEF CountInv
  <2> QED
    BY <1>3, <1>4, <2>1, <2>2
<1> QED
  BY <1>5 DEF CountInv, Plain

(* Every step keeps what is counted. *)
LEMMA CountStep ==
  ASSUME BaseInv, TradeInv, CountInv, [Next]_vars
  PROVE  CountInv'
<1>1. CASE Helper \/ Listening \/ UNCHANGED vars
  <2>1. ASSUME NEW r \in Refs
        PROVE  /\ track'[r].traded = track[r].traded
               /\ front'[r].traded = front[r].traded
               /\ CbVol(r)' = CbVol(r) /\ DueSum(r)' = DueSum(r)
    <3>1. /\ UNCHANGED <<cb, seen, evq>>
          /\ track'[r].traded = track[r].traded
          /\ front'[r].traded = front[r].traded
      BY <1>1, QuietTraded
    <3> QED
      BY <3>1, DueSame DEF CbVol
  <2> QED
    BY <2>1 DEF CountInv, Plain
<1>2. CASE CallbackBegin
  BY <1>2, BeginCases, CountBegin
<1>3. CASE Handlers
  BY <1>3, HandledEffect, CountHandled DEF BaseInv
<1>4. CASE Front
  BY <1>4, FrontCases, CountFront DEF BaseInv
<1> QED
  BY <1>1, <1>2, <1>3, <1>4 DEF Next, Callbacks, Handlers

(* With EarlyCallback FALSE a callback finds a track that was filled. *)
LEMMA PlainStep ==
  ASSUME BaseInv, PlainInv, [Next]_vars
  PROVE  PlainInv'
<1>1. CASE Helper \/ Listening \/ UNCHANGED vars
  <2>1. UNCHANGED cb
    BY <1>1, HelperKeeps, ListeningKeeps DEF vars
  <2>2. cb # NoEvent => cb.ref \in Refs
    BY DEF BaseInv, TypeInv, EngineType, EventType
  <2>3. \A r \in Refs : Filled(r) => Filled(r)'
    BY BegunStep
  <2> QED
    BY <2>1, <2>2, <2>3 DEF PlainInv, Plain
<1>2. CASE CallbackBegin
  <2>1. PICK e \in EventType : e.ref \in Used /\ BeginDoes(e)
    BY <1>2, BeginCases
  <2>2. Filled(e.ref)' <=> Filled(e.ref)
    BY <2>1 DEF BeginDoes, Filled
  <2>3. cb' # NoEvent => cb'.ref = e.ref /\ cb'.from = track[e.ref].from
    BY <2>1 DEF BeginDoes
  <2>4. Plain => Filled(e.ref) /\ track[e.ref].from
    BY <2>1 DEF BeginDoes
  <2>5. cb' # NoEvent => (Filled(cb.ref)' <=> Filled(e.ref)')
    BY <2>3 DEF Filled
  <2> QED
    BY <2>2, <2>3, <2>4, <2>5 DEF PlainInv, Plain
<1>3. CASE Handlers
  <2>1. cb' = NoEvent
    BY <1>3, HandledEffect DEF BaseInv, Handled
  <2> QED
    BY <2>1 DEF PlainInv
<1>4. CASE Front
  <2>1. PICK r \in Refs, d \in EventType, e \in EventType : FrontDoes(r, d, e)
    BY <1>4, FrontCases DEF BaseInv
  <2>2. UNCHANGED <<cb, reqId, epc>>
    BY <2>1, FrontKeeps
  <2> QED
    BY <2>2 DEF PlainInv, Plain, Filled
<1> QED
  BY <1>1, <1>2, <1>3, <1>4 DEF Next, Callbacks, Handlers

(* At the start nothing is traded. *)
LEMMA TradeInit ==
  ASSUME Init
  PROVE  TradeInv /\ CountInv /\ PlainInv
<1>1. /\ evq = <<>> /\ cb = NoEvent /\ DOMAIN evq = {}
      /\ \A r \in Refs : /\ seen[r] = <<>> /\ track[r] = NoTrack
                         /\ front[r] = NoOrder
  BY DEF Init
<1>2. \A r \in Refs : track[r].traded = 0 /\ front[r].traded = 0
  BY <1>1 DEF NoTrack, NoOrder
<1>3. \A r \in Refs : CbVol(r) = 0
  BY <1>1 DEF CbVol, NoEvent
<1>4. ASSUME NEW r \in Refs
      PROVE  DueSum(r) = 0
  <2>1. PICK f : f = DueVol(r)
    OBVIOUS
  <2>2. DOMAIN f = 1 .. 0 /\ 0 \in Nat /\ \A i \in 1 .. 0 : f[i] = 0 /\ f[i] \in Nat
    BY <1>1, <2>1 DEF DueVol
  <2>3. SumFunction(f) = 0
    BY <2>2, SumSeqNat
  <2> QED
    BY <2>1, <2>3 DEF DueSum
<1>5. CountInv
  BY <1>2, <1>3, <1>4 DEF CountInv
<1>6. TradeInv
  BY <1>1, <1>2 DEF TradeInv, NoEvent, IsTrade
<1> QED
  BY <1>1, <1>5, <1>6 DEF PlainInv

(* The engine never counts more than was traded, in every state. *)
THEOREM CountedAlways == Spec => [](BaseInv /\ TradeInv /\ CountInv /\ PlainInv)
<1>1. Init => BaseInv /\ TradeInv /\ CountInv /\ PlainInv
  BY BaseInit, TradeInit
<1>2. BaseInv /\ TradeInv /\ CountInv /\ PlainInv /\ [Next]_vars
        => (BaseInv /\ TradeInv /\ CountInv /\ PlainInv)'
  BY BaseStep, TradeStep, CountStep, PlainStep
<1> QED
  BY <1>1, <1>2, PTL DEF Spec

-----------------------------------------------------------------------------
(* The type invariant of the runs follows. *)
LEMMA TypeOKHolds ==
  ASSUME BaseInv, CountInv
  PROVE  TypeOK
<1> USE OrderAssumption
<1>1. TypeInv
  BY DEF BaseInv
<1>2. /\ hup \in {"up", "down", "reader"} /\ ots \in Seq(OtType)
      /\ sent \in 0 .. MaxOrders /\ cancels \in 0 .. MaxCancels
      /\ restarts \in 0 .. MaxRestarts
      /\ reqId \in 1 .. MaxOrders + 1
      /\ epc \in {"idle", "insert", "fill", "fillFrom", "ack", "onNew",
                  "onNewStore", "cancel", "cxling", "cxlingStore"}
      /\ \A r \in Refs : Len(seen[r]) <= FilterLen
      /\ acct \in Int
      /\ front \in [Refs -> FrontType]
      /\ ntrade \in Nat /\ dups \in 0 .. MaxDups
  BY <1>1 DEF TypeInv, HelperType, EngineType, FrontTypes
<1>3. cb.kind \in {"none", "order", "trade", "reject", "action"}
  BY <1>1 DEF TypeInv, EngineType, EventType, NoEvent
<1>4. track \in [Refs -> [st: SUBSET AllBits, vol: {0, Vol}, traded: 0 .. Vol,
                          from: BOOLEAN, local: 0 .. MaxOrders]]
  <2>1. track \in [Refs -> TrackType]
    BY <1>1 DEF TypeInv, EngineType
  <2>2. ASSUME NEW r \in Refs
        PROVE  track[r].traded \in 0 .. Vol
    <3>1. /\ CbVol(r) \in Nat /\ DueSum(r) \in Nat
          /\ track[r].traded \in Nat /\ front[r].traded \in Nat
      BY <1>1, VolTypes
    <3>2. track[r].traded + CbVol(r) + DueSum(r) <= front[r].traded
      BY DEF CountInv
    <3>3. front[r].traded \in 0 .. Vol
      BY <1>2 DEF FrontType
    <3> QED
      BY <3>1, <3>2, <3>3
  <2>3. \A r \in Refs : track[r] \in
          [st: SUBSET AllBits, vol: {0, Vol}, traded: 0 .. Vol,
           from: BOOLEAN, local: 0 .. MaxOrders]
    BY <2>1, <2>2 DEF TrackType
  <2> QED
    BY <2>1, <2>3
<1>5. \A i \in DOMAIN ots :
        ots[i] \in [oid: 1 .. MaxOrders, st: SUBSET AllBits,
                    traded: Nat, ref: Refs \cup {-1}]
  <2>1. \A i \in DOMAIN ots : ots[i] \in OtType
    BY <1>2
  <2> QED
    BY <2>1 DEF OtType
<1>6. front \in [Refs -> [st: {"none", "sent", "accepted", "queued", "closed"},
                          traded: 0 .. Vol, cxl: BOOLEAN, oid: 0 .. MaxOrders]]
  BY <1>2 DEF FrontType
<1> QED
  BY <1>2, <1>3, <1>4, <1>5, <1>6 DEF TypeOK

(* Every variable has its type, whatever the number of orders, cancels,    *)
(* repeated trades and restarts: the traded volume of a track stays within *)
(* the volume of its order (OnRtnTrade, testOtId).                         *)
THEOREM Typed == Spec => []TypeOK
<1>1. BaseInv /\ CountInv => TypeOK
  BY TypeOKHolds
<1> QED
  BY <1>1, CountedAlways, PTL

(* No trade is lost and none is counted twice, whatever the front reports  *)
(* once more and whenever the helper restarts: the callbacks come after    *)
(* the track is filled and the references stay within the range that is    *)
(* checked.                                                                *)
THEOREM TradesAreConserved ==
  ASSUME EarlyCallback = FALSE, MaxOrders <= RefEnd
  PROVE  Spec => []TradesConserved
<1>1. BaseInv /\ CountInv => TradesConserved
  <2> SUFFICES ASSUME BaseInv, CountInv, NEW r \in Refs
               PROVE  track[r].traded + Uncounted(r) = front[r].traded
    BY DEF TradesConserved
  <2>1. track[r].traded + CbVol(r) + DueSum(r) = front[r].traded
    BY DEF CountInv, Plain
  <2>2. Uncounted(r) = CbVol(r) + DueSum(r)
    BY DEF Uncounted, CbVol, DueSum
  <2>3. track[r].traded \in Nat /\ CbVol(r) \in Nat /\ DueSum(r) \in Nat
    BY VolTypes DEF BaseInv
  <2> QED
    BY <2>1, <2>2, <2>3
<1> QED
  BY <1>1, CountedAlways, PTL

-----------------------------------------------------------------------------
(* The orders are inserted in the order of their numbers, and one whose    *)
(* whole volume was traded is over.                                        *)
OrderInv ==
  /\ \A q, r \in Used : q < r => front[q].oid < front[r].oid
  /\ \A r \in Used : \A k \in DOMAIN cmds :
       cmds[k].cmd = "insert" => front[r].oid < cmds[k].oid
  /\ epc = "insert" => \A r \in Used : front[r].oid < ecmd.oid
  /\ \A r \in Refs : front[r].traded = Vol => front[r].st = "closed"

(* The order of a reference that was used stays, and one is used anew only *)
(* where the order is handed to the front.                                 *)
LEMMA OrderKeeps ==
  ASSUME BaseInv, [Next]_vars, NEW r \in Used
  PROVE  /\ r \in Refs /\ r \in Used' /\ front'[r].oid = front[r].oid
         /\ front[r].st # "none" /\ front'[r].st # "none"
<1>1. r \in Refs /\ Begun(r) /\ front \in [Refs -> FrontType] /\ reqId \in Nat
  BY DEF Used, BaseInv, TypeInv, FrontTypes, EngineType
<1>2. front[r].st # "none" /\ r \in Used'
  BY <1>1, BegunStep DEF BaseInv, FreshInv, Used
<1>3. front'[r].oid = front[r].oid /\ front'[r].st # "none"
  <2>1. CASE Helper \/ Callbacks \/ UNCHANGED vars
    <3>1. CallbackBegin \/ Handlers \/ Helper \/ UNCHANGED vars
      BY <2>1 DEF Callbacks, Handlers
    <3>2. front' = front
      BY <3>1, HelperKeeps, HandledEffect
         DEF CallbackBegin, Handled, callbackUnchanged, frontVars, vars, BaseInv
    <3> QED
      BY <1>2, <3>2
  <2>2. CASE InsertSent
    <3>1. /\ front' = [front EXCEPT ![reqId] =
                         [st |-> "sent", traded |-> 0, cxl |-> FALSE,
                          oid |-> ecmd.oid]]
          /\ epc = "insert"
      BY <2>2 DEF InsertSent
    <3>2. r # reqId
      BY <1>1, <3>1 DEF Begun
    <3> QED
      BY <1>1, <1>2, <3>1, <3>2
  <2>3. CASE CancelSent
    <3>1. front' = [front EXCEPT ![ecmd.ref].cxl = TRUE]
      BY <2>3 DEF CancelSent
    <3> QED
      BY <1>1, <1>2, <3>1 DEF FrontType
  <2>4. CASE Listening /\ ~InsertSent /\ ~CancelSent
    <3>1. front' = front
      BY <2>4 DEF Listening, TakeCmd, InsertFails, FillOrder, FillFrom, InsertAck,
           OnNewLoad, OnNewStore, CancelFails, CxlingLoad, CxlingStore, frontVars
    <3> QED
      BY <1>2, <3>1
  <2>5. CASE Front
    <3>1. PICK q \in Refs, d \in EventType, e \in EventType : FrontDoes(q, d, e)
      BY <2>5, FrontCases DEF BaseInv
    <3> QED
      BY <1>1, <1>2, <3>1 DEF FrontDoes
  <2> QED
    BY <2>1, <2>2, <2>3, <2>4, <2>5 DEF Next
<1> QED
  BY <1>1, <1>2, <1>3

(* That step is the insertion, and the reference is the next one. *)
LEMMA UsedAnew ==
  ASSUME BaseInv, [Next]_vars, NEW r \in Used', r \notin Used
  PROVE  /\ InsertSent /\ epc = "insert" /\ r = reqId
         /\ front'[r].oid = ecmd.oid /\ front'[r].traded = 0
         /\ front[r] = NoOrder /\ track[r] = NoTrack /\ track' = track
<1>1. r \in Refs /\ Begun(r)' /\ ~Begun(r) /\ reqId \in Nat
      /\ front \in [Refs -> FrontType]
  BY DEF Used, BaseInv, TypeInv, FrontTypes, EngineType
<1>2. Listening
  <2>1. CASE Helper \/ Callbacks \/ Front \/ UNCHANGED vars
    <3>1. reqId' = reqId /\ epc' = epc
      BY <2>1, HelperKeeps, OthersKeep
    <3> QED
      BY <1>1, <3>1 DEF Begun
  <2> QED
    BY <2>1 DEF Next
<1>3. CASE InsertAck
  <2>1. reqId' = reqId + 1 /\ epc = "ack" /\ epc' = "onNew"
    BY <1>3 DEF InsertAck
  <2>2. r < reqId + 1
    BY <1>1, <2>1 DEF Begun
  <2>3. r \in Nat
    BY <1>1, OrderAssumption DEF Refs
  <2>4. r < reqId \/ r = reqId
    BY <1>1, <2>2, <2>3
  <2> QED
    BY <1>1, <2>1, <2>4 DEF Begun
<1>4. CASE ~InsertAck /\ ~InsertSent
  <2>1. /\ reqId' = reqId
        /\ epc' \in {"fill", "fillFrom", "ack"} => epc \in {"fill", "fillFrom", "ack"}
    <3>1. CASE TakeCmd
      <4>1. cmds # <<>> /\ cmds \in Seq(CmdType) /\ epc' = Head(cmds).cmd /\ reqId' = reqId
        BY <3>1 DEF TakeCmd, BaseInv, TypeInv, HelperType
      <4>2. Head(cmds) \in CmdType
        BY <4>1, TailFacts
      <4>3. epc' \in {"insert", "cancel"}
        BY <4>1, <4>2 DEF CmdType
      <4> QED
        BY <4>1, <4>3
    <3>2. CASE FillOrder \/ FillFrom
      BY <3>2 DEF FillOrder, FillFrom
    <3>3. CASE InsertFails \/ OnNewLoad \/ OnNewStore \/ CancelFails \/ CancelSent
               \/ CxlingLoad \/ CxlingStore
      BY <3>3 DEF InsertFails, OnNewLoad, OnNewStore, CancelFails, CancelSent,
                  CxlingLoad, CxlingStore
    <3> QED
      BY <1>2, <1>4, <3>1, <3>2, <3>3 DEF Listening
  <2> QED
    BY <1>1, <2>1 DEF Begun
<1>5. CASE InsertSent
  <2>1. /\ front' = [front EXCEPT ![reqId] =
                       [st |-> "sent", traded |-> 0, cxl |-> FALSE,
                        oid |-> ecmd.oid]]
        /\ epc = "insert" /\ epc' = "fill" /\ reqId' = reqId /\ track' = track
    BY <1>5 DEF InsertSent
  <2>2. r = reqId
    BY <1>1, <2>1 DEF Begun
  <2>3. front[r] = NoOrder /\ track[r] = NoTrack
    BY <1>1 DEF BaseInv, FreshInv
  <2> QED
    BY <1>1, <1>5, <2>1, <2>2, <2>3
<1> QED
  BY <1>3, <1>4, <1>5

(* The order of a number is one order. *)
LEMMA IsOfFacts ==
  ASSUME BaseInv, OrderInv, NEW q \in Refs, NEW r \in Refs, NEW o
  PROVE  /\ IsOf(r, o) <=> r \in Used /\ front[r].oid = o
         /\ IsOf(q, o) /\ IsOf(r, o) => q = r
<1>1. IsOf(r, o) <=> r \in Used /\ front[r].oid = o
  BY DEF IsOf, BaseInv, FreshInv, Used, NoOrder
<1>2. IsOf(q, o) <=> q \in Used /\ front[q].oid = o
  BY DEF IsOf, BaseInv, FreshInv, Used, NoOrder
<1>3. front[q].oid \in Nat /\ q \in Nat /\ r \in Nat
  BY OrderAssumption DEF BaseInv, TypeInv, FrontTypes, FrontType, Refs
<1>4. q < r \/ r < q \/ q = r
  BY <1>3
<1> QED
  BY <1>1, <1>2, <1>3, <1>4 DEF OrderInv

(* Every step keeps the order of the orders. *)
LEMMA OrderStep ==
  ASSUME BaseInv, OrderInv, [Next]_vars
  PROVE  OrderInv'
<1>1. /\ TypeInv /\ CmdInv /\ FreshInv /\ reqId \in Nat /\ sent \in Nat
      /\ cmds \in Seq(CmdType) /\ front \in [Refs -> FrontType]
  BY DEF BaseInv, TypeInv, HelperType, EngineType, FrontTypes
<1>2. \A r \in Used : r \in Refs /\ front[r].oid \in Nat /\ front[r].oid <= sent
                      /\ r \in Nat
  BY <1>1 DEF FreshInv, Used, Refs
<1>3. \A r \in Used : r \in Used' /\ front'[r].oid = front[r].oid
  BY OrderKeeps
<1>4. \A r \in Used' : r \in Used \/ (InsertSent /\ epc = "insert" /\ r = reqId
                                      /\ front'[r].oid = ecmd.oid)
  BY UsedAnew
<1>5. InsertSent => /\ cmds' = cmds /\ epc' = "fill" /\ epc = "insert"
                    /\ \A r \in Used : r < reqId
  BY <1>1, <1>2 DEF InsertSent, Used, Begun
<1>6. ASSUME NEW q \in Used', NEW r \in Used', q < r
      PROVE  front'[q].oid < front'[r].oid
  <2>1. CASE q \in Used /\ r \in Used
    BY <1>3, <1>6, <2>1 DEF OrderInv
  <2>2. CASE r \notin Used /\ q \in Used
    BY <1>3, <1>4, <2>2 DEF OrderInv
  <2>3. CASE q \notin Used
    BY <1>1, <1>2, <1>4, <1>5, <1>6, <2>3
  <2> QED
    BY <2>1, <2>2, <2>3
<1>7. /\ \A r \in Used' : \A k \in DOMAIN cmds' :
           cmds'[k].cmd = "insert" => front'[r].oid < cmds'[k].oid
      /\ epc' = "insert" => \A r \in Used' : front'[r].oid < ecmd'.oid
  <2>1. CASE SendOrder
    <3>1. PICK c : /\ c = InsertCmd(sent + 1, Len(ots) + 1)
                   /\ cmds' = Append(cmds, c)
      BY <2>1 DEF SendOrder
    <3>2. c.oid = sent + 1 /\ UNCHANGED <<epc, ecmd>> /\ ~InsertSent
      BY <2>1, <3>1, HelperKeeps DEF InsertCmd, Helper, SendOrder, InsertSent, helperVars
    <3>3. \A k \in DOMAIN cmds' : (k \in DOMAIN cmds /\ cmds'[k] = cmds[k])
                                  \/ cmds'[k] = c
      BY <1>1, <3>1
    <3>4. ASSUME NEW r \in Used', NEW k \in DOMAIN cmds', cmds'[k].cmd = "insert"
          PROVE  front'[r].oid < cmds'[k].oid
      <4>1. r \in Used /\ front'[r].oid = front[r].oid
        BY <1>3, <1>4, <3>2
      <4>2. CASE k \in DOMAIN cmds /\ cmds'[k] = cmds[k]
        BY <3>4, <4>1, <4>2 DEF OrderInv
      <4>3. CASE cmds'[k] = c
        BY <1>1, <1>2, <3>2, <4>1, <4>3
      <4> QED
        BY <3>3, <4>2, <4>3
    <3>5. epc' = "insert" => \A r \in Used' : front'[r].oid < ecmd'.oid
      BY <1>3, <1>4, <3>2 DEF OrderInv
    <3> QED
      BY <3>4, <3>5
  <2>2. CASE \E i \in DOMAIN ots : DeleteOrder(i)
    <3>1. PICK i \in DOMAIN ots : DeleteOrder(i)
      BY <2>2
    <3>2. cmds' = Append(cmds, CancelCmd(ots[i], i)) /\ UNCHANGED <<epc, ecmd>>
          /\ ~InsertSent
      BY <3>1 DEF DeleteOrder, engineVars, InsertSent, helperVars
    <3>3. CancelCmd(ots[i], i).cmd = "cancel"
      BY DEF CancelCmd
    <3>4. \A k \in DOMAIN cmds' : (k \in DOMAIN cmds /\ cmds'[k] = cmds[k])
                                  \/ cmds'[k].cmd = "cancel"
      BY <1>1, <3>2, <3>3
    <3> QED
      BY <1>3, <1>4, <3>2, <3>4 DEF OrderInv
  <2>3. CASE TakeCmd
    <3>1. /\ cmds # <<>> /\ ecmd' = Head(cmds) /\ cmds' = Tail(cmds)
          /\ epc' = Head(cmds).cmd /\ ~InsertSent
      BY <2>3 DEF TakeCmd, InsertSent
    <3>2. /\ Head(cmds) = cmds[1] /\ 1 \in DOMAIN cmds
          /\ \A k \in DOMAIN cmds' : cmds'[k] = cmds[k + 1] /\ k + 1 \in DOMAIN cmds
      BY <1>1, <3>1, TailFacts
    <3>3. epc' = "insert" => \A r \in Used' : front'[r].oid < ecmd'.oid
      BY <1>3, <1>4, <3>1, <3>2 DEF OrderInv
    <3>4. ASSUME NEW r \in Used', NEW k \in DOMAIN cmds', cmds'[k].cmd = "insert"
          PROVE  front'[r].oid < cmds'[k].oid
      <4>1. PICK l : l = k + 1
        OBVIOUS
      <4>2. l \in DOMAIN cmds /\ cmds'[k] = cmds[l]
        BY <3>2, <4>1
      <4>3. r \in Used /\ front'[r].oid = front[r].oid
        BY <1>3, <1>4, <3>1
      <4> QED
        BY <3>4, <4>2, <4>3 DEF OrderInv
    <3> QED
      BY <3>3, <3>4
  <2>4. CASE InsertSent
    <3>1. epc' # "insert" /\ cmds' = cmds
      BY <1>5, <2>4
    <3>2. ASSUME NEW r \in Used', NEW k \in DOMAIN cmds, cmds[k].cmd = "insert"
          PROVE  front'[r].oid < cmds[k].oid
      <4>1. CASE r \in Used
        BY <1>3, <3>2, <4>1 DEF OrderInv
      <4>2. CASE r \notin Used
        BY <1>1, <1>4, <3>2, <4>2 DEF CmdInv, Inserting
      <4> QED
        BY <4>1, <4>2
    <3> QED
      BY <3>1, <3>2
  <2>5. CASE Listening /\ ~TakeCmd /\ ~InsertSent
    <3>1. cmds' = cmds /\ epc' # "insert"
      BY <2>5 DEF Listening, InsertFails, FillOrder, FillFrom, InsertAck,
           OnNewLoad, OnNewStore, CancelFails, CancelSent, CxlingLoad, CxlingStore
    <3> QED
      BY <1>3, <1>4, <2>5, <3>1 DEF OrderInv
  <2>6. CASE Callbacks \/ Front \/ UNCHANGED vars \/ GetRtn \/ HelperStop
             \/ HelperReader \/ HelperQuery
    <3>1. UNCHANGED <<cmds, epc, ecmd>> /\ ~InsertSent
      <4>1. CASE Callbacks \/ Front \/ UNCHANGED vars
        <5>1. UNCHANGED <<cmds, epc, ecmd>>
          BY <4>1, OthersKeep
        <5> QED
          BY <5>1 DEF InsertSent
      <4>2. CASE GetRtn \/ HelperStop \/ HelperReader \/ HelperQuery
        BY <4>2 DEF GetRtn, HelperStop, HelperReader, HelperQuery, engineVars,
                    InsertSent
      <4> QED
        BY <2>6, <4>1, <4>2
    <3> QED
      BY <1>3, <1>4, <3>1 DEF OrderInv
  <2> QED
    BY <2>1, <2>2, <2>3, <2>4, <2>5, <2>6 DEF Next, Helper
<1>8. ASSUME NEW r \in Refs, front'[r].traded = Vol
      PROVE  front'[r].st = "closed"
  <2>1. CASE front'[r] = front[r]
    BY <1>8, <2>1 DEF OrderInv
  <2>2. CASE InsertSent
    <3>1. front' = [front EXCEPT ![reqId] =
                      [st |-> "sent", traded |-> 0, cxl |-> FALSE,
                       oid |-> ecmd.oid]]
      BY <2>2 DEF InsertSent
    <3>2. r = reqId => front'[r].traded = 0
      BY <1>1, <3>1
    <3>3. r # reqId
      BY <1>8, <3>2, OrderAssumption
    <3> QED
      BY <1>1, <2>1, <3>1, <3>3
  <2>3. CASE CancelSent
    <3>1. front' = [front EXCEPT ![ecmd.ref].cxl = TRUE]
      BY <2>3 DEF CancelSent
    <3>2. front'[r].traded = front[r].traded /\ front'[r].st = front[r].st
      BY <1>1, <3>1 DEF FrontType
    <3> QED
      BY <1>8, <3>2 DEF OrderInv
  <2>4. CASE Front
    <3>1. PICK q \in Refs, d \in EventType, e \in EventType : FrontDoes(q, d, e)
      BY <2>4, FrontCases, <1>1
    <3>2. CASE r # q
      BY <2>1, <3>1, <3>2 DEF FrontDoes
    <3>3. CASE r = q
      <4>1. CASE Tells(r, e)
        BY <1>8, <4>1 DEF Tells, OrderInv
      <4>2. CASE Repeats(r, e)
        BY <1>8, <4>2 DEF Repeats, OrderInv
      <4>3. CASE Trades(r, d, e)
        BY <1>8, <4>3 DEF Trades
      <4> QED
        BY <3>1, <3>3, <4>1, <4>2, <4>3 DEF FrontDoes
    <3> QED
      BY <3>2, <3>3
  <2>5. CASE Helper \/ Callbacks \/ UNCHANGED vars
             \/ (Listening /\ ~InsertSent /\ ~CancelSent)
    <3>1. CallbackBegin \/ Handlers \/ Helper \/ UNCHANGED vars
            \/ (Listening /\ ~InsertSent /\ ~CancelSent)
      BY <2>5 DEF Callbacks, Handlers
    <3>2. CASE Listening /\ ~InsertSent /\ ~CancelSent
      <4>1. front' = front
        BY <3>2 DEF Listening, TakeCmd, InsertFails, FillOrder, FillFrom, InsertAck,
             OnNewLoad, OnNewStore, CancelFails, CxlingLoad, CxlingStore, frontVars
      <4> QED
        BY <2>1, <4>1
    <3>3. CASE CallbackBegin \/ Handlers \/ Helper \/ UNCHANGED vars
      <4>1. front' = front
        BY <1>1, <3>3, HelperKeeps, HandledEffect
           DEF CallbackBegin, Handled, callbackUnchanged, frontVars, vars
      <4> QED
        BY <2>1, <4>1
    <3> QED
      BY <3>1, <3>2, <3>3
  <2> QED
    BY <2>2, <2>3, <2>4, <2>5 DEF Next
<1> QED
  BY <1>6, <1>7, <1>8 DEF OrderInv

-----------------------------------------------------------------------------
(* What a message adds to the volume of the order with local id i, and the *)
(* volume of the executions on their way to it.                            *)
MsgVol(m, i) ==
  IF m.to /\ m.local = i /\ m.type = "EXECUTION" THEN m.vol ELSE 0
RtnVol(i) == [k \in DOMAIN rtns |-> MsgVol(rtns[k], i)]
RtnSum(i) == SumFunction(RtnVol(i))

(* What the helper holds of an order and what is on its way to it is what  *)
(* the engine has counted.                                                 *)
Held(i) ==
  /\ \A r \in Refs : IsOf(r, i) =>
       ots[i].traded + RtnSum(i) = track[r].traded
  /\ (\A r \in Refs : ~IsOf(r, i)) => ots[i].traded + RtnSum(i) = 0

HeldInv ==
  /\ cb.kind = "trade" => cb.from
  /\ restarts = 0 => \A i \in DOMAIN ots : Held(i)

(* No message is about an order that was not sent. *)
NumberInv ==
  restarts = 0 =>
    /\ \A k \in DOMAIN cmds : cmds[k].oid <= sent
    /\ ecmd.oid <= sent
    /\ \A k \in DOMAIN rtns : rtns[k].oid <= sent

(* The volumes on their way to an order are natural numbers. *)
LEMMA RtnTypes ==
  ASSUME TypeInv, NEW i
  PROVE  /\ DOMAIN RtnVol(i) = DOMAIN rtns
         /\ \A k \in DOMAIN rtns : RtnVol(i)[k] \in Nat
         /\ RtnSum(i) \in Nat
<1>1. rtns \in Seq(RtnType)
  BY DEF TypeInv, HelperType
<1>2. \A m \in RtnType : MsgVol(m, i) \in Nat
  BY DEF RtnType, MsgVol
<1>3. DOMAIN rtns = 1 .. Len(rtns) /\ Len(rtns) \in Nat
  BY <1>1
<1>4. /\ DOMAIN RtnVol(i) = DOMAIN rtns
      /\ \A k \in DOMAIN rtns : RtnVol(i)[k] \in Nat
  BY <1>1, <1>2 DEF RtnVol
<1>5. RtnSum(i) \in Nat
  BY <1>3, <1>4, SumSeqNat DEF RtnSum
<1> QED
  BY <1>4, <1>5

(* The helper takes the first of them, ... *)
LEMMA RtnTake ==
  ASSUME TypeInv, NEW i, rtns # <<>>, rtns' = Tail(rtns)
  PROVE  RtnSum(i) = MsgVol(rtns[1], i) + RtnSum(i)' /\ RtnSum(i)' \in Nat
<1>1. rtns \in Seq(RtnType)
  BY SMTT(30) DEF TypeInv, HelperType
<1>2. PICK n \in Nat : Len(rtns) = n + 1
  <2>1. Len(rtns) \in Nat \ {0}
    BY <1>1, TailFacts
  <2>2. Len(rtns) - 1 \in Nat /\ Len(rtns) = (Len(rtns) - 1) + 1
    BY <2>1
  <2> QED
    BY <2>2
<1>3. /\ DOMAIN rtns = 1 .. n + 1 /\ DOMAIN rtns' = 1 .. n /\ 1 \in DOMAIN rtns
      /\ \A k \in 1 .. n : rtns'[k] = rtns[k + 1] /\ k + 1 \in DOMAIN rtns
  <2>1. DOMAIN Tail(rtns) = 1 .. Len(rtns) - 1 /\ DOMAIN rtns = 1 .. Len(rtns)
        /\ 1 \in DOMAIN rtns
    BY <1>1, TailFacts
  <2>2. DOMAIN rtns' = 1 .. n
    BY <1>2, <2>1
  <2>3. \A k \in DOMAIN rtns' : rtns'[k] = rtns[k + 1] /\ k + 1 \in DOMAIN rtns
    BY <1>1, TailFacts
  <2> QED
    BY <1>2, <2>1, <2>2, <2>3
<1>4. PICK f, g : f = RtnVol(i) /\ g = RtnVol(i)'
  OBVIOUS
<1>5. DOMAIN f = 1 .. n + 1 /\ \A k \in 1 .. n + 1 : f[k] \in Nat
  BY <1>3, <1>4, RtnTypes
<1>6. DOMAIN g = 1 .. n
  BY <1>3, <1>4 DEF RtnVol
<1>7. \A k \in 1 .. n : g[k] = f[k + 1]
  <2> TAKE k \in 1 .. n
  <2>1. f[k + 1] = MsgVol(rtns[k + 1], i)
    BY <1>3, <1>4 DEF RtnVol
  <2>2. g[k] = MsgVol(rtns'[k], i)
    BY <1>3, <1>4 DEF RtnVol, MsgVol
  <2> QED
    BY <1>3, <2>1, <2>2
<1>8. SumFunction(f) = f[1] + SumFunction(g)
  <2>1. \A k \in 1 .. n + 1 : f[k] \in Int
    BY <1>5
  <2> QED
    BY ZenonT(60), <1>5, <1>6, <1>7, <2>1, SumTail
<1>9. \A k \in 1 .. n : g[k] \in Nat
  BY <1>5, <1>7
<1>10. SumFunction(g) \in Nat
  BY <1>6, <1>9, SumSeqNat
<1>11. f[1] = MsgVol(rtns[1], i)
  BY <1>3, <1>4 DEF RtnVol
<1> QED
  BY <1>4, <1>8, <1>10, <1>11 DEF RtnSum

(* ... and engine and callbacks write another one. *)
LEMMA RtnWrite ==
  ASSUME TypeInv, NEW i, NEW m \in RtnType, rtns' = Append(rtns, m)
  PROVE  RtnSum(i)' = RtnSum(i) + MsgVol(m, i)
<1>1. rtns \in Seq(RtnType)
  BY DEF TypeInv, HelperType
<1>2. PICK n \in Nat : Len(rtns) = n
  BY <1>1
<1>3. /\ DOMAIN rtns = 1 .. n /\ DOMAIN rtns' = 1 .. n + 1 /\ rtns'[n + 1] = m
      /\ \A k \in 1 .. n : rtns'[k] = rtns[k]
  BY <1>1, <1>2, AppendFacts
<1>4. PICK f, g : f = RtnVol(i) /\ g = RtnVol(i)'
  OBVIOUS
<1>5. DOMAIN f = 1 .. n /\ \A k \in 1 .. n : f[k] \in Int
  BY <1>3, <1>4, RtnTypes
<1>6. DOMAIN g = 1 .. n + 1
  BY <1>3, <1>4 DEF RtnVol
<1>7. \A k \in 1 .. n : g[k] = f[k] /\ k \in 1 .. n + 1
  BY <1>3, <1>4 DEF RtnVol, MsgVol
<1>8. g[n + 1] = MsgVol(m, i) /\ MsgVol(m, i) \in Int
  BY <1>3, <1>4 DEF RtnVol, MsgVol, RtnType
<1>9. \A k \in 1 .. n + 1 : g[k] \in Int
  BY <1>5, <1>7, <1>8
<1>10. SumFunction(g) = SumFunction(f) + g[n + 1]
  BY <1>5, <1>6, <1>7, <1>9, SumMore
<1> QED
  BY <1>4, <1>8, <1>10 DEF RtnSum

(* Returns that stay have the same sum. *)
LEMMA RtnSame ==
  ASSUME rtns' = rtns, NEW i
  PROVE  RtnSum(i)' = RtnSum(i)
BY DEF RtnSum, RtnVol

(* What the listening thread writes is no execution, and final only when   *)
(* the order was refused.                                                  *)
LEMMA ListeningWrites ==
  ASSUME BaseInv, Listening
  PROVE  \/ rtns' = rtns
         \/ \E m \in RtnType :
              /\ rtns' = Append(rtns, m) /\ m.to
              /\ m.local = ecmd.local /\ m.oid = ecmd.oid
              /\ ecmd \in CmdType /\ track' = track /\ front' = front /\ cmds' = cmds
              /\ \/ InsertFails /\ m.type = "ERR"
                 \/ m.type \in {"TDSEND", "CANCEL_REJECT"}
<1>1. /\ ecmd \in CmdType \cup {NoCmd} /\ reqId \in 1 .. MaxOrders + 1
      /\ MaxOrders \in Nat /\ Vol \in Nat /\ TypeInv /\ CmdInv
  BY OrderAssumption DEF BaseInv, TypeInv, EngineType
<1>2. epc \in Inserting \cup Canceling => ecmd \in CmdType
  <2>1. epc \in Inserting \cup Canceling => ecmd.cmd \in {"insert", "cancel"}
    BY DEF BaseInv, CmdInv
  <2> QED
    BY <1>1, <2>1 DEF NoCmd
<1>3. ecmd \in CmdType => /\ ecmd.local \in 0 .. MaxOrders
                          /\ ecmd.oid \in 0 .. MaxOrders
                          /\ ecmd.ref \in Refs \cup {0}
  BY <1>1 DEF CmdType
<1>4. {"ERR", "TDSEND", "CANCEL_REJECT"} \subseteq AllBits
  BY DEF AllBits, Final
<1>5. ASSUME NEW type \in {"ERR", "TDSEND", "CANCEL_REJECT"},
             NEW ref \in Refs \cup {-1}, NEW v \in Nat, ecmd \in CmdType
      PROVE  LET m == Rtn(TRUE, type, ecmd.local, ref, v, ecmd.oid) IN
             /\ m \in RtnType /\ m.to /\ m.local = ecmd.local
             /\ m.oid = ecmd.oid /\ m.type = type
  BY <1>3, <1>4, <1>5 DEF Rtn, RtnType
<1>6. CASE InsertFails
  <2>1. /\ rtns' = Append(rtns, Rtn(TRUE, "ERR", ecmd.local, -1, Vol, ecmd.oid))
        /\ epc = "insert" /\ track' = track /\ front' = front /\ cmds' = cmds
    BY <1>6 DEF InsertFails, Written, frontVars
  <2>2. ecmd \in CmdType
    BY <1>2, <2>1 DEF Inserting
  <2> QED
    BY ZenonT(60), <1>1, <1>5, <1>6, <2>1, <2>2
<1>7. CASE InsertAck
  <2>1. /\ rtns' = Append(rtns, Rtn(TRUE, "TDSEND", ecmd.local, reqId, Vol, ecmd.oid))
        /\ epc = "ack" /\ track' = track /\ front' = front /\ cmds' = cmds
    BY <1>7 DEF InsertAck, Written, frontVars
  <2>2. ecmd \in CmdType
    BY <1>2, <2>1 DEF Inserting
  <2>3. reqId \in Refs
    <3>1. epc \in Inserting => reqId <= ecmd.oid /\ ecmd.oid <= sent
      BY DEF BaseInv, CmdInv
    <3>2. sent \in 0 .. MaxOrders /\ ecmd.oid \in Nat
      BY <1>1, <1>3, <2>2 DEF TypeInv, HelperType
    <3> QED
      BY <1>1, <2>1, <3>1, <3>2 DEF Inserting, Refs
  <2> QED
    BY ZenonT(60), <1>1, <1>5, <2>1, <2>2, <2>3
<1>8. CASE CancelFails
  <2>1. /\ rtns' = Append(rtns, Rtn(TRUE, "CANCEL_REJECT", ecmd.local, ecmd.ref, 0, ecmd.oid))
        /\ epc = "cancel" /\ track' = track /\ front' = front /\ cmds' = cmds
    BY <1>8 DEF CancelFails, Written, frontVars
  <2>2. ecmd \in CmdType
    BY <1>2, <2>1 DEF Canceling
  <2>3. ecmd.ref \in Refs
    BY <2>1 DEF BaseInv, RefsInv, Used, Canceling
  <2>4. PICK m : m = Rtn(TRUE, "CANCEL_REJECT", ecmd.local, ecmd.ref, 0, ecmd.oid)
    OBVIOUS
  <2>5. /\ m \in RtnType /\ m.to /\ m.local = ecmd.local
        /\ m.oid = ecmd.oid /\ m.type = "CANCEL_REJECT"
    BY <1>5, <2>2, <2>3, <2>4
  <2> QED
    BY <2>1, <2>2, <2>4, <2>5
<1>9. CASE ~InsertFails /\ ~InsertAck /\ ~CancelFails
  BY <1>9 DEF Listening, TakeCmd, InsertSent, FillOrder, FillFrom, OnNewLoad,
       OnNewStore, CancelSent, CxlingLoad, CxlingStore
<1> QED
  BY <1>6, <1>7, <1>8, <1>9

(* The order of a number stays its order, and gets one when it is inserted. *)
LEMMA IsOfKeeps ==
  ASSUME BaseInv, [Next]_vars, NEW r \in Refs, NEW o,
         ~(InsertSent /\ r = reqId)
  PROVE  IsOf(r, o)' <=> IsOf(r, o)
<1>1. CASE r \in Used
  BY <1>1, OrderKeeps DEF IsOf
<1>2. CASE r \notin Used /\ r \notin Used'
  <2>1. ~Begun(r) /\ ~Begun(r)' /\ FreshInv /\ FreshInv'
    BY <1>2, BaseStep DEF Used, BaseInv
  <2> QED
    BY <2>1 DEF IsOf, FreshInv, NoOrder
<1>3. CASE r \notin Used /\ r \in Used'
  BY <1>3, UsedAnew
<1> QED
  BY <1>1, <1>2, <1>3

(* An insertion makes its reference the order of its number. *)
LEMMA IsOfNew ==
  ASSUME BaseInv, OrderInv, InsertSent, NEW o
  PROVE  /\ IsOf(reqId, o)' <=> o = ecmd.oid
         /\ \A r \in Refs : ~IsOf(r, ecmd.oid)
         /\ reqId \in Refs /\ front'[reqId].oid = ecmd.oid
<1>1. /\ reqId \in 1 .. MaxOrders + 1 /\ MaxOrders \in Nat /\ epc = "insert"
      /\ sent \in 0 .. MaxOrders
      /\ front \in [Refs -> FrontType] /\ ecmd \in CmdType \cup {NoCmd}
      /\ reqId <= ecmd.oid /\ ecmd.oid <= sent
  BY OrderAssumption DEF InsertSent, BaseInv, TypeInv, HelperType, EngineType,
     FrontTypes, CmdInv, Inserting
<1>2. ecmd.oid \in 0 .. MaxOrders
  BY <1>1 DEF CmdType, NoCmd
<1>3. reqId \in Refs
  BY <1>1, <1>2 DEF Refs
<1>4. front' = [front EXCEPT ![reqId] = [st |-> "sent", traded |-> 0,
                                          cxl |-> FALSE, oid |-> ecmd.oid]]
  BY DEF InsertSent
<1>5. front'[reqId] = [st |-> "sent", traded |-> 0, cxl |-> FALSE, oid |-> ecmd.oid]
  BY <1>1, <1>3, <1>4
<1>6. IsOf(reqId, o)' <=> front'[reqId].oid = o /\ front'[reqId].st # "none"
  <2>1. PICK q : q = reqId
    OBVIOUS
  <2>2. IsOf(q, o)' <=> front'[q].oid = o /\ front'[q].st # "none"
    BY DEF IsOf
  <2>3. reqId' = reqId
    BY DEF InsertSent
  <2> QED
    BY <2>1, <2>2, <2>3 DEF IsOf
<1>7. ASSUME NEW r \in Refs, IsOf(r, ecmd.oid)
      PROVE  FALSE
  <2>1. r \in Used /\ front[r].oid = ecmd.oid
    BY <1>7, IsOfFacts
  <2> QED
    BY <1>1, <1>2, <2>1 DEF OrderInv
<1> QED
  BY <1>3, <1>5, <1>6, <1>7

(* The numbers, kept by every step. *)
LEMMA NumberStep ==
  ASSUME BaseInv, LocalInv, NumberInv, [Next]_vars
  PROVE  NumberInv'
<1> SUFFICES ASSUME restarts' = 0
             PROVE  NumberInv'
  BY DEF NumberInv
<1>1. /\ restarts = 0 /\ sent \in Nat /\ sent' \in Nat
      /\ cmds \in Seq(CmdType) /\ rtns \in Seq(RtnType) /\ TypeInv /\ TypeInv'
      /\ ots \in Seq(OtType)
  BY LocalOtsStep, BaseStep DEF BaseInv, TypeInv, HelperType
<1>2. /\ \A k \in DOMAIN cmds : cmds[k].oid <= sent /\ cmds[k].oid \in Nat
      /\ ecmd.oid <= sent /\ ecmd.oid \in Nat
      /\ \A k \in DOMAIN rtns : rtns[k].oid <= sent /\ rtns[k].oid \in Nat
  <2>1. \A c \in CmdType \cup {NoCmd} : c.oid \in Nat
    BY OrderAssumption DEF CmdType, NoCmd
  <2>2. \A m \in RtnType : m.oid \in Nat
    BY OrderAssumption DEF RtnType
  <2>3. ecmd \in CmdType \cup {NoCmd}
    BY <1>1 DEF TypeInv, EngineType
  <2>4. \A k \in DOMAIN cmds : cmds[k] \in CmdType
    BY <1>1
  <2>5. \A k \in DOMAIN rtns : rtns[k] \in RtnType
    BY <1>1
  <2> QED
    BY <1>1, <2>1, <2>2, <2>3, <2>4, <2>5 DEF NumberInv
<1>3. sent <= sent'
  <2>1. CASE Helper
    BY <1>1, <2>1 DEF Helper, SendOrder, DeleteOrder, GetRtn, HelperStop,
                      HelperReader, HelperQuery
  <2>2. CASE ~Helper
    <3>1. sent' = sent
      BY <2>2, ListeningKeeps, OthersKeep DEF Next
    <3> QED
      BY <1>1, <3>1
  <2> QED
    BY <2>1, <2>2
<1>4. ecmd'.oid <= sent' /\ \A k \in DOMAIN cmds' : cmds'[k].oid <= sent'
  <2>1. CASE SendOrder
    <3>1. PICK c : /\ c = InsertCmd(sent + 1, Len(ots) + 1)
                   /\ cmds' = Append(cmds, c)
      BY <2>1 DEF SendOrder
    <3>2. c.oid = sent + 1 /\ ecmd' = ecmd /\ sent' = sent + 1
      BY <2>1, <3>1 DEF InsertCmd, SendOrder, engineVars
    <3>3. \A k \in DOMAIN cmds' : (k \in DOMAIN cmds /\ cmds'[k] = cmds[k])
                                  \/ cmds'[k] = c
      BY <1>1, <3>1
    <3>4. ASSUME NEW k \in DOMAIN cmds'
          PROVE  cmds'[k].oid <= sent'
      <4>1. CASE k \in DOMAIN cmds /\ cmds'[k] = cmds[k]
        BY <1>1, <1>2, <3>2, <4>1
      <4>2. CASE cmds'[k] = c
        BY <1>1, <3>2, <4>2
      <4> QED
        BY <3>3, <4>1, <4>2
    <3> QED
      BY <1>1, <1>2, <3>2, <3>4
  <2>2. CASE \E i \in DOMAIN ots : DeleteOrder(i)
    <3>1. PICK i \in DOMAIN ots : DeleteOrder(i)
      BY <2>2
    <3>2. PICK c : c = CancelCmd(ots[i], i) /\ cmds' = Append(cmds, c)
      BY <3>1 DEF DeleteOrder
    <3>3. c.oid = i /\ i <= sent /\ i \in Nat /\ ecmd' = ecmd /\ sent' = sent
      BY <1>1, <3>1, <3>2 DEF CancelCmd, LocalInv, DeleteOrder, engineVars
    <3>4. \A k \in DOMAIN cmds' : (k \in DOMAIN cmds /\ cmds'[k] = cmds[k])
                                  \/ cmds'[k] = c
      BY <1>1, <3>2
    <3> QED
      BY <1>2, <3>3, <3>4
  <2>3. CASE TakeCmd
    <3>1. /\ cmds # <<>> /\ ecmd' = Head(cmds) /\ cmds' = Tail(cmds)
          /\ sent' = sent
      BY <2>3 DEF TakeCmd, helperVars
    <3>2. /\ Head(cmds) = cmds[1] /\ 1 \in DOMAIN cmds
          /\ \A k \in DOMAIN cmds' : cmds'[k] = cmds[k + 1] /\ k + 1 \in DOMAIN cmds
      BY <1>1, <3>1, TailFacts
    <3>3. ASSUME NEW k \in DOMAIN cmds'
          PROVE  cmds'[k].oid <= sent
      <4>1. PICK l : l = k + 1
        OBVIOUS
      <4>2. l \in DOMAIN cmds /\ cmds'[k] = cmds[l]
        BY <3>2, <4>1
      <4> QED
        BY <1>2, <4>2
    <3> QED
      BY <1>2, <3>1, <3>2, <3>3
  <2>4. CASE Listening /\ ~TakeCmd
    <3>1. cmds' = cmds /\ sent' = sent /\ (ecmd' = ecmd \/ ecmd' = NoCmd)
      BY <2>4 DEF Listening, InsertFails, InsertSent, FillOrder, FillFrom, InsertAck,
           OnNewLoad, OnNewStore, CancelFails, CancelSent, CxlingLoad, CxlingStore,
           helperVars
    <3> QED
      BY <1>1, <1>2, <3>1 DEF NoCmd
  <2>5. CASE Callbacks \/ Front \/ UNCHANGED vars \/ GetRtn \/ HelperStop
             \/ HelperReader \/ HelperQuery
    <3>1. UNCHANGED <<cmds, ecmd, sent>>
      <4>1. CASE Callbacks \/ Front \/ UNCHANGED vars
        BY <4>1, OthersKeep
      <4>2. CASE GetRtn \/ HelperStop \/ HelperReader \/ HelperQuery
        BY <4>2 DEF GetRtn, HelperStop, HelperReader, HelperQuery, engineVars
      <4> QED
        BY <2>5, <4>1, <4>2
    <3> QED
      BY <1>2, <3>1
  <2> QED
    BY <2>1, <2>2, <2>3, <2>4, <2>5 DEF Next, Helper
<1>5. \A k \in DOMAIN rtns' : rtns'[k].oid <= sent'
  <2>1. CASE rtns' = rtns \/ rtns' = <<>>
    BY <1>1, <1>2, <1>3, <2>1
  <2>2. CASE rtns # <<>> /\ rtns' = Tail(rtns)
    <3> SUFFICES ASSUME NEW k \in DOMAIN rtns'
                 PROVE  rtns'[k].oid <= sent'
      OBVIOUS
    <3>1. PICK l : l = k + 1
      OBVIOUS
    <3>2. l \in DOMAIN rtns /\ rtns'[k] = rtns[l]
      BY <1>1, <2>2, <3>1, TailFacts
    <3> QED
      BY <1>1, <1>2, <1>3, <3>2
  <2>3. ASSUME NEW m \in RtnType, rtns' = Append(rtns, m),
               \/ m.oid = ecmd.oid
               \/ Handled /\ m.oid = front[cb.ref].oid
        PROVE  \A k \in DOMAIN rtns' : rtns'[k].oid <= sent'
    <3>1. m.oid <= sent /\ m.oid \in Nat
      <4>1. CASE m.oid = ecmd.oid
        BY <1>2, <4>1
      <4>2. CASE Handled /\ m.oid = front[cb.ref].oid
        <5>1. cb # NoEvent
          BY <4>2 DEF Handled, EventType, NoEvent
        <5>2. cb.ref \in Used
          BY <5>1 DEF BaseInv, RefsInv
        <5> QED
          BY <1>1, <4>2, <5>2 DEF BaseInv, FreshInv, Used
      <4> QED
        BY <2>3, <4>1, <4>2
    <3>2. \A k \in DOMAIN rtns' : (k \in DOMAIN rtns /\ rtns'[k] = rtns[k])
                                  \/ rtns'[k] = m
      BY <1>1, <2>3
    <3> QED
      BY <1>1, <1>2, <1>3, <3>1, <3>2
  <2> QED
    BY <2>1, <2>2, <2>3, RtnsStep
<1> QED
  BY <1>4, <1>5 DEF NumberInv

-----------------------------------------------------------------------------
(* What the helper holds of an order, kept where no trade of the order     *)
(* moves, ...                                                              *)
LEMMA HeldFrame ==
  ASSUME NEW i, Held(i),
         ots'[i].traded + RtnSum(i)' = ots[i].traded + RtnSum(i),
         \A r \in Refs : /\ IsOf(r, i)' <=> IsOf(r, i)
                         /\ track'[r].traded = track[r].traded
  PROVE  Held(i)'
BY DEF Held

(* ... by the helper, which takes a return from the pages, ... *)
LEMMA HeldHelper ==
  ASSUME BaseInv, LocalInv, OrderInv, NumberInv, HeldInv, Helper, restarts' = 0
  PROVE  \A i \in DOMAIN ots' : Held(i)'
<1>1. /\ restarts = 0 /\ hup = "up" /\ Len(ots) = sent
      /\ \A k \in DOMAIN ots : ots[k].oid = k
      /\ \A k \in DOMAIN rtns : rtns[k].to => rtns[k].local = rtns[k].oid
      /\ \A k \in DOMAIN rtns : rtns[k].oid <= sent
  <2>1. restarts = 0
    BY LocalOtsStep DEF Next
  <2> QED
    BY <2>1 DEF LocalInv, NumberInv
<1>2. /\ TypeInv /\ ots \in Seq(OtType) /\ sent \in Nat /\ rtns \in Seq(RtnType)
      /\ DOMAIN ots = 1 .. sent
  BY <1>1 DEF BaseInv, TypeInv, HelperType
<1>3. \A i \in DOMAIN ots : ots[i].traded \in Nat /\ RtnSum(i) \in Nat
  <2>1. \A i \in DOMAIN ots : ots[i] \in OtType
    BY <1>2
  <2> QED
    BY <1>2, <2>1, RtnTypes DEF OtType
<1>4. UNCHANGED <<track, front>> /\ \A r \in Refs : \A o : IsOf(r, o)' <=> IsOf(r, o)
  <2>1. UNCHANGED <<track, front>>
    BY HelperKeeps
  <2> QED
    BY <2>1 DEF IsOf
<1>5. CASE SendOrder
  <2>1. PICK o : /\ o = [oid |-> sent + 1, st |-> {"SEND"}, traded |-> 0, ref |-> -1]
                 /\ ots' = Append(ots, o) /\ rtns' = rtns /\ o.traded = 0
    BY <1>5 DEF SendOrder
  <2>2. PICK n \in Nat : n = sent + 1
    BY <1>2
  <2>3. /\ DOMAIN ots' = 1 .. n /\ ots'[n] = o
        /\ \A i \in 1 .. sent : ots'[i] = ots[i]
    BY <1>1, <1>2, <2>1, <2>2
  <2>4. \A i \in 1 .. sent : Held(i)'
    <3> SUFFICES ASSUME NEW i \in 1 .. sent
                 PROVE  Held(i)'
      OBVIOUS
    <3>1. ots'[i] = ots[i] /\ RtnSum(i)' = RtnSum(i) /\ Held(i)
      BY <1>1, <1>2, <2>1, <2>3, RtnSame DEF HeldInv
    <3> QED
      BY <1>4, <3>1, HeldFrame
  <2>5. Held(n)'
    <3>1. \A k \in DOMAIN rtns : RtnVol(n)[k] = 0
      <4> SUFFICES ASSUME NEW k \in DOMAIN rtns
                   PROVE  MsgVol(rtns[k], n) = 0
        BY DEF RtnVol
      <4>1. rtns[k] \in RtnType
        BY <1>2
      <4>2. rtns[k].oid \in Nat /\ rtns[k].oid <= sent
        BY <1>1, <4>1, OrderAssumption DEF RtnType
      <4>3. rtns[k].to => rtns[k].local # n
        BY <1>1, <1>2, <2>2, <4>2
      <4> QED
        BY <4>3 DEF MsgVol
    <3>2. RtnSum(n) = 0
      <4>1. DOMAIN rtns = 1 .. Len(rtns) /\ Len(rtns) \in Nat
        BY <1>2
      <4>2. DOMAIN RtnVol(n) = DOMAIN rtns
        BY DEF RtnVol
      <4> QED
        BY <3>1, <4>1, <4>2, SumSeqNat DEF RtnSum
    <3>3. RtnSum(n)' = 0
      BY <2>1, <3>2, RtnSame
    <3>4. \A r \in Refs : ~IsOf(r, n)
      <4> SUFFICES ASSUME NEW r \in Refs, IsOf(r, n)
                   PROVE  FALSE
        OBVIOUS
      <4>1. r \in Used /\ front[r].oid = n
        BY IsOfFacts
      <4>2. front[r].oid \in 1 .. sent
        BY <4>1 DEF BaseInv, FreshInv, Used
      <4> QED
        BY <1>2, <2>2, <4>1, <4>2
    <3>5. ots'[n].traded = 0
      BY <2>1, <2>3
    <3> QED
      BY <1>4, <3>3, <3>4, <3>5 DEF Held
  <2>6. \A i \in 1 .. n : i \in 1 .. sent \/ i = n
    BY <1>2, <2>2
  <2> QED
    BY <2>3, <2>4, <2>5, <2>6
<1>6. CASE \E j \in DOMAIN ots : DeleteOrder(j)
  <2>1. PICK j \in DOMAIN ots : DeleteOrder(j)
    BY <1>6
  <2>2. ots' = [ots EXCEPT ![j].st = @ \cup {"CXLING"}] /\ rtns' = rtns
    BY <2>1 DEF DeleteOrder
  <2>3. DOMAIN ots' = DOMAIN ots /\ \A i \in DOMAIN ots : ots'[i].traded = ots[i].traded
    <3>1. \A i \in DOMAIN ots : ots[i] \in OtType
      BY <1>2
    <3> QED
      BY <2>2, <3>1 DEF OtType
  <2>4. \A i \in DOMAIN ots : RtnSum(i)' = RtnSum(i) /\ Held(i)
    BY <1>1, <2>2, RtnSame DEF HeldInv
  <2> QED
    BY <1>4, <2>3, <2>4, HeldFrame
<1>7. CASE GetRtn
  <2>1. PICK m : m = rtns[1]
    OBVIOUS
  <2>2. /\ rtns # <<>> /\ rtns' = Tail(rtns) /\ Head(rtns) = m /\ m \in RtnType
        /\ ots' = IF m.to /\ m.local \in DOMAIN ots
                  THEN [ots EXCEPT ![m.local] = Updated(@, m)] ELSE ots
    BY ZenonT(60), <1>2, <1>7, <2>1, TailFacts DEF GetRtn
  <2>3. ASSUME NEW i \in DOMAIN ots
        PROVE  i \in DOMAIN ots' /\ ots'[i].traded = ots[i].traded + MsgVol(m, i)
    <3>1. CASE m.to /\ m.local = i
      <4>1. ots'[i] = Updated(ots[i], m)
        BY <2>2, <3>1
      <4>2. ots'[i].traded = IF m.type = "EXECUTION" THEN ots[i].traded + m.vol
                             ELSE ots[i].traded
        BY <4>1 DEF Updated
      <4>3. i \in DOMAIN ots'
        BY <2>2
      <4> QED
        BY <1>3, <3>1, <4>2, <4>3 DEF MsgVol
    <3>2. CASE ~(m.to /\ m.local = i)
      <4>1. ots'[i] = ots[i] /\ i \in DOMAIN ots'
        BY <2>2, <3>2
      <4> QED
        BY <1>3, <3>2, <4>1 DEF MsgVol
    <3> QED
      BY <3>1, <3>2
  <2>4. DOMAIN ots' = DOMAIN ots
    BY <2>2
  <2>5. ASSUME NEW i \in DOMAIN ots
        PROVE  Held(i)'
    <3>1. RtnSum(i) = MsgVol(m, i) + RtnSum(i)' /\ RtnSum(i)' \in Nat
      BY <1>2, <2>1, <2>2, RtnTake
    <3>2. MsgVol(m, i) \in Nat
      BY <2>2 DEF MsgVol, RtnType
    <3>3. ots'[i].traded + RtnSum(i)' = ots[i].traded + RtnSum(i)
      BY <1>3, <2>3, <3>1, <3>2
    <3>4. Held(i)
      BY <1>1 DEF HeldInv
    <3> QED
      BY <1>4, <3>3, <3>4, HeldFrame
  <2> QED
    BY <2>4, <2>5
<1>8. CASE HelperStop \/ HelperReader \/ HelperQuery
  <2>1. FALSE
    BY <1>1, <1>8, OrderAssumption DEF HelperStop, HelperReader, HelperQuery, BaseInv, TypeInv,
                        HelperType
  <2> QED
    BY <2>1
<1> QED
  BY <1>5, <1>6, <1>7, <1>8 DEF Helper

(* ... by the listening thread, ... *)
LEMMA HeldListening ==
  ASSUME BaseInv, LocalInv, TradeInv, OrderInv, HeldInv, Listening, restarts = 0
  PROVE  \A i \in DOMAIN ots' : Held(i)'
<1>1. TypeInv /\ UNCHANGED <<ots, restarts>>
  BY ListeningKeeps DEF BaseInv
<1> SUFFICES ASSUME NEW i \in DOMAIN ots
             PROVE  Held(i)'
  BY <1>1
<1>2. RtnSum(i)' = RtnSum(i) /\ RtnSum(i) \in Nat
  <2>1. RtnSum(i) \in Nat
    BY <1>1, RtnTypes
  <2>2. CASE rtns' = rtns
    BY <2>1, <2>2, RtnSame
  <2>3. CASE rtns' # rtns
    <3>1. PICK m \in RtnType : /\ rtns' = Append(rtns, m)
                               /\ m.type \in {"ERR", "TDSEND", "CANCEL_REJECT"}
      BY <2>3, ListeningWrites
    <3>2. RtnSum(i)' = RtnSum(i) + MsgVol(m, i)
      BY <1>1, <3>1, RtnWrite
    <3>3. MsgVol(m, i) = 0
      BY <3>1 DEF MsgVol
    <3> QED
      BY <2>1, <3>2, <3>3
  <2> QED
    BY <2>2, <2>3
<1>3. ots'[i].traded = ots[i].traded /\ Held(i)
  BY <1>1 DEF HeldInv
<1>4. \A r \in Refs : track'[r].traded = track[r].traded
  BY QuietTraded
<1>5. CASE ~InsertSent
  <2>1. \A r \in Refs : IsOf(r, i)' <=> IsOf(r, i)
    BY <1>5, IsOfKeeps DEF Next
  <2> QED
    BY <1>2, <1>3, <1>4, <2>1, HeldFrame
<1>6. CASE InsertSent
  <2>1. \A r \in Refs \ {reqId} : IsOf(r, i)' <=> IsOf(r, i)
    BY IsOfKeeps DEF Next
  <2>2. /\ IsOf(reqId, i)' <=> i = ecmd.oid
        /\ \A r \in Refs : ~IsOf(r, ecmd.oid)
        /\ reqId \in Refs
    BY <1>6, IsOfNew
  <2>3. track[reqId].traded = 0
    <3>1. ~Begun(reqId)
      BY <1>1, <1>6 DEF InsertSent, Begun, TypeInv, EngineType
    <3> QED
      BY <2>2, <3>1 DEF BaseInv, FreshInv, NoTrack
  <2>4. CASE i # ecmd.oid
    <3>1. ~IsOf(reqId, i)'
      BY <2>2, <2>4
    <3>2. PICK q : q = reqId
      OBVIOUS
    <3>3. reqId' = reqId
      BY <1>6 DEF InsertSent
    <3>4. ~IsOf(q, i)'
      BY <3>1, <3>2, <3>3 DEF IsOf
    <3>5. ~IsOf(q, i)
      <4>1. q \in Refs /\ q \notin Used
        BY <1>1, <1>6, <2>2, <3>2 DEF InsertSent, Begun, TypeInv, EngineType, Used
      <4> QED
        BY <4>1, IsOfFacts
    <3>6. \A r \in Refs : IsOf(r, i)' <=> IsOf(r, i)
      BY <2>1, <3>2, <3>4, <3>5
    <3> QED
      BY <1>2, <1>3, <1>4, <3>6, HeldFrame
  <2>5. CASE i = ecmd.oid
    <3>1. PICK q : q = reqId
      OBVIOUS
    <3>2. reqId' = reqId
      BY <1>6 DEF InsertSent
    <3>3. IsOf(q, i)'
      BY <2>2, <2>5, <3>1, <3>2 DEF IsOf
    <3>4. ots[i].traded + RtnSum(i) = 0
      BY <1>3, <2>2, <2>5 DEF Held
    <3>5. \A r \in Refs : IsOf(r, i)' => r = q
      BY <2>1, <2>2, <2>5, <3>1
    <3>6. q \in Refs /\ track'[q].traded = 0
      BY <1>4, <2>2, <2>3, <3>1
    <3> QED
      BY <1>2, <1>3, <3>3, <3>4, <3>5, <3>6 DEF Held
  <2> QED
    BY <2>4, <2>5
<1> QED
  BY <1>5, <1>6

(* ... by the handlers, which tell what they count, ... *)
LEMMA HeldHandled ==
  ASSUME BaseInv, LocalInv, OrderInv, HeldInv, Handled, Callbacks, restarts = 0
  PROVE  \A i \in DOMAIN ots' : Held(i)'
<1>1. /\ TypeInv /\ UNCHANGED <<ots, restarts, front>> /\ cb \in EventType
      /\ cb # NoEvent
  BY DEF BaseInv, Handled, callbackUnchanged, helperVars, frontVars, EventType, NoEvent
<1> SUFFICES ASSUME NEW i \in DOMAIN ots
             PROVE  Held(i)'
  BY <1>1
<1>2. /\ ots'[i].traded = ots[i].traded /\ Held(i) /\ cb.ref \in Used
      /\ \A r \in Refs : IsOf(r, i)' <=> IsOf(r, i)
  BY <1>1 DEF HeldInv, IsOf, BaseInv, RefsInv
<1>3. cb.ref \in Refs /\ ots[i].traded \in Nat /\ RtnSum(i) \in Nat
      /\ cb.vol \in Nat /\ \A r \in Refs : track[r].traded \in Nat
  <2>1. ots[i] \in OtType
    BY <1>1 DEF TypeInv, HelperType
  <2> QED
    BY <1>1, <2>1, RtnTypes, VolTypes, OrderAssumption DEF EventType, OtType
<1>4. CASE rtns' = rtns /\ cb.kind # "trade"
  <2>1. \A r \in Refs : track'[r].traded = track[r].traded
    BY <1>3, <1>4 DEF Handled
  <2>2. RtnSum(i)' = RtnSum(i)
    BY <1>4, RtnSame
  <2> QED
    BY <1>2, <2>1, <2>2, HeldFrame
<1>5. CASE ~(rtns' = rtns /\ cb.kind # "trade")
  <2>1. PICK type \in AllBits, v \in Nat :
          /\ rtns' = Append(rtns, Rtn(cb.from, type, cb.local, cb.ref, v,
                                      front[cb.ref].oid))
          /\ type = "EXECUTION" <=> cb.kind = "trade"
          /\ cb.kind = "trade" => v = cb.vol
    BY <1>5 DEF Handled
  <2>2. PICK m : m = Rtn(cb.from, type, cb.local, cb.ref, v, front[cb.ref].oid)
    OBVIOUS
  <2>3. m \in RtnType
    <3>1. front[cb.ref].oid \in 0 .. MaxOrders /\ cb.from \in BOOLEAN
          /\ cb.local \in 0 .. MaxOrders
      BY <1>1, <1>3 DEF TypeInv, FrontTypes, FrontType, EventType
    <3> QED
      BY <1>3, <2>1, <2>2, <3>1 DEF Rtn, RtnType
  <2>4. /\ m.to = cb.from /\ m.local = cb.local /\ m.type = type /\ m.vol = v
    BY <2>2 DEF Rtn
  <2>5. RtnSum(i)' = RtnSum(i) + MsgVol(m, i)
    BY <1>1, <2>1, <2>2, <2>3, RtnWrite
  <2>6. CASE cb.kind # "trade"
    <3>1. \A r \in Refs : track'[r].traded = track[r].traded
      BY <1>3, <2>6 DEF Handled
    <3>2. MsgVol(m, i) = 0
      BY <2>1, <2>4, <2>6 DEF MsgVol
    <3>3. RtnSum(i)' = RtnSum(i)
      BY <1>3, <2>5, <3>2
    <3> QED
      BY <1>2, <3>1, <3>3, HeldFrame
  <2>7. CASE cb.kind = "trade"
    <3>1. cb.from /\ cb.local = front[cb.ref].oid
      BY <1>1, <1>3, <2>7 DEF HeldInv, BaseInv, RefsInv, LocalInv
    <3>2. IsOf(cb.ref, i) <=> i = cb.local
      BY <1>2, <1>3, <3>1, IsOfFacts
    <3>3. track'[cb.ref].traded = track[cb.ref].traded + cb.vol
      BY <2>7 DEF Handled
    <3>4. \A r \in Refs \ {cb.ref} : track'[r].traded = track[r].traded
      BY DEF Handled
    <3>5. CASE i = cb.local
      <4>1. MsgVol(m, i) = cb.vol
        BY <2>1, <2>4, <2>7, <3>1, <3>5 DEF MsgVol
      <4>2. \A r \in Refs : IsOf(r, i) => r = cb.ref
        BY <1>3, <3>2, <3>5, IsOfFacts
      <4>3. ots[i].traded + RtnSum(i) = track[cb.ref].traded
        BY <1>2, <1>3, <3>2, <3>5 DEF Held
      <4>4. ots'[i].traded + RtnSum(i)' = track'[cb.ref].traded
        BY <1>2, <1>3, <2>5, <3>3, <4>1, <4>3
      <4>5. PICK q : q = cb.ref
        OBVIOUS
      <4>6. IsOf(q, i)' /\ \A r \in Refs : IsOf(r, i)' => r = q
        BY <1>2, <1>3, <3>2, <3>5, <4>2, <4>5
      <4>7. q \in Refs /\ ots'[i].traded + RtnSum(i)' = track'[q].traded
        BY <1>3, <4>4, <4>5
      <4> QED
        BY <4>6, <4>7 DEF Held
    <3>6. CASE i # cb.local
      <4>1. MsgVol(m, i) = 0
        BY <2>4, <3>6 DEF MsgVol
      <4>2. ots'[i].traded + RtnSum(i)' = ots[i].traded + RtnSum(i)
        BY <1>2, <1>3, <2>5, <4>1
      <4>3. \A r \in Refs : IsOf(r, i)' => IsOf(r, i) /\ track'[r].traded = track[r].traded
        BY <1>2, <3>2, <3>4, <3>6
      <4> QED
        BY <1>2, <4>2, <4>3 DEF Held
    <3> QED
      BY <3>5, <3>6
  <2> QED
    BY <2>6, <2>7
<1> QED
  BY <1>4, <1>5

(* ... and by every step. *)
LEMMA HeldStep ==
  ASSUME BaseInv, LocalInv, TradeInv, OrderInv, NumberInv, HeldInv, [Next]_vars
  PROVE  HeldInv'
<1>1. cb'.kind = "trade" => cb'.from
  <2>1. CASE Helper \/ Listening \/ UNCHANGED vars
    <3>1. cb' = cb
      BY <2>1, HelperKeeps, ListeningKeeps DEF vars
    <3> QED
      BY <3>1 DEF HeldInv
  <2>2. CASE CallbackBegin
    <3>1. PICK e \in EventType : BeginDoes(e)
      BY <2>2, BeginCases
    <3> QED
      BY <3>1 DEF BeginDoes, NoEvent
  <2>3. CASE Handlers
    <3>1. cb' = NoEvent
      BY <2>3, HandledEffect DEF BaseInv, Handled
    <3> QED
      BY <3>1 DEF NoEvent
  <2>4. CASE Front
    <3>1. PICK r \in Refs, d \in EventType, e \in EventType : FrontDoes(r, d, e)
      BY <2>4, FrontCases DEF BaseInv
    <3>2. cb' = cb
      BY <3>1, FrontKeeps
    <3> QED
      BY <3>2 DEF HeldInv
  <2> QED
    BY <2>1, <2>2, <2>3, <2>4 DEF Next, Callbacks, Handlers
<1>2. ASSUME restarts' = 0
      PROVE  \A i \in DOMAIN ots' : Held(i)'
  <2>1. restarts = 0 /\ \A i \in DOMAIN ots : Held(i)
    BY <1>2, LocalOtsStep DEF HeldInv
  <2>2. CASE Helper
    BY <1>2, <2>2, HeldHelper
  <2>3. CASE Listening
    BY <2>1, <2>3, HeldListening
  <2>4. CASE Handlers
    BY <2>1, <2>4, HandledEffect, HeldHandled DEF BaseInv, Callbacks, Handlers
  <2>5. CASE CallbackBegin \/ Front \/ UNCHANGED vars
    <3>1. UNCHANGED <<ots, rtns, track>>
      <4>1. CASE CallbackBegin
        BY <4>1 DEF CallbackBegin, helperVars
      <4>2. CASE Front
        <5>1. PICK r \in Refs, d \in EventType, e \in EventType : FrontDoes(r, d, e)
          BY <4>2, FrontCases DEF BaseInv
        <5> QED
          BY <5>1, FrontKeeps
      <4> QED
        BY <2>5, <4>1, <4>2 DEF vars
    <3>2. ~InsertSent
      <4>1. epc' = epc
        BY <2>5, OthersKeep DEF Callbacks
      <4> QED
        BY <4>1 DEF InsertSent
    <3>3. \A i \in DOMAIN ots : \A r \in Refs : IsOf(r, i)' <=> IsOf(r, i)
      BY <3>2, IsOfKeeps
    <3>4. \A i \in DOMAIN ots : ots'[i] = ots[i] /\ RtnSum(i)' = RtnSum(i)
      BY <3>1, RtnSame
    <3> QED
      BY <2>1, <3>1, <3>3, <3>4, HeldFrame
  <2> QED
    BY <2>2, <2>3, <2>4, <2>5 DEF Next, Callbacks, Handlers
<1> QED
  BY <1>1, <1>2 DEF HeldInv

(* At the start nothing is held. *)
LEMMA HeldInit ==
  ASSUME Init
  PROVE  OrderInv /\ NumberInv /\ HeldInv
<1>1. /\ cmds = <<>> /\ rtns = <<>> /\ ots = <<>> /\ epc = "idle" /\ ecmd = NoCmd
      /\ sent = 0 /\ cb = NoEvent /\ reqId = 1
      /\ \A r \in Refs : front[r] = NoOrder
  BY DEF Init
<1>2. Used = {}
  BY <1>1, OrderAssumption DEF Used, Begun, Refs
<1>3. OrderInv
  BY <1>1, <1>2, OrderAssumption DEF OrderInv, NoOrder
<1>4. NumberInv
  BY <1>1 DEF NumberInv, NoCmd
<1>5. HeldInv
  BY <1>1 DEF HeldInv, NoEvent
<1> QED
  BY <1>3, <1>4, <1>5

(* All of it together. *)
TradesInv ==
  /\ BaseInv /\ LocalInv /\ TradeInv /\ CountInv /\ PlainInv
  /\ OrderInv /\ NumberInv /\ HeldInv

(* The conjunction is inductive. *)
LEMMA TradesStep == TradesInv /\ [Next]_vars => TradesInv'
BY BaseStep, LocalStep, TradeStep, CountStep, PlainStep, OrderStep, NumberStep,
   HeldStep DEF TradesInv

(* What helper, engine and front hold of the trades fits in every state. *)
THEOREM TradesAlways == Spec => []TradesInv
<1>1. Init => TradesInv
  BY BaseInit, LocalInit, TradeInit, HeldInit DEF TradesInv
<1> QED
  BY <1>1, TradesStep, PTL DEF Spec

(* The helper, in its first run, never believes in more than was traded,   *)
(* however callbacks, returns and repeated trades follow each other        *)
(* (OnRtnTrade, testOtId, getRtn).                                         *)
THEOREM NoTradeIsHeldTwice == Spec => []NoTradeTwice
<1>1. TradesInv => NoTradeTwice
  <2> SUFFICES ASSUME TradesInv, restarts = 0, NEW i \in DOMAIN ots, NEW r \in Refs,
                      IsOf(r, ots[i].oid)
               PROVE  ots[i].traded <= front[r].traded
    BY DEF NoTradeTwice
  <2>1. IsOf(r, i)
    BY DEF TradesInv, LocalInv
  <2>2. ots[i].traded + RtnSum(i) = track[r].traded
    BY <2>1 DEF TradesInv, HeldInv, Held
  <2>3. /\ CbVol(r) \in Nat /\ DueSum(r) \in Nat /\ RtnSum(i) \in Nat
        /\ track[r].traded \in Nat /\ front[r].traded \in Nat
    BY VolTypes, RtnTypes DEF TradesInv, BaseInv
  <2>4. track[r].traded + CbVol(r) + DueSum(r) <= front[r].traded
    BY DEF TradesInv, CountInv
  <2>5. ots[i].traded \in Nat
    <3>1. ots \in Seq(OtType)
      BY DEF TradesInv, BaseInv, TypeInv, HelperType
    <3>2. ots[i] \in OtType
      BY <3>1
    <3> QED
      BY <3>2 DEF OtType
  <2> QED
    BY <2>2, <2>3, <2>4, <2>5
<1> QED
  BY <1>1, TradesAlways, PTL

-----------------------------------------------------------------------------
(* A trade of r that is no repetition is due at position k. *)
Due(k, r) == IsTrade(k, r) /\ ~Has(seen[r], evq[k].id)

(* The order of r is over, and none of its trades is to be counted. *)
Over(r) ==
  /\ front[r].st = "closed"
  /\ \A k \in DOMAIN evq : ~Due(k, r)
  /\ ~(cb.kind = "trade" /\ cb.ref = r)

(* When a callback begins nothing becomes due that was not. *)
LEMMA BeginDue ==
  ASSUME BaseInv, TradeInv, NEW e \in EventType, e.ref \in Used, BeginDoes(e),
         NEW r \in Refs, NEW k \in DOMAIN evq', Due(k, r)'
  PROVE  k + 1 \in DOMAIN evq /\ evq'[k] = evq[k + 1] /\ Due(k + 1, r)
<1>1. /\ TypeInv /\ seen \in [Refs -> Seq(Nat)] /\ e.ref \in Refs
      /\ e.id \in Nat /\ evq \in Seq(EventType)
  BY DEF BaseInv, TypeInv, EngineType, FrontTypes, Used, EventType
<1>2. PICK l : l = k + 1
  OBVIOUS
<1>3. /\ evq # <<>> /\ e = evq[1] /\ evq' = Tail(evq)
      /\ l \in DOMAIN evq /\ evq'[k] = evq[l] /\ 1 \in DOMAIN evq /\ 1 < l
  <2>1. evq # <<>> /\ e = evq[1] /\ evq' = Tail(evq)
    BY DEF BeginDoes
  <2>2. DOMAIN evq' = 1 .. Len(evq) - 1 /\ 1 \in DOMAIN evq /\ Len(evq) \in Nat
    BY <1>1, <2>1, TailFacts
  <2>3. l \in DOMAIN evq /\ evq'[k] = evq[l]
    BY <1>1, <1>2, <2>1, TailFacts
  <2> QED
    BY <1>2, <2>1, <2>2, <2>3
<1>4. IsTrade(l, r)
  BY <1>3 DEF Due, IsTrade
<1>5. ASSUME Has(seen[r], evq[l].id)
      PROVE  FALSE
  <2>1. PICK x : x = evq[l].id
    OBVIOUS
  <2>2. ~Has(seen'[r], x)
    BY <1>3, <2>1 DEF Due
  <2>3. Has(seen[r], x)
    BY <1>5, <2>1
  <2>4. seen'[r] # seen[r]
    BY <2>2, <2>3
  <2>5. r = e.ref /\ e.kind = "trade" /\ ~Has(seen[r], e.id)
    BY <1>1, <2>4 DEF BeginDoes
  <2>6. IsTrade(1, r)
    BY <1>3, <2>5 DEF IsTrade
  <2>7. x \in Nat /\ e.id < x
    <3>1. evq[l] \in EventType
      BY <1>1, <1>3
    <3>2. evq[l].id \in Nat
      BY <3>1 DEF EventType
    <3>3. evq[1].id < evq[l].id
      BY <1>3, <1>4, <2>6 DEF TradeInv
    <3> QED
      BY <1>3, <2>1, <3>2, <3>3
  <2>8. seen[r] \in Seq(Nat)
    BY <1>1
  <2>9. PICK i \in DOMAIN seen[r] : seen[r][i] = x
    BY <2>3 DEF Has
  <2>10. seen[r] # <<>> /\ seen[r][1] \in Nat /\ seen[r][i] \in Nat
    BY <2>8, <2>9
  <2>11. seen[r][i] <= seen[r][1] /\ seen[r][1] <= e.id
    BY <1>3, <2>6, <2>9, <2>10 DEF TradeInv
  <2> QED
    BY <1>1, <2>7, <2>9, <2>10, <2>11
<1> QED
  BY <1>2, <1>3, <1>4, <1>5 DEF Due

(* What the front puts in the queue is due only for an order it trades. *)
LEMMA FrontDue ==
  ASSUME BaseInv, NEW q \in Refs, NEW d \in EventType, NEW e \in EventType,
         FrontDoes(q, d, e), NEW r \in Refs, NEW k \in DOMAIN evq'
  PROVE  /\ \/ k \in DOMAIN evq /\ evq'[k] = evq[k]
            \/ evq'[k] = e /\ k \notin DOMAIN evq /\ \A j \in DOMAIN evq' : j <= k
            \/ evq'[k] = d /\ k \notin DOMAIN evq /\ d.kind = "order" /\ d.ref = q
               /\ ~FinalEvent(d) /\ Trades(q, d, e)
         /\ Due(k, r)' => \/ k \in DOMAIN evq /\ evq'[k] = evq[k] /\ Due(k, r)
                          \/ r = q /\ front[q].st = "queued"
         /\ \A j \in DOMAIN evq : j \in DOMAIN evq' /\ evq'[j] = evq[j]
         /\ k \notin DOMAIN evq => \A j \in DOMAIN evq : j < k
<1>1. /\ TypeInv /\ seen \in [Refs -> Seq(Nat)] /\ evq \in Seq(EventType)
  BY DEF BaseInv, TypeInv, EngineType, FrontTypes
<1>2. seen' = seen /\ e.ref = q
  BY FrontKeeps DEF FrontDoes
<1>3. PICK n \in Nat : n = Len(evq) /\ DOMAIN evq = 1 .. n
  BY <1>1
<1>4. /\ \/ k \in DOMAIN evq /\ evq'[k] = evq[k]
         \/ evq'[k] = e /\ k \notin DOMAIN evq /\ \A j \in DOMAIN evq' : j <= k
         \/ evq'[k] = d /\ k \notin DOMAIN evq /\ d.kind = "order" /\ d.ref = q
            /\ ~FinalEvent(d) /\ Trades(q, d, e)
      /\ \A j \in DOMAIN evq : j \in DOMAIN evq' /\ evq'[j] = evq[j]
      /\ k \in Nat /\ k >= 1
  <2>1. CASE evq' = Append(evq, e)
    <3>1. /\ DOMAIN evq' = 1 .. n + 1 /\ evq'[n + 1] = e
          /\ \A j \in 1 .. n : evq'[j] = evq[j]
      BY <1>1, <1>3, <2>1, AppendFacts
    <3>2. k \in 1 .. n \/ k = n + 1
      BY <1>3, <3>1
    <3>3. \A j \in 1 .. n : j \in 1 .. n + 1
      OBVIOUS
    <3>4. n + 1 \notin 1 .. n /\ \A j \in 1 .. n + 1 : j <= n + 1
      OBVIOUS
    <3> QED
      BY <1>3, <3>1, <3>2, <3>3, <3>4
  <2>2. CASE Trades(q, d, e)
    <3>1. PICK t : t = <<d, e>>
      OBVIOUS
    <3>2. /\ t \in Seq(EventType) /\ Len(t) = 2 /\ DOMAIN t = {1, 2}
          /\ t[1] = d /\ t[2] = e
      BY <3>1
    <3>3. /\ DOMAIN evq' = 1 .. n + 2
          /\ \A j \in DOMAIN evq : evq'[j] = evq[j]
          /\ \A j \in DOMAIN evq' \ DOMAIN evq :
               j - n \in DOMAIN t /\ evq'[j] = t[j - n]
      BY <1>1, <1>3, <2>2, <3>1, <3>2, ConcatFacts DEF Trades
    <3>4. \A j \in 1 .. n : j \in 1 .. n + 2
      OBVIOUS
    <3>5. CASE k \in 1 .. n
      BY <1>3, <3>3, <3>4, <3>5
    <3>6. CASE k = n + 1
      <4>1. k \in DOMAIN evq' \ DOMAIN evq /\ k - n = 1
        BY <1>3, <3>3, <3>6
      <4>2. evq'[k] = d
        BY <3>2, <3>3, <4>1
      <4>3. d.kind = "order" /\ d.ref = q /\ ~FinalEvent(d)
        BY <2>2 DEF Trades
      <4> QED
        BY <1>3, <2>2, <3>3, <3>4, <3>6, <4>1, <4>2, <4>3
    <3>7. CASE k = n + 2
      <4>1. k \in DOMAIN evq' \ DOMAIN evq /\ k - n = 2
        BY <1>3, <3>3, <3>7
      <4>2. evq'[k] = e
        BY <3>2, <3>3, <4>1
      <4>3. \A j \in 1 .. n + 2 : j <= k
        BY <3>7
      <4> QED
        BY <1>3, <3>3, <3>4, <3>7, <4>1, <4>2, <4>3
    <3>8. k \in 1 .. n \/ k = n + 1 \/ k = n + 2
      BY <1>3, <3>3
    <3> QED
      BY <3>5, <3>6, <3>7, <3>8
  <2>3. evq' = Append(evq, e) \/ Trades(q, d, e)
    BY DEF FrontDoes, Tells, Repeats
  <2> QED
    BY <2>1, <2>2, <2>3
<1>5. k \notin DOMAIN evq => \A j \in DOMAIN evq : j < k
  BY <1>3, <1>4
<1>6. ASSUME Due(k, r)'
      PROVE  \/ k \in DOMAIN evq /\ evq'[k] = evq[k] /\ Due(k, r)
             \/ r = q /\ front[q].st = "queued"
  <2>1. evq'[k].kind = "trade" /\ evq'[k].ref = r
    BY <1>6 DEF Due, IsTrade
  <2>2. PICK x : x = evq'[k].id
    OBVIOUS
  <2>3. ~Has(seen[r], x)
    BY <1>2, <1>6, <2>2 DEF Due
  <2>4. CASE k \in DOMAIN evq /\ evq'[k] = evq[k]
    BY <2>1, <2>2, <2>3, <2>4 DEF Due, IsTrade
  <2>5. CASE evq'[k] = e
    <3>1. r = q /\ e.kind = "trade" /\ x = e.id
      BY <1>2, <2>1, <2>2, <2>5
    <3>2. ~Repeats(q, e)
      <4> SUFFICES ASSUME Repeats(q, e)
                   PROVE  FALSE
        OBVIOUS
      <4>1. seen[q] \in Seq(Nat) /\ seen[q] # <<>> /\ e.id = seen[q][1]
        BY <1>1 DEF Repeats
      <4>2. 1 \in DOMAIN seen[q]
        BY <4>1, TailFacts
      <4> QED
        BY <2>3, <3>1, <4>1, <4>2 DEF Has
    <3>3. Trades(q, d, e)
      BY <3>1, <3>2 DEF FrontDoes, Tells
    <3> QED
      BY <3>1, <3>3 DEF Trades
  <2>6. CASE evq'[k] = d /\ d.kind = "order"
    BY <2>1, <2>6
  <2> QED
    BY <1>4, <2>4, <2>5, <2>6
<1> QED
  BY <1>4, <1>5, <1>6

(* An order that is over stays over. *)
LEMMA OverStays ==
  ASSUME BaseInv, TradeInv, [Next]_vars, NEW r \in Refs, Over(r)
  PROVE  Over(r)'
<1>1. TypeInv /\ front[r].st = "closed" /\ front \in [Refs -> FrontType]
  BY DEF Over, BaseInv, TypeInv, FrontTypes
<1>2. CASE UNCHANGED <<cb, seen, evq>> /\ front'[r].st = front[r].st
  BY <1>2 DEF Over, Due, IsTrade
<1>3. CASE Helper \/ UNCHANGED vars
  <2>1. UNCHANGED <<cb, evq, front, seen>>
    BY <1>3, HelperKeeps DEF vars
  <2> QED
    BY <1>2, <2>1
<1>4. CASE Listening
  <2>1. UNCHANGED <<cb, evq, seen>>
    BY <1>4, ListeningKeeps
  <2>2. front'[r].st = front[r].st
    <3>1. CASE InsertSent
      <4>1. /\ front' = [front EXCEPT ![reqId] =
                           [st |-> "sent", traded |-> 0, cxl |-> FALSE,
                            oid |-> ecmd.oid]]
            /\ epc = "insert"
        BY <3>1 DEF InsertSent
      <4>2. ~Begun(reqId)
        BY <1>1, <4>1 DEF Begun, TypeInv, EngineType
      <4>3. r # reqId
        BY <1>1, <4>2 DEF BaseInv, FreshInv, NoOrder
      <4> QED
        BY <1>1, <4>1, <4>3
    <3>2. CASE CancelSent
      <4>1. front' = [front EXCEPT ![ecmd.ref].cxl = TRUE]
        BY <3>2 DEF CancelSent
      <4> QED
        BY <1>1, <4>1 DEF FrontType
    <3>3. CASE ~InsertSent /\ ~CancelSent
      BY <1>4, <3>3 DEF Listening, TakeCmd, InsertFails, FillOrder, FillFrom,
         InsertAck, OnNewLoad, OnNewStore, CancelFails, CxlingLoad, CxlingStore,
         frontVars
    <3> QED
      BY <3>1, <3>2, <3>3
  <2> QED
    BY <1>2, <2>1, <2>2
<1>5. CASE CallbackBegin
  <2>1. PICK e \in EventType : e.ref \in Used /\ BeginDoes(e)
    BY <1>5, BeginCases
  <2>2. \A k \in DOMAIN evq' : ~Due(k, r)'
    BY <2>1, BeginDue DEF Over
  <2>3. front' = front
    BY <2>1 DEF BeginDoes
  <2>4. ~(cb'.kind = "trade" /\ cb'.ref = r)
    <3> SUFFICES ASSUME cb'.kind = "trade", cb'.ref = r
                 PROVE  FALSE
      OBVIOUS
    <3>1. cb' # NoEvent /\ e.kind = "trade" /\ e.ref = r
      BY <2>1 DEF BeginDoes, NoEvent
    <3>2. ~Has(seen[r], e.id)
      BY <2>1, <3>1 DEF BeginDoes
    <3>3. e = evq[1] /\ 1 \in DOMAIN evq
      BY <1>1, <2>1, TailFacts DEF BeginDoes, TypeInv, FrontTypes
    <3> QED
      BY <3>1, <3>2, <3>3 DEF Over, Due, IsTrade
  <2> QED
    BY <1>1, <2>2, <2>3, <2>4 DEF Over, Due, IsTrade
<1>6. CASE Handlers
  <2>1. cb' = NoEvent /\ UNCHANGED <<seen, evq, front>>
    BY <1>1, <1>6, HandledEffect DEF Handled, callbackUnchanged, frontVars
  <2> QED
    BY <2>1 DEF Over, Due, IsTrade, NoEvent
<1>7. CASE Front
  <2>1. PICK q \in Refs, d \in EventType, e \in EventType : FrontDoes(q, d, e)
    BY <1>7, FrontCases DEF BaseInv
  <2>2. \A k \in DOMAIN evq' : ~Due(k, r)'
    <3> SUFFICES ASSUME NEW k \in DOMAIN evq', Due(k, r)'
                 PROVE  FALSE
      OBVIOUS
    <3>1. \/ k \in DOMAIN evq /\ Due(k, r)
          \/ r = q /\ front[q].st = "queued"
      BY <2>1, FrontDue
    <3> QED
      BY <1>1, <3>1 DEF Over
  <2>3. front'[r].st = "closed"
    <3>1. CASE r # q
      BY <1>1, <2>1, <3>1 DEF FrontDoes
    <3>2. CASE r = q
      BY <1>1, <2>1, <3>2 DEF FrontDoes, Tells, Repeats, Trades
    <3> QED
      BY <3>1, <3>2
  <2>4. cb' = cb
    BY <2>1, FrontKeeps
  <2> QED
    BY <2>2, <2>3, <2>4 DEF Over, Due, IsTrade
<1> QED
  BY <1>3, <1>4, <1>5, <1>6, <1>7 DEF Next, Callbacks, Handlers

(* When the end of an order is reported none of its trades is due after    *)
(* it: the front reports in order, and repeats only what was counted.      *)
EndInv ==
  \A r \in Refs :
    /\ \A j \in DOMAIN evq : FinalEvent(evq[j]) /\ evq[j].ref = r =>
         /\ front[r].st = "closed"
         /\ \A k \in DOMAIN evq : j < k => ~Due(k, r)
    /\ FinalEvent(cb) /\ cb.ref = r => Over(r)

(* The end of an order, when a callback begins, ... *)
LEMMA EndBegin ==
  ASSUME BaseInv, TradeInv, EndInv, CallbackBegin
  PROVE  EndInv'
<1>1. PICK e \in EventType : e.ref \in Used /\ BeginDoes(e)
  BY BeginCases
<1>2. /\ front' = front /\ evq # <<>> /\ evq' = Tail(evq) /\ e = evq[1]
      /\ evq \in Seq(EventType) /\ e.ref \in Refs
  BY <1>1 DEF BeginDoes, BaseInv, TypeInv, FrontTypes, Used
<1>3. /\ 1 \in DOMAIN evq /\ DOMAIN evq' \subseteq Nat
      /\ \A k \in DOMAIN evq' : k + 1 \in DOMAIN evq /\ evq'[k] = evq[k + 1] /\ 1 < k + 1
  <2>1. DOMAIN evq' = 1 .. Len(evq) - 1 /\ 1 \in DOMAIN evq /\ Len(evq) \in Nat
    BY <1>2, TailFacts
  <2>2. \A k \in DOMAIN evq' : k + 1 \in DOMAIN evq /\ evq'[k] = evq[k + 1]
    BY <1>2, TailFacts
  <2> QED
    BY <2>1, <2>2
<1>4. ASSUME NEW r \in Refs, NEW j \in DOMAIN evq', FinalEvent(evq'[j]), evq'[j].ref = r
      PROVE  /\ front'[r].st = "closed"
             /\ \A k \in DOMAIN evq' : j < k => ~Due(k, r)'
  <2>1. PICK l : l = j + 1
    OBVIOUS
  <2>2. l \in DOMAIN evq /\ evq'[j] = evq[l] /\ FinalEvent(evq[l]) /\ evq[l].ref = r
    BY <1>3, <1>4, <2>1
  <2>3. front[r].st = "closed" /\ \A k \in DOMAIN evq : l < k => ~Due(k, r)
    BY <2>2 DEF EndInv
  <2>4. ASSUME NEW k \in DOMAIN evq', j < k, Due(k, r)'
        PROVE  FALSE
    <3>1. PICK m : m = k + 1
      OBVIOUS
    <3>2. m \in DOMAIN evq /\ Due(m, r)
      BY <1>1, <2>4, <3>1, BeginDue
    <3>3. l < m
      BY <1>3, <2>1, <2>4, <3>1
    <3> QED
      BY <2>3, <3>2, <3>3
  <2> QED
    BY <1>2, <2>3, <2>4
<1>5. ASSUME NEW r \in Refs, FinalEvent(cb'), cb'.ref = r
      PROVE  Over(r)'
  <2>1. /\ cb' # NoEvent /\ cb'.kind = e.kind /\ e.ref = r /\ cb'.what = e.what
    BY <1>1, <1>5 DEF BeginDoes, FinalEvent, NoEvent
  <2>2. FinalEvent(e) /\ cb'.kind # "trade"
    BY <1>5, <2>1 DEF FinalEvent
  <2>3. front[r].st = "closed" /\ \A k \in DOMAIN evq : 1 < k => ~Due(k, r)
    BY <1>2, <1>3, <2>1, <2>2 DEF EndInv
  <2>4. ASSUME NEW k \in DOMAIN evq', Due(k, r)'
        PROVE  FALSE
    <3>1. PICK m : m = k + 1
      OBVIOUS
    <3>2. m \in DOMAIN evq /\ Due(m, r) /\ 1 < m
      BY <1>1, <1>3, <2>4, <3>1, BeginDue
    <3> QED
      BY <2>3, <3>2
  <2> QED
    BY <1>2, <2>2, <2>3, <2>4 DEF Over
<1> QED
  BY <1>4, <1>5 DEF EndInv, FinalEvent

(* ... when the front answers or trades, ... *)
LEMMA EndFront ==
  ASSUME BaseInv, TradeInv, EndInv, Front
  PROVE  EndInv'
<1>1. PICK q \in Refs, d \in EventType, e \in EventType : FrontDoes(q, d, e)
  BY FrontCases DEF BaseInv
<1>2. evq \in Seq(EventType) /\ cb' = cb /\ seen' = seen /\ e.ref = q
  BY <1>1, FrontKeeps DEF BaseInv, TypeInv, FrontTypes, FrontDoes
<1>3. \A r \in Refs : front[r].st = "closed" => front'[r].st = "closed"
  <2> SUFFICES ASSUME NEW r \in Refs, front[r].st = "closed"
               PROVE  front'[r].st = "closed"
    OBVIOUS
  <2>1. CASE r # q
    BY <1>1, <2>1 DEF FrontDoes
  <2>2. CASE r = q
    BY <1>1, <2>2 DEF FrontDoes, Tells, Repeats, Trades
  <2> QED
    BY <2>1, <2>2
<1>4. ASSUME NEW r \in Refs, NEW j \in DOMAIN evq', FinalEvent(evq'[j]), evq'[j].ref = r
      PROVE  /\ front'[r].st = "closed"
             /\ \A k \in DOMAIN evq' : j < k => ~Due(k, r)'
  <2>1. CASE j \in DOMAIN evq /\ evq'[j] = evq[j]
    <3>1. front[r].st = "closed" /\ \A k \in DOMAIN evq : j < k => ~Due(k, r)
      BY <1>4, <2>1 DEF EndInv
    <3>2. ASSUME NEW k \in DOMAIN evq', j < k
          PROVE  ~Due(k, r)'
      <4>1. Due(k, r)' => \/ k \in DOMAIN evq /\ Due(k, r)
                          \/ r = q /\ front[q].st = "queued"
        BY <1>1, FrontDue
      <4> QED
        BY <3>1, <3>2, <4>1
    <3> QED
      BY <1>3, <3>1, <3>2
  <2>2. CASE evq'[j] = e /\ \A k \in DOMAIN evq' : k <= j
    <3>1. Tells(q, e) /\ r = q
      BY <1>1, <1>2, <1>4, <2>2 DEF FrontDoes, Repeats, Trades, FinalEvent
    <3>2. front'[q].st = "closed"
      BY <1>4, <2>2, <3>1 DEF Tells
    <3>3. DOMAIN evq' \subseteq Int
      <4>1. PICK n \in Nat : n = Len(evq)
        BY <1>2
      <4>2. evq' = Append(evq, e)
        BY <3>1 DEF Tells
      <4>3. DOMAIN evq' = 1 .. n + 1
        BY <1>2, <4>1, <4>2, AppendFacts
      <4> QED
        BY <4>3
    <3>4. \A k \in DOMAIN evq' : ~(j < k)
      BY <2>2, <3>3
    <3> QED
      BY <3>1, <3>2, <3>4
  <2>3. ~(evq'[j] = d /\ ~FinalEvent(d))
    BY <1>4
  <2> QED
    BY <1>1, <2>1, <2>2, <2>3, FrontDue
<1>5. ASSUME NEW r \in Refs, FinalEvent(cb'), cb'.ref = r
      PROVE  Over(r)'
  <2>1. Over(r)
    BY <1>2, <1>5 DEF EndInv
  <2> QED
    BY <2>1, OverStays DEF Next
<1> QED
  BY <1>4, <1>5 DEF EndInv, FinalEvent

(* ... and in every step. *)
LEMMA EndStep ==
  ASSUME BaseInv, TradeInv, EndInv, [Next]_vars
  PROVE  EndInv'
<1>1. CASE Helper \/ Listening \/ UNCHANGED vars
  <2>1. UNCHANGED <<cb, seen, evq>>
    BY <1>1, HelperKeeps, ListeningKeeps DEF vars
  <2>2. ASSUME NEW r \in Refs, front[r].st = "closed"
        PROVE  front'[r].st = "closed"
    <3>1. front \in [Refs -> FrontType] /\ reqId \in Nat
      BY DEF BaseInv, TypeInv, FrontTypes, EngineType
    <3>2. CASE InsertSent
      <4>1. /\ front' = [front EXCEPT ![reqId] =
                           [st |-> "sent", traded |-> 0, cxl |-> FALSE,
                            oid |-> ecmd.oid]]
            /\ epc = "insert"
        BY <3>2 DEF InsertSent
      <4>2. ~Begun(reqId)
        BY <3>1, <4>1 DEF Begun
      <4>3. r # reqId
        BY <2>2, <4>2 DEF BaseInv, FreshInv, NoOrder
      <4> QED
        BY <2>2, <3>1, <4>1, <4>3
    <3>3. CASE CancelSent
      <4>1. front' = [front EXCEPT ![ecmd.ref].cxl = TRUE]
        BY <3>3 DEF CancelSent
      <4> QED
        BY <2>2, <3>1, <4>1 DEF FrontType
    <3>4. CASE Listening /\ ~InsertSent /\ ~CancelSent
      BY <2>2, <3>4 DEF Listening, TakeCmd, InsertFails, FillOrder, FillFrom,
         InsertAck, OnNewLoad, OnNewStore, CancelFails, CxlingLoad, CxlingStore,
         frontVars
    <3>5. CASE Helper \/ UNCHANGED vars
      BY <2>2, <3>5, HelperKeeps DEF vars
    <3> QED
      BY <1>1, <3>2, <3>3, <3>4, <3>5
  <2>3. ASSUME NEW r \in Refs, FinalEvent(cb), cb.ref = r
        PROVE  Over(r)'
    <3>1. Over(r)
      BY <2>3 DEF EndInv
    <3> QED
      BY <3>1, OverStays
  <2>4. ASSUME NEW r \in Refs, NEW j \in DOMAIN evq, FinalEvent(evq[j]), evq[j].ref = r
        PROVE  /\ front'[r].st = "closed"
               /\ \A k \in DOMAIN evq : j < k => ~Due(k, r)
    BY <2>2, <2>4 DEF EndInv
  <2>5. \A r \in Refs, k \in DOMAIN evq : Due(k, r)' <=> Due(k, r)
    BY <2>1 DEF Due, IsTrade
  <2> QED
    BY <2>1, <2>3, <2>4, <2>5 DEF EndInv, FinalEvent
<1>2. CASE CallbackBegin
  BY <1>2, EndBegin
<1>3. CASE Handlers
  <2>1. cb' = NoEvent /\ UNCHANGED <<seen, evq, front>>
    BY <1>3, HandledEffect DEF BaseInv, Handled, callbackUnchanged, frontVars
  <2>2. \A r \in Refs, k \in DOMAIN evq : Due(k, r)' <=> Due(k, r)
    BY <2>1 DEF Due, IsTrade
  <2> QED
    BY <2>1, <2>2 DEF EndInv, NoEvent, FinalEvent
<1>4. CASE Front
  BY <1>4, EndFront
<1> QED
  BY <1>1, <1>2, <1>3, <1>4 DEF Next, Callbacks, Handlers

-----------------------------------------------------------------------------
(* In the first run of the helper: what a return does to the order it is   *)
(* for, ...                                                                *)
LEMMA TakeFacts ==
  ASSUME BaseInv, GetRtn, NEW m, m = rtns[1]
  PROVE  /\ m \in RtnType /\ rtns # <<>> /\ rtns' = Tail(rtns)
         /\ 1 \in DOMAIN rtns /\ DOMAIN ots' = DOMAIN ots
         /\ DOMAIN rtns \subseteq Nat /\ DOMAIN rtns' \subseteq Nat
         /\ \A k \in DOMAIN rtns' :
              k + 1 \in DOMAIN rtns /\ rtns'[k] = rtns[k + 1] /\ 1 < k + 1
         /\ \A i \in DOMAIN ots :
              IF m.to /\ m.local = i
              THEN /\ ots'[i].traded = ots[i].traded + MsgVol(m, i)
                   /\ ots[i].st \subseteq ots'[i].st
                   /\ Bits(m.type) \subseteq ots'[i].st
                   /\ \A b \in ots'[i].st :
                        b \in ots[i].st \/ b \in Bits(m.type)
                          \/ (b = "CLOSED" /\ ots'[i].traded >= Vol)
                   /\ m.type = "EXECUTION" /\ ots'[i].traded >= Vol =>
                        "CLOSED" \in ots'[i].st
              ELSE ots'[i] = ots[i]
<1>1. rtns \in Seq(RtnType) /\ ots \in Seq(OtType)
  BY DEF BaseInv, TypeInv, HelperType
<1>2. /\ rtns # <<>> /\ rtns' = Tail(rtns) /\ Head(rtns) = m /\ m \in RtnType
      /\ 1 \in DOMAIN rtns
      /\ ots' = IF m.to /\ m.local \in DOMAIN ots
                THEN [ots EXCEPT ![m.local] = Updated(@, m)] ELSE ots
  BY ZenonT(60), <1>1, TailFacts DEF GetRtn
<1>3. DOMAIN ots' = DOMAIN ots
  BY <1>2
<1>4. /\ DOMAIN rtns \subseteq Nat /\ DOMAIN rtns' \subseteq Nat
      /\ \A k \in DOMAIN rtns' :
           k + 1 \in DOMAIN rtns /\ rtns'[k] = rtns[k + 1] /\ 1 < k + 1
  <2>1. /\ DOMAIN rtns' = 1 .. Len(rtns) - 1 /\ Len(rtns) \in Nat
        /\ DOMAIN rtns = 1 .. Len(rtns)
    BY <1>1, <1>2, TailFacts
  <2>2. \A k \in DOMAIN rtns' : k + 1 \in DOMAIN rtns /\ rtns'[k] = rtns[k + 1]
    BY <1>1, <1>2, TailFacts
  <2> QED
    BY <2>1, <2>2
<1>5. ASSUME NEW i \in DOMAIN ots, m.to, m.local = i
      PROVE  /\ ots'[i].traded = ots[i].traded + MsgVol(m, i)
             /\ ots[i].st \subseteq ots'[i].st
             /\ Bits(m.type) \subseteq ots'[i].st
             /\ \A b \in ots'[i].st :
                  b \in ots[i].st \/ b \in Bits(m.type)
                    \/ (b = "CLOSED" /\ ots'[i].traded >= Vol)
             /\ m.type = "EXECUTION" /\ ots'[i].traded >= Vol =>
                  "CLOSED" \in ots'[i].st
  <2>1. ots'[i] = Updated(ots[i], m) /\ ots[i].traded \in Nat
    <3>1. ots[i] \in OtType
      BY <1>1
    <3> QED
      BY <1>2, <1>5, <3>1 DEF OtType
  <2>2. PICK t : t = IF m.type = "EXECUTION" THEN ots[i].traded + m.vol
                     ELSE ots[i].traded
    OBVIOUS
  <2>3. /\ ots'[i].traded = t
        /\ ots'[i].st = ots[i].st \cup Bits(m.type)
             \cup (IF m.type = "EXECUTION" /\ t >= Vol THEN {"CLOSED"} ELSE {})
    BY <2>1, <2>2 DEF Updated
  <2>4. t = ots[i].traded + MsgVol(m, i)
    <3>1. CASE m.type = "EXECUTION"
      <4>1. MsgVol(m, i) = m.vol
        BY <1>5, <3>1 DEF MsgVol
      <4> QED
        BY <2>2, <3>1, <4>1
    <3>2. CASE m.type # "EXECUTION"
      <4>1. MsgVol(m, i) = 0
        BY <3>2 DEF MsgVol
      <4> QED
        BY <2>1, <2>2, <3>2, <4>1
    <3> QED
      BY <3>1, <3>2
  <2>5. \A b \in ots'[i].st :
          b \in ots[i].st \/ b \in Bits(m.type) \/ (b = "CLOSED" /\ ots'[i].traded >= Vol)
    <3>1. CASE m.type = "EXECUTION" /\ t >= Vol
      <4>1. ots'[i].st = ots[i].st \cup Bits(m.type) \cup {"CLOSED"}
        BY <2>3, <3>1
      <4>2. ots'[i].traded >= Vol
        BY <2>3, <3>1
      <4> QED
        BY <4>1, <4>2
    <3>2. CASE ~(m.type = "EXECUTION" /\ t >= Vol)
      <4>1. ots'[i].st = ots[i].st \cup Bits(m.type)
        BY <2>3, <3>2
      <4> QED
        BY <4>1
    <3> QED
      BY <3>1, <3>2
  <2>6. ots[i].st \subseteq ots'[i].st /\ Bits(m.type) \subseteq ots'[i].st
    BY <2>3
  <2>7. m.type = "EXECUTION" /\ ots'[i].traded >= Vol => "CLOSED" \in ots'[i].st
    <3>1. CASE m.type = "EXECUTION" /\ t >= Vol
      BY <2>3, <3>1
    <3>2. CASE ~(m.type = "EXECUTION" /\ t >= Vol)
      BY <2>3, <3>2
    <3> QED
      BY <3>1, <3>2
  <2>8. ots'[i].traded = ots[i].traded + MsgVol(m, i)
    BY <2>3, <2>4
  <2> QED
    BY <2>5, <2>6, <2>7, <2>8
<1>6. ASSUME NEW i \in DOMAIN ots, ~(m.to /\ m.local = i)
      PROVE  ots'[i] = ots[i]
  BY <1>2, <1>6
<1> QED
  BY <1>2, <1>3, <1>4, <1>5, <1>6

(* ... and the steps that take none. *)
OtsQuiet ==
  /\ \A i \in DOMAIN ots :
       /\ i \in DOMAIN ots' /\ ots'[i].traded = ots[i].traded
       /\ ots'[i].st \cap Closing = ots[i].st \cap Closing
  /\ \A i \in DOMAIN ots' :
       \/ i \in DOMAIN ots
       \/ i = sent + 1 /\ sent' = sent + 1 /\ ots'[i].st = {"SEND"}
          /\ ots'[i].traded = 0

FromEngine(m) ==
  /\ m.to /\ m.local = ecmd.oid /\ m.oid = ecmd.oid
  /\ \/ InsertFails /\ m.type = "ERR"
     \/ m.type \in {"TDSEND", "CANCEL_REJECT"}

FromCallback(m) ==
  /\ Handled /\ cb.ref \in Used
  /\ m.to = cb.from /\ m.oid = front[cb.ref].oid /\ (m.to => m.local = m.oid)
  /\ m.type = "EXECUTION" <=> cb.kind = "trade"
  /\ m.type \in Final <=> FinalEvent(cb)
  /\ m.type \notin {"ERR", "CLOSED"}

(* Whatever happens, the helper takes a return, or its orders are left     *)
(* alone and at most one return is written.                                *)
LEMMA RtnMoves ==
  ASSUME BaseInv, LocalInv, [Next]_vars, restarts' = 0
  PROVE  \/ GetRtn
         \/ rtns' = rtns /\ OtsQuiet
            /\ (Handled /\ Handlers => (FinalEvent(cb) => track[cb.ref].st \cap Closing # {}))
         \/ \E m \in RtnType : /\ rtns' = Append(rtns, m) /\ OtsQuiet
                               /\ FromEngine(m) \/ FromCallback(m)
<1>1. /\ restarts = 0 /\ hup = "up" /\ Len(ots) = sent /\ ots \in Seq(OtType)
      /\ sent \in Nat /\ TypeInv /\ ecmd.local = ecmd.oid
      /\ \A r \in Refs : track[r].from => track[r].local = front[r].oid
  <2>1. restarts = 0
    BY LocalOtsStep
  <2> QED
    BY <2>1 DEF LocalInv, BaseInv, TypeInv, HelperType
<1>2. ots' = ots => OtsQuiet
  BY DEF OtsQuiet
<1>3. CASE SendOrder
  <2>1. PICK o : /\ o = [oid |-> sent + 1, st |-> {"SEND"}, traded |-> 0, ref |-> -1]
                 /\ ots' = Append(ots, o) /\ rtns' = rtns
                 /\ o.traded = 0 /\ o.st = {"SEND"} /\ sent' = sent + 1
    BY <1>3 DEF SendOrder
  <2>2. PICK n \in Nat : n = sent + 1
    BY <1>1
  <2>3. /\ DOMAIN ots' = 1 .. n /\ ots'[n] = o /\ DOMAIN ots = 1 .. sent
        /\ \A i \in 1 .. sent : ots'[i] = ots[i]
    BY <1>1, <2>1, <2>2
  <2>4. OtsQuiet
    BY <1>1, <2>1, <2>2, <2>3 DEF OtsQuiet
  <2>5. cb' = cb
    BY <1>3 DEF SendOrder, engineVars
  <2>6. ~(Handled /\ Handlers)
    BY <2>5 DEF Handled, EventType, NoEvent
  <2> QED
    BY <2>1, <2>4, <2>6
<1>4. CASE \E j \in DOMAIN ots : DeleteOrder(j)
  <2>1. PICK j \in DOMAIN ots : DeleteOrder(j)
    BY <1>4
  <2>2. ots' = [ots EXCEPT ![j].st = @ \cup {"CXLING"}] /\ rtns' = rtns /\ cb' = cb
    BY <2>1 DEF DeleteOrder, engineVars
  <2>3. \A i \in DOMAIN ots : ots[i] \in OtType
    BY <1>1
  <2>4. /\ DOMAIN ots' = DOMAIN ots
        /\ \A i \in DOMAIN ots : /\ ots'[i].traded = ots[i].traded
                                 /\ \/ ots'[i].st = ots[i].st
                                    \/ ots'[i].st = ots[i].st \cup {"CXLING"}
    BY <2>2, <2>3 DEF OtType
  <2>5. "CXLING" \notin Closing
    BY DEF Closing, Final
  <2>6. OtsQuiet
    BY <2>4, <2>5 DEF OtsQuiet
  <2>7. ~(Handled /\ Handlers)
    BY <2>2 DEF Handled, EventType, NoEvent
  <2> QED
    BY <2>2, <2>6, <2>7
<1>5. CASE HelperStop \/ HelperReader \/ HelperQuery
  BY <1>1, <1>5 DEF HelperStop, HelperReader, HelperQuery
<1>6. CASE Listening
  <2>1. ots' = ots /\ cb' = cb
    BY <1>6, ListeningKeeps
  <2>2. ~(Handled /\ Handlers)
    BY <2>1 DEF Handled, EventType, NoEvent
  <2> QED
    BY <1>1, <1>2, <1>6, <2>1, <2>2, ListeningWrites DEF FromEngine
<1>7. CASE Handlers
  <2>1. Handled /\ ots' = ots /\ cb # NoEvent /\ cb.ref \in Refs
    BY <1>1, <1>7, HandledEffect
       DEF Handled, callbackUnchanged, helperVars, EventType, NoEvent
  <2>2. /\ cb.ref \in Used
        /\ cb.from => cb.local = front[cb.ref].oid
    BY <1>1, <2>1 DEF BaseInv, RefsInv
  <2>3. CASE rtns' = rtns
    <3>1. FinalEvent(cb) => track[cb.ref].st \cap Closing # {}
      <4>1. rtns \in Seq(RtnType)
        BY <1>1 DEF TypeInv, HelperType
      <4>2. \A x : Append(rtns, x) # rtns
        <5> TAKE x
        <5>1. Len(Append(rtns, x)) = Len(rtns) + 1 /\ Len(rtns) \in Nat
          BY <4>1
        <5> QED
          BY <5>1
      <4> QED
        BY <2>1, <2>3, <4>2 DEF Handled
    <3> QED
      BY <1>2, <2>1, <2>3, <3>1
  <2>4. CASE rtns' # rtns
    <3>1. PICK type \in AllBits, v \in Nat :
            /\ rtns' = Append(rtns, Rtn(cb.from, type, cb.local, cb.ref, v,
                                        front[cb.ref].oid))
            /\ type = "EXECUTION" <=> cb.kind = "trade"
            /\ type \in Final <=> FinalEvent(cb)
            /\ type \notin {"ERR", "CLOSED"}
      BY <2>1, <2>4 DEF Handled
    <3>2. PICK m : m = Rtn(cb.from, type, cb.local, cb.ref, v, front[cb.ref].oid)
      OBVIOUS
    <3>3. m \in RtnType
      <4>1. cb \in EventType
        BY <2>1 DEF Handled
      <4>2. front[cb.ref].oid \in 0 .. MaxOrders /\ cb.from \in BOOLEAN
            /\ cb.local \in 0 .. MaxOrders
        BY <1>1, <2>1, <4>1 DEF TypeInv, FrontTypes, FrontType, EventType
      <4> QED
        BY <2>1, <3>1, <3>2, <4>2 DEF Rtn, RtnType
    <3>4. FromCallback(m)
      BY <2>1, <2>2, <3>1, <3>2 DEF FromCallback, Rtn
    <3> QED
      BY <1>2, <2>1, <3>1, <3>2, <3>3, <3>4
  <2> QED
    BY <2>3, <2>4
<1>8. CASE CallbackBegin \/ Front \/ UNCHANGED vars
  <2>1. UNCHANGED <<ots, rtns>> /\ ~Handled
    <3>1. CASE CallbackBegin
      BY <3>1 DEF CallbackBegin, helperVars, Handled, EventType, NoEvent
    <3>2. CASE Front
      <4>1. PICK r \in Refs, d \in EventType, e \in EventType : FrontDoes(r, d, e)
        BY <3>2, FrontCases DEF BaseInv
      <4>2. UNCHANGED <<ots, rtns, cb>>
        BY <4>1, FrontKeeps
      <4> QED
        BY <4>2 DEF Handled, EventType, NoEvent
    <3>3. CASE UNCHANGED vars
      BY <3>3 DEF vars, Handled, EventType, NoEvent
    <3> QED
      BY <1>8, <3>1, <3>2, <3>3
  <2> QED
    BY <1>2, <2>1
<1> QED
  BY <1>3, <1>4, <1>5, <1>6, <1>7, <1>8 DEF Next, Helper, Callbacks, Handlers

-----------------------------------------------------------------------------
(* The types that end an order that was inserted, the returns that carry   *)
(* one, the executions, and the order of a number, when it is over.        *)
Ends == Final \ {"ERR"}
FinalRtn(k, i) == rtns[k].to /\ rtns[k].oid = i /\ rtns[k].type \in Ends
IsExec(k, i) == rtns[k].to /\ rtns[k].local = i /\ rtns[k].type = "EXECUTION"
OverNo(i) == \E r \in Used : front[r].oid = i /\ Over(r)

(* In the first run of the helper no execution follows the end of an       *)
(* order, in the pages or to the track that has seen it.                   *)
OverInv ==
  restarts = 0 =>
    /\ \A i \in Nat : \A j \in DOMAIN rtns : FinalRtn(j, i) =>
         OverNo(i) /\ \A k \in DOMAIN rtns : j < k => ~IsExec(k, i)
    /\ \A i \in DOMAIN ots : ots[i].st \cap Ends # {} =>
         OverNo(i) /\ \A k \in DOMAIN rtns : ~IsExec(k, i)
    /\ \A i \in DOMAIN ots : "CLOSED" \in ots[i].st =>
         ots[i].st \cap Final # {} \/ ots[i].traded >= Vol
    /\ \A k \in DOMAIN rtns : rtns[k].type # "CLOSED"

(* An order that is over stays over, ... *)
LEMMA OverNoStays ==
  ASSUME BaseInv, TradeInv, [Next]_vars, NEW i, OverNo(i)
  PROVE  OverNo(i)'
<1>1. PICK r \in Used : front[r].oid = i /\ Over(r)
  BY DEF OverNo
<1>2. r \in Refs /\ r \in Used' /\ front'[r].oid = i
  BY <1>1, OrderKeeps
<1>3. Over(r)'
  BY <1>1, <1>2, OverStays
<1> QED
  BY <1>2, <1>3 DEF OverNo

(* ... and gets no execution any more. *)
LEMMA OverNoExec ==
  ASSUME BaseInv, OrderInv, NEW m, FromCallback(m), m.type = "EXECUTION", OverNo(m.oid)
  PROVE  FALSE
<1>1. PICK r \in Used : front[r].oid = m.oid /\ Over(r)
  BY DEF OverNo
<1>2. cb.kind = "trade" /\ cb.ref \in Used /\ front[cb.ref].oid = m.oid
  BY DEF FromCallback
<1>3. r \in Refs /\ cb.ref \in Refs
  BY <1>2 DEF Used
<1>4. IsOf(r, m.oid) /\ IsOf(cb.ref, m.oid)
  BY <1>1, <1>2, <1>3, IsOfFacts
<1>5. r = cb.ref
  BY <1>3, <1>4, IsOfFacts
<1> QED
  BY <1>1, <1>2, <1>5 DEF Over

(* The step in which the helper takes a return, ... *)
LEMMA OverTake ==
  ASSUME BaseInv, LocalInv, TradeInv, OverInv, GetRtn, restarts = 0
  PROVE  OverInv'
<1>1. PICK m : m = rtns[1]
  OBVIOUS
<1>2. /\ 1 \in DOMAIN rtns /\ DOMAIN ots' = DOMAIN ots /\ m \in RtnType
      /\ DOMAIN rtns \subseteq Nat /\ DOMAIN rtns' \subseteq Nat
      /\ \A k \in DOMAIN rtns' :
           k + 1 \in DOMAIN rtns /\ rtns'[k] = rtns[k + 1] /\ 1 < k + 1
  BY <1>1, TakeFacts
<1>3. \A i : OverNo(i) => OverNo(i)'
  BY OverNoStays DEF Next, Helper
<1>4. ASSUME NEW i, NEW k \in DOMAIN rtns', IsExec(k, i)'
      PROVE  k + 1 \in DOMAIN rtns /\ IsExec(k + 1, i)
  BY <1>2, <1>4 DEF IsExec
<1>5. ASSUME NEW i \in Nat, NEW j \in DOMAIN rtns', FinalRtn(j, i)'
      PROVE  OverNo(i)' /\ \A k \in DOMAIN rtns' : j < k => ~IsExec(k, i)'
  <2>1. PICK l : l = j + 1
    OBVIOUS
  <2>2. l \in DOMAIN rtns /\ FinalRtn(l, i)
    BY <1>2, <1>5, <2>1 DEF FinalRtn
  <2>3. OverNo(i) /\ \A k \in DOMAIN rtns : l < k => ~IsExec(k, i)
    BY <2>2 DEF OverInv
  <2>4. \A k \in DOMAIN rtns' : j < k => l < k + 1
    BY <1>2, <2>1
  <2> QED
    BY <1>3, <1>4, <2>3, <2>4
<1>6. ASSUME NEW i \in DOMAIN ots, ots'[i].st \cap Ends # {}
      PROVE  OverNo(i)' /\ \A k \in DOMAIN rtns' : ~IsExec(k, i)'
  <2>1. CASE ots[i].st \cap Ends # {}
    <3>1. OverNo(i) /\ \A k \in DOMAIN rtns : ~IsExec(k, i)
      BY <2>1 DEF OverInv
    <3> QED
      BY <1>3, <1>4, <3>1
  <2>2. CASE ots[i].st \cap Ends = {}
    <3>1. PICK b \in Ends : b \in ots'[i].st /\ b \notin ots[i].st
      BY <1>6, <2>2
    <3>2. m.to /\ m.local = i /\ b \in Bits(m.type)
      <4>1. b # "CLOSED"
        BY <3>1 DEF Ends, Final
      <4>2. m.to /\ m.local = i
        BY <1>1, <3>1, TakeFacts
      <4> QED
        BY <1>1, <3>1, <4>1, <4>2, TakeFacts
    <3>3. m.type \in Ends
      BY <3>1, <3>2 DEF Ends, Final, Bits
    <3>4. m.oid = i /\ i \in Nat
      <4>1. i \in Nat
        BY DEF BaseInv, TypeInv, HelperType
      <4> QED
        BY <1>1, <1>2, <3>2, <4>1 DEF LocalInv
    <3>5. FinalRtn(1, i)
      BY <1>1, <3>2, <3>3, <3>4 DEF FinalRtn
    <3>6. OverNo(i) /\ \A k \in DOMAIN rtns : 1 < k => ~IsExec(k, i)
      BY <1>2, <3>4, <3>5 DEF OverInv
    <3> QED
      BY <1>2, <1>3, <1>4, <3>6
  <2> QED
    BY <2>1, <2>2
<1>7. ASSUME NEW i \in DOMAIN ots, "CLOSED" \in ots'[i].st
      PROVE  ots'[i].st \cap Final # {} \/ ots'[i].traded >= Vol
  <2>1. CASE m.to /\ m.local = i
    <3>1. /\ ots'[i].traded = ots[i].traded + MsgVol(m, i)
          /\ ots[i].st \subseteq ots'[i].st /\ Bits(m.type) \subseteq ots'[i].st
          /\ \/ "CLOSED" \in ots[i].st
             \/ "CLOSED" \in Bits(m.type)
             \/ ots'[i].traded >= Vol
      BY <1>1, <1>7, <2>1, TakeFacts
    <3>2. MsgVol(m, i) \in Nat /\ ots[i].traded \in Nat /\ Vol \in Nat
      <4>1. ots \in Seq(OtType)
        BY DEF BaseInv, TypeInv, HelperType
      <4>2. ots[i] \in OtType
        BY <4>1
      <4>3. MsgVol(m, i) \in Nat
        BY <1>2 DEF MsgVol, RtnType
      <4> QED
        BY <4>2, <4>3, OrderAssumption DEF OtType
    <3>3. CASE "CLOSED" \in ots[i].st
      <4>1. ots[i].st \cap Final # {} \/ ots[i].traded >= Vol
        BY <3>3 DEF OverInv
      <4>2. ots[i].traded >= Vol => ots'[i].traded >= Vol
        BY <3>1, <3>2
      <4> QED
        BY <3>1, <4>1, <4>2
    <3>4. CASE "CLOSED" \in Bits(m.type)
      <4>1. m.type # "CLOSED"
        BY <1>1, <1>2 DEF OverInv
      <4>2. m.type \in Final /\ m.type \in Bits(m.type)
        BY <3>4, <4>1 DEF Bits
      <4> QED
        BY <3>1, <4>2
    <3> QED
      BY <3>1, <3>3, <3>4
  <2>2. CASE ~(m.to /\ m.local = i)
    <3>1. ots'[i] = ots[i]
      BY <1>1, <2>2, TakeFacts
    <3> QED
      BY <1>7, <3>1 DEF OverInv
  <2> QED
    BY <2>1, <2>2
<1>8. \A k \in DOMAIN rtns' : rtns'[k].type # "CLOSED"
  BY <1>2 DEF OverInv
<1> QED
  BY <1>2, <1>5, <1>6, <1>7, <1>8 DEF OverInv

(* ... the steps that leave the returns alone, ... *)
LEMMA OverQuiet ==
  ASSUME BaseInv, TradeInv, OverInv, [Next]_vars, restarts = 0, OtsQuiet
  PROVE  /\ \A i : OverNo(i) => OverNo(i)'
         /\ \A i \in DOMAIN ots' : ots'[i].st \cap Ends # {} =>
              /\ i \in DOMAIN ots /\ OverNo(i)'
              /\ \A k \in DOMAIN rtns : ~IsExec(k, i)
         /\ \A i \in DOMAIN ots' : "CLOSED" \in ots'[i].st =>
              ots'[i].st \cap Final # {} \/ ots'[i].traded >= Vol
<1>1. \A i : OverNo(i) => OverNo(i)'
  BY OverNoStays
<1>2. Ends \subseteq Closing /\ Final \subseteq Closing /\ "CLOSED" \in Closing
      /\ "SEND" \notin Closing
  BY DEF Ends, Closing, Final
<1>3. ASSUME NEW i \in DOMAIN ots', ots'[i].st \cap Closing # {}
      PROVE  /\ i \in DOMAIN ots /\ ots'[i].traded = ots[i].traded
             /\ ots'[i].st \cap Closing = ots[i].st \cap Closing
  BY <1>2, <1>3 DEF OtsQuiet
<1>4. ASSUME NEW i \in DOMAIN ots', ots'[i].st \cap Ends # {}
      PROVE  /\ i \in DOMAIN ots /\ OverNo(i)'
             /\ \A k \in DOMAIN rtns : ~IsExec(k, i)
  <2>1. i \in DOMAIN ots /\ ots[i].st \cap Ends # {}
    BY <1>2, <1>3, <1>4
  <2> QED
    BY <1>1, <2>1 DEF OverInv
<1>5. ASSUME NEW i \in DOMAIN ots', "CLOSED" \in ots'[i].st
      PROVE  ots'[i].st \cap Final # {} \/ ots'[i].traded >= Vol
  <2>1. /\ i \in DOMAIN ots /\ ots'[i].traded = ots[i].traded
        /\ ots'[i].st \cap Closing = ots[i].st \cap Closing
    BY <1>2, <1>3, <1>5
  <2>2. ots[i].st \cap Final # {} \/ ots[i].traded >= Vol
    BY <1>2, <1>5, <2>1 DEF OverInv
  <2> QED
    BY <1>2, <2>1, <2>2
<1> QED
  BY <1>1, <1>4, <1>5

(* ... and those that write one. *)
LEMMA OverStep ==
  ASSUME BaseInv, LocalInv, TradeInv, OrderInv, EndInv, OverInv, [Next]_vars
  PROVE  OverInv'
<1> SUFFICES ASSUME restarts' = 0
             PROVE  OverInv'
  BY DEF OverInv
<1>1. restarts = 0 /\ rtns \in Seq(RtnType)
  BY LocalOtsStep DEF BaseInv, TypeInv, HelperType
<1>2. CASE GetRtn
  BY <1>1, <1>2, OverTake
<1>3. CASE rtns' = rtns /\ OtsQuiet
  BY <1>1, <1>3, OverQuiet DEF OverInv, FinalRtn, IsExec
<1>4. ASSUME NEW m \in RtnType, rtns' = Append(rtns, m), OtsQuiet,
             FromEngine(m) \/ FromCallback(m)
      PROVE  OverInv'
  <2>1. PICK n \in Nat : n = Len(rtns)
    BY <1>1
  <2>2. /\ DOMAIN rtns = 1 .. n /\ DOMAIN rtns' = 1 .. n + 1
        /\ rtns'[n + 1] = m /\ \A k \in 1 .. n : rtns'[k] = rtns[k]
    BY <1>1, <1>4, <2>1, AppendFacts
  <2>3. \A k \in DOMAIN rtns' : k = n + 1 \/ (k \in DOMAIN rtns /\ k < n + 1)
    BY <2>2
  <2>4. ASSUME NEW i, NEW k \in DOMAIN rtns', IsExec(k, i)', k \notin DOMAIN rtns
        PROVE  ~OverNo(i)
    <3>1. m.to /\ m.local = i /\ m.type = "EXECUTION"
      BY <2>2, <2>3, <2>4 DEF IsExec
    <3>2. FromCallback(m)
      BY <1>4, <3>1 DEF FromEngine
    <3>3. m.oid = i
      BY <3>1, <3>2 DEF FromCallback
    <3> QED
      BY <3>1, <3>2, <3>3, OverNoExec
  <2>5. ASSUME NEW i, NEW k \in DOMAIN rtns, IsExec(k, i)'
        PROVE  IsExec(k, i)
    BY <2>2, <2>5 DEF IsExec
  <2>6. ASSUME NEW i \in Nat, NEW j \in DOMAIN rtns', FinalRtn(j, i)'
        PROVE  OverNo(i)' /\ \A k \in DOMAIN rtns' : j < k => ~IsExec(k, i)'
    <3>1. CASE j \in DOMAIN rtns
      <4>1. FinalRtn(j, i)
        BY <2>2, <2>6, <3>1 DEF FinalRtn
      <4>2. OverNo(i) /\ \A k \in DOMAIN rtns : j < k => ~IsExec(k, i)
        BY <1>1, <3>1, <4>1 DEF OverInv
      <4> QED
        BY <1>1, <1>4, <2>4, <2>5, <4>2, OverQuiet
    <3>2. CASE j \notin DOMAIN rtns
      <4>1. j = n + 1 /\ rtns'[j] = m
        BY <2>2, <2>3, <3>2
      <4>2. m.oid = i /\ m.type \in Ends
        BY <2>6, <4>1 DEF FinalRtn
      <4>3. FromCallback(m)
        BY <1>4, <4>2 DEF FromEngine, Ends, Final
      <4>4. cb.ref \in Used /\ front[cb.ref].oid = i /\ FinalEvent(cb)
        BY <4>2, <4>3 DEF FromCallback, Ends
      <4>5. OverNo(i)
        BY <4>4 DEF EndInv, OverNo, Used
      <4>6. \A k \in DOMAIN rtns' : ~(j < k)
        BY <2>2, <4>1
      <4> QED
        BY <1>1, <1>4, <4>5, <4>6, OverQuiet
    <3> QED
      BY <3>1, <3>2
  <2>7. ASSUME NEW i \in DOMAIN ots', ots'[i].st \cap Ends # {}
        PROVE  OverNo(i)' /\ \A k \in DOMAIN rtns' : ~IsExec(k, i)'
    <3>1. /\ i \in DOMAIN ots /\ OverNo(i)'
          /\ \A k \in DOMAIN rtns : ~IsExec(k, i)
      BY <1>1, <1>4, <2>7, OverQuiet
    <3>2. ots[i].st \cap Ends # {}
      <4>1. ots'[i].st \cap Closing = ots[i].st \cap Closing
        BY <1>4, <3>1 DEF OtsQuiet
      <4>2. Ends \subseteq Closing
        BY DEF Ends, Closing
      <4> QED
        BY <2>7, <4>1, <4>2
    <3>3. OverNo(i)
      BY <1>1, <3>1, <3>2 DEF OverInv
    <3> QED
      BY <2>4, <2>5, <3>1, <3>3
  <2>8. \A k \in DOMAIN rtns' : rtns'[k].type # "CLOSED"
    <3>1. m.type # "CLOSED"
      BY <1>4 DEF FromEngine, FromCallback
    <3> QED
      BY <1>1, <2>2, <2>3, <3>1 DEF OverInv
  <2> QED
    BY <1>1, <1>4, <2>6, <2>7, <2>8, OverQuiet DEF OverInv
<1> QED
  BY <1>2, <1>3, <1>4, RtnMoves

-----------------------------------------------------------------------------
(* An order the engine has refused is not, and will not be, inserted. *)
Refused(i) ==
  \/ i \in DOMAIN ots /\ "ERR" \in ots[i].st
  \/ \E k \in DOMAIN rtns : rtns[k].to /\ rtns[k].type = "ERR" /\ rtns[k].oid = i

Dead(i) ==
  /\ \A r \in Used : front[r].oid # i
  /\ \A k \in DOMAIN cmds : cmds[k].cmd = "insert" => i < cmds[k].oid
  /\ epc \in Inserting => i < ecmd.oid

DeadInv == restarts = 0 => \A i \in 1 .. sent : Refused(i) => Dead(i)

(* What the commands, and the one that is handled, may become. *)
LEMMA CmdsMoves ==
  ASSUME BaseInv, [Next]_vars
  PROVE  /\ \/ cmds' = cmds
            \/ cmds # <<>> /\ cmds' = Tail(cmds)
            \/ \E c \in CmdType : /\ cmds' = Append(cmds, c)
                                  /\ c.cmd = "insert" => c.oid = sent + 1
         /\ epc' \in Inserting =>
              \/ epc \in Inserting /\ ecmd' = ecmd
              \/ 1 \in DOMAIN cmds /\ cmds[1].cmd = "insert" /\ ecmd' = cmds[1]
<1>1. /\ cmds \in Seq(CmdType) /\ ots \in Seq(OtType) /\ sent \in 0 .. MaxOrders
      /\ MaxOrders \in Nat /\ ecmd \in CmdType \cup {NoCmd}
      /\ \A i \in DOMAIN ots : ots[i].ref # -1 => ots[i].ref \in Refs
  BY OrderAssumption DEF BaseInv, TypeInv, HelperType, EngineType, RefsInv, Used
<1>2. CASE SendOrder
  <2>1. /\ sent < MaxOrders /\ cmds' = Append(cmds, InsertCmd(sent + 1, Len(ots) + 1))
        /\ epc' = epc /\ ecmd' = ecmd
    BY <1>2 DEF SendOrder, engineVars
  <2>2. PICK c : c = InsertCmd(sent + 1, Len(ots) + 1)
    OBVIOUS
  <2>3. Len(ots) \in Nat /\ Len(ots) <= sent
    BY <1>1 DEF BaseInv, CmdInv
  <2>4. c \in CmdType /\ c.oid = sent + 1
    BY <1>1, <2>1, <2>2, <2>3 DEF InsertCmd, CmdType
  <2> QED
    BY <2>1, <2>2, <2>4
<1>3. CASE \E i \in DOMAIN ots : DeleteOrder(i)
  <2>1. PICK i \in DOMAIN ots : DeleteOrder(i)
    BY <1>3
  <2>2. /\ cmds' = Append(cmds, CancelCmd(ots[i], i)) /\ ots[i].ref >= 0
        /\ epc' = epc /\ ecmd' = ecmd
    BY <2>1 DEF DeleteOrder, Cancellable, engineVars
  <2>3. PICK c : c = CancelCmd(ots[i], i)
    OBVIOUS
  <2>4. ots[i] \in OtType /\ i \in 1 .. MaxOrders
    <3>1. Len(ots) \in Nat /\ Len(ots) <= sent /\ i \in 1 .. Len(ots)
      BY <1>1 DEF BaseInv, CmdInv
    <3> QED
      BY <1>1, <3>1
  <2>5. c \in CmdType /\ c.cmd = "cancel"
    BY <1>1, <2>2, <2>3, <2>4 DEF CancelCmd, CmdType, OtType
  <2> QED
    BY <2>2, <2>3, <2>5
<1>4. CASE TakeCmd
  <2>1. /\ cmds # <<>> /\ cmds' = Tail(cmds) /\ epc' = Head(cmds).cmd
        /\ ecmd' = Head(cmds) /\ Head(cmds) = cmds[1] /\ 1 \in DOMAIN cmds
    BY <1>1, <1>4, TailFacts DEF TakeCmd
  <2>2. cmds[1] \in CmdType
    BY <1>1, <2>1
  <2>3. epc' \in Inserting => cmds[1].cmd = "insert"
    BY <2>1, <2>2 DEF CmdType, Inserting
  <2> QED
    BY <2>1, <2>3
<1>5. CASE GetRtn \/ HelperStop \/ HelperReader \/ HelperQuery
  BY <1>5 DEF GetRtn, HelperStop, HelperReader, HelperQuery, engineVars
<1>6. CASE InsertSent \/ FillOrder \/ FillFrom
  BY <1>6 DEF InsertSent, FillOrder, FillFrom, Inserting
<1>7. CASE InsertFails \/ InsertAck \/ OnNewLoad \/ OnNewStore \/ CancelFails
           \/ CancelSent \/ CxlingLoad \/ CxlingStore
  BY <1>7 DEF InsertFails, InsertAck, OnNewLoad, OnNewStore, CancelFails,
              CancelSent, CxlingLoad, CxlingStore, Inserting
<1>8. CASE CallbackBegin \/ Handlers \/ Front \/ UNCHANGED vars
  <2>1. UNCHANGED <<cmds, epc, ecmd>>
    <3>1. CASE CallbackBegin
      BY <3>1 DEF CallbackBegin
    <3>2. CASE Handlers
      BY <3>2, HandledEffect DEF Handled, callbackUnchanged, BaseInv
    <3>3. CASE Front
      BY <3>3, OthersKeep
    <3>4. CASE UNCHANGED vars
      BY <3>4 DEF vars
    <3> QED
      BY <1>8, <3>1, <3>2, <3>3, <3>4
  <2> QED
    BY <2>1
<1> QED
  BY <1>2, <1>3, <1>4, <1>5, <1>6, <1>7, <1>8
     DEF Next, Helper, Listening, Callbacks, Handlers

(* What is dead stays dead. *)
LEMMA DeadStays ==
  ASSUME BaseInv, [Next]_vars, NEW i \in 1 .. sent, Dead(i)
  PROVE  Dead(i)'
<1>1. cmds \in Seq(CmdType) /\ sent \in Nat
  BY DEF BaseInv, TypeInv, HelperType
<1>2. \A r \in Used' : front'[r].oid # i
  <2> TAKE r \in Used'
  <2>1. CASE r \in Used
    BY <2>1, OrderKeeps DEF Dead
  <2>2. CASE r \notin Used
    <3>1. epc = "insert" /\ front'[r].oid = ecmd.oid
      BY <2>2, UsedAnew
    <3>2. i < ecmd.oid /\ i \in Nat
      BY <3>1 DEF Dead, Inserting
    <3> QED
      BY <3>1, <3>2
  <2> QED
    BY <2>1, <2>2
<1>3. \A k \in DOMAIN cmds' : cmds'[k].cmd = "insert" => i < cmds'[k].oid
  <2>1. CASE cmds' = cmds
    BY <2>1 DEF Dead
  <2>2. CASE cmds # <<>> /\ cmds' = Tail(cmds)
    BY <1>1, <2>2, TailFacts DEF Dead
  <2>3. ASSUME NEW c \in CmdType, cmds' = Append(cmds, c),
               c.cmd = "insert" => c.oid = sent + 1
        PROVE  \A k \in DOMAIN cmds' : cmds'[k].cmd = "insert" => i < cmds'[k].oid
    <3>1. c.cmd = "insert" => i < c.oid
      BY <1>1, <2>3
    <3>2. \A k \in DOMAIN cmds' : (k \in DOMAIN cmds /\ cmds'[k] = cmds[k]) \/ cmds'[k] = c
      BY <1>1, <2>3, AppendFacts
    <3> QED
      BY <3>1, <3>2 DEF Dead
  <2> QED
    BY <2>1, <2>2, <2>3, CmdsMoves
<1>4. epc' \in Inserting => i < ecmd'.oid
  BY CmdsMoves DEF Dead
<1> QED
  BY <1>2, <1>3, <1>4 DEF Dead

(* The engine refuses an order before it has inserted it, and only once. *)
LEMMA DeadStep ==
  ASSUME BaseInv, LocalInv, OrderInv, NumberInv, DeadInv, [Next]_vars
  PROVE  DeadInv'
<1> SUFFICES ASSUME restarts' = 0, NEW i \in 1 .. sent', Refused(i)'
             PROVE  Dead(i)'
  BY DEF DeadInv
<1>1. /\ restarts = 0 /\ rtns \in Seq(RtnType) /\ sent \in Nat /\ Len(ots) = sent
      /\ ots \in Seq(OtType)
  BY LocalOtsStep DEF BaseInv, TypeInv, HelperType, LocalInv
<1>2. "ERR" \in Closing /\ "ERR" # "SEND"
  BY DEF Closing, Final
<1>3. ASSUME Refused(i)
      PROVE  Dead(i)'
  <2>1. i \in 1 .. sent
    <3>1. \A k \in DOMAIN rtns : rtns[k].oid <= sent
      BY <1>1 DEF NumberInv
    <3>2. i \in DOMAIN ots => i <= sent
      BY <1>1
    <3>3. i <= sent
      BY <1>3, <3>1, <3>2 DEF Refused
    <3> QED
      BY <1>1, <3>3
  <2> QED
    BY <1>1, <1>3, <2>1, DeadStays DEF DeadInv
<1>4. CASE GetRtn
  <2>1. PICK m : m = rtns[1]
    OBVIOUS
  <2>2. CASE i \in DOMAIN ots' /\ "ERR" \in ots'[i].st
    <3>1. i \in DOMAIN ots /\ 1 \in DOMAIN rtns
      BY <1>4, <2>1, <2>2, TakeFacts
    <3>2. "ERR" \in ots[i].st \/ (m.to /\ m.local = i /\ "ERR" \in Bits(m.type))
      BY <1>4, <2>1, <2>2, <3>1, TakeFacts
    <3>3. "ERR" \in Bits(m.type) => m.type = "ERR"
      BY DEF Bits
    <3>4. m.to => m.oid = m.local
      BY <1>1, <2>1, <3>1 DEF LocalInv
    <3>5. Refused(i)
      BY <2>1, <3>1, <3>2, <3>3, <3>4 DEF Refused
    <3> QED
      BY <1>3, <3>5
  <2>3. CASE \E k \in DOMAIN rtns' : rtns'[k].to /\ rtns'[k].type = "ERR" /\ rtns'[k].oid = i
    <3>1. Refused(i)
      BY <1>4, <2>1, <2>3, TakeFacts DEF Refused
    <3> QED
      BY <1>3, <3>1
  <2> QED
    BY <2>2, <2>3 DEF Refused
<1>5. ASSUME OtsQuiet, i \in DOMAIN ots', "ERR" \in ots'[i].st
      PROVE  Refused(i)
  <2>1. i \in DOMAIN ots
    BY <1>2, <1>5 DEF OtsQuiet
  <2>2. "ERR" \in ots[i].st
    BY <1>2, <1>5, <2>1 DEF OtsQuiet
  <2> QED
    BY <2>1, <2>2 DEF Refused
<1>6. CASE rtns' = rtns /\ OtsQuiet
  <2>1. Refused(i)
    BY <1>5, <1>6 DEF Refused
  <2> QED
    BY <1>3, <2>1
<1>7. ASSUME NEW m \in RtnType, rtns' = Append(rtns, m), OtsQuiet,
             FromEngine(m) \/ FromCallback(m)
      PROVE  Dead(i)'
  <2>1. \A k \in DOMAIN rtns' : (k \in DOMAIN rtns /\ rtns'[k] = rtns[k]) \/ rtns'[k] = m
    BY <1>1, <1>7, AppendFacts
  <2>2. Refused(i) \/ (m.type = "ERR" /\ m.oid = i)
    BY <1>5, <1>7, <2>1 DEF Refused
  <2>3. CASE m.type = "ERR" /\ m.oid = i
    <3>1. InsertFails /\ ecmd.oid = i
      BY <1>7, <2>3 DEF FromEngine, FromCallback
    <3>2. epc = "insert" /\ epc' = "idle" /\ UNCHANGED <<cmds, front, reqId>>
      BY <3>1 DEF InsertFails, frontVars
    <3>3. Used' = Used
      BY <3>2 DEF Used, Begun
    <3>4. \A r \in Used : front[r].oid < i /\ front[r].oid \in Nat
      BY <3>1, <3>2 DEF OrderInv, Used, BaseInv, TypeInv, FrontTypes, FrontType
    <3>5. \A k \in DOMAIN cmds : cmds[k].cmd = "insert" => i < cmds[k].oid
      BY <3>1, <3>2 DEF BaseInv, CmdInv, Inserting
    <3>6. epc' \notin Inserting
      BY <3>2 DEF Inserting
    <3>7. \A r \in Used : front[r].oid # i
      BY <3>4
    <3> QED
      BY <3>2, <3>3, <3>5, <3>6, <3>7 DEF Dead
  <2> QED
    BY <1>3, <2>2, <2>3
<1> QED
  BY <1>4, <1>6, <1>7, RtnMoves

-----------------------------------------------------------------------------
(* All of it together, with what ends an order. *)
ClosedInv == TradesInv /\ EndInv /\ OverInv /\ DeadInv

(* At the start there is nothing to end. *)
LEMMA ClosedInit ==
  ASSUME Init
  PROVE  EndInv /\ OverInv /\ DeadInv
<1>1. /\ rtns = <<>> /\ ots = <<>> /\ evq = <<>> /\ sent = 0 /\ cb = NoEvent
  BY DEF Init
<1>2. EndInv
  BY <1>1 DEF EndInv, NoEvent, FinalEvent
<1>3. OverInv
  BY <1>1 DEF OverInv
<1>4. DeadInv
  BY <1>1 DEF DeadInv
<1> QED
  BY <1>2, <1>3, <1>4

(* Ends, refusals and executions fit in every state of every behaviour. *)
THEOREM ClosedAlways == Spec => []ClosedInv
<1>1. Init => ClosedInv
  BY BaseInit, LocalInit, TradeInit, HeldInit, ClosedInit DEF ClosedInv, TradesInv
<1>2. ClosedInv /\ [Next]_vars => ClosedInv'
  BY TradesStep, EndStep, OverStep, DeadStep DEF ClosedInv, TradesInv
<1> QED
  BY <1>1, <1>2, PTL DEF Spec

(* No trade is on its way to an order the helper has as closed: it was     *)
(* ended, refused, or has all its volume.                                  *)
LEMMA ClosedNothingDue ==
  ASSUME ClosedInv, restarts = 0, NEW i \in DOMAIN ots, "CLOSED" \in ots[i].st,
         1 \in DOMAIN rtns, IsExec(1, i)
  PROVE  RtnSum(i) = 0
<1>1. /\ BaseInv /\ OrderInv /\ TypeInv /\ ots \in Seq(OtType) /\ Len(ots) = sent
      /\ sent \in Nat /\ Vol \in Nat
  BY OrderAssumption
     DEF ClosedInv, TradesInv, LocalInv, BaseInv, TypeInv, HelperType
<1>2. ots[i].traded \in Nat /\ RtnSum(i) \in Nat /\ i \in 1 .. sent
  <2>1. ots[i] \in OtType
    BY <1>1
  <2> QED
    BY <1>1, <2>1, RtnTypes DEF OtType
<1>3. Held(i)
  BY DEF ClosedInv, TradesInv, HeldInv
<1>4. CASE \A r \in Refs : ~IsOf(r, i)
  BY <1>2, <1>3, <1>4 DEF Held
<1>5. ASSUME NEW r \in Refs, IsOf(r, i), ots[i].traded >= Vol
      PROVE  RtnSum(i) = 0
  <2>1. ots[i].traded + RtnSum(i) = track[r].traded
    BY <1>3, <1>5 DEF Held
  <2>2. track[r].traded + CbVol(r) + DueSum(r) <= front[r].traded
    BY <1>5 DEF ClosedInv, TradesInv, CountInv
  <2>3. /\ CbVol(r) \in Nat /\ DueSum(r) \in Nat /\ track[r].traded \in Nat
        /\ front[r].traded \in Nat
    BY <1>1, VolTypes
  <2>4. front[r].traded <= Vol
    BY <1>1 DEF TypeInv, FrontTypes, FrontType
  <2>5. Vol \in Nat
    BY OrderAssumption
  <2>6. track[r].traded <= Vol
    BY <2>2, <2>3, <2>4, <2>5
  <2>7. ots[i].traded >= Vol /\ ots[i].traded \in Nat /\ RtnSum(i) \in Nat
    BY <1>2, <1>5
  <2> QED
    BY <2>1, <2>3, <2>5, <2>6, <2>7
<1>6. ots[i].st \cap Final # {} \/ ots[i].traded >= Vol
  BY DEF ClosedInv, OverInv
<1>7. ots[i].st \cap Ends = {}
  BY DEF ClosedInv, OverInv
<1>8. CASE "ERR" \in ots[i].st
  <2>1. Dead(i)
    BY <1>2, <1>8 DEF ClosedInv, DeadInv, Refused
  <2>2. \A r \in Refs : ~IsOf(r, i)
    BY <1>1, <2>1, IsOfFacts DEF Dead
  <2> QED
    BY <1>4, <2>2
<1> QED
  BY <1>4, <1>5, <1>6, <1>7, <1>8 DEF Ends

(* CLOSED is final: in the first run of the helper a closed order stays    *)
(* closed and its traded volume stays, whatever the two threads of the     *)
(* engine and the front do meanwhile (getRtn, doGetRtn).                   *)
THEOREM ClosedOrdersStay == Spec => ClosedIsFinal
<1>1. ASSUME ClosedInv, [Next]_vars, restarts' = 0, NEW i \in DOMAIN ots,
             "CLOSED" \in ots[i].st
      PROVE  "CLOSED" \in ots'[i].st /\ ots'[i].traded = ots[i].traded
  <2>1. BaseInv /\ LocalInv /\ restarts = 0 /\ TypeInv
    BY <1>1, LocalOtsStep DEF ClosedInv, TradesInv, BaseInv
  <2>2. CASE OtsQuiet
    <3>1. "CLOSED" \in Closing
      BY DEF Closing
    <3>2. ots'[i].st \cap Closing = ots[i].st \cap Closing
      BY <2>2 DEF OtsQuiet
    <3>3. ots'[i].traded = ots[i].traded
      BY <2>2 DEF OtsQuiet
    <3> QED
      BY <1>1, <3>1, <3>2, <3>3
  <2>3. CASE GetRtn
    <3>1. PICK m : m = rtns[1]
      OBVIOUS
    <3>2. /\ 1 \in DOMAIN rtns /\ m \in RtnType /\ rtns # <<>> /\ rtns' = Tail(rtns)
          /\ IF m.to /\ m.local = i
             THEN ots'[i].traded = ots[i].traded + MsgVol(m, i)
                  /\ ots[i].st \subseteq ots'[i].st
             ELSE ots'[i] = ots[i]
      BY <2>1, <2>3, <3>1, TakeFacts
    <3>3. ASSUME m.to, m.local = i
          PROVE  MsgVol(m, i) = 0
      <4>1. CASE m.type = "EXECUTION"
        <5>1. IsExec(1, i)
          BY <3>1, <3>3, <4>1 DEF IsExec
        <5>2. RtnSum(i) = 0
          BY <1>1, <2>1, <3>2, <5>1, ClosedNothingDue
        <5>3. RtnSum(i) = MsgVol(m, i) + RtnSum(i)' /\ RtnSum(i)' \in Nat
          BY <2>1, <3>1, <3>2, RtnTake
        <5>4. MsgVol(m, i) \in Nat
          BY <3>2 DEF MsgVol, RtnType
        <5> QED
          BY <5>2, <5>3, <5>4
      <4>2. CASE m.type # "EXECUTION"
        BY <4>2 DEF MsgVol
      <4> QED
        BY <4>1, <4>2
    <3>4. ots[i].traded \in Nat
      <4>1. ots \in Seq(OtType)
        BY <2>1 DEF TypeInv, HelperType
      <4>2. ots[i] \in OtType
        BY <4>1
      <4> QED
        BY <4>2 DEF OtType
    <3>5. CASE m.to /\ m.local = i
      BY <1>1, <3>2, <3>3, <3>4, <3>5
    <3>6. CASE ~(m.to /\ m.local = i)
      BY <1>1, <3>2, <3>6
    <3> QED
      BY <3>5, <3>6
  <2> QED
    BY <1>1, <2>1, <2>2, <2>3, RtnMoves
<1>2. ClosedInv /\ [Next]_vars =>
        [restarts' = 0 =>
           \A i \in DOMAIN ots : "CLOSED" \in ots[i].st =>
             "CLOSED" \in ots'[i].st /\ ots'[i].traded = ots[i].traded]_vars
  BY <1>1
<1> QED
  BY <1>2, ClosedAlways, PTL DEF Spec, ClosedIsFinal

-----------------------------------------------------------------------------
(* An event that ends order r stands at position k of the queue, is in the *)
(* callback, or is one of the two.                                         *)
EndsAt(k, r) == FinalEvent(evq[k]) /\ evq[k].ref = r
EndsNow(r) == FinalEvent(cb) /\ cb.ref = r
EndDue(r) == EndsNow(r) \/ \E k \in DOMAIN evq : EndsAt(k, r)

(* An event that tells that all of an order was traded *)
IsAll(e) == e.kind = "order" /\ e.what = "AllTraded"

(* An order is ended once, and not when all of it was traded. *)
OnceInv ==
  \A r \in Refs :
    /\ EndDue(r) => front[r].st = "closed" /\ front[r].traded # Vol
    /\ \A j, k \in DOMAIN evq : EndsAt(j, r) /\ EndsAt(k, r) => j = k
    /\ EndsNow(r) => \A k \in DOMAIN evq : ~EndsAt(k, r)
    /\ \A k \in DOMAIN evq : IsAll(evq[k]) /\ evq[k].ref = r =>
         front[r].traded = Vol
    /\ IsAll(cb) /\ cb.ref = r => front[r].traded = Vol

(* No bit that ends an order is in its status word, nor in the copy that   *)
(* req_order_action is about to store, until the end has been handled.     *)
Unmarked(r) ==
  /\ track[r].st \cap Closing = {}
  /\ epc = "cxlingStore" /\ ecmd.ref = r => eold.st \cap Closing = {}
MarkInv ==
  Plain => \A r \in Refs : front[r].st # "closed" \/ EndDue(r) => Unmarked(r)

(* The end of an order is due, on its way to the helper, or known to it.   *)
Ended(r, i) ==
  EndDue(r) \/ "CLOSED" \in ots[i].st \/ \E k \in DOMAIN rtns : FinalRtn(k, i)
ToldInv ==
  restarts = 0 => \A i \in DOMAIN ots :
    /\ ots[i].traded >= Vol => "CLOSED" \in ots[i].st
    /\ Plain => \A r \in Refs :
         IsOf(r, i) /\ front[r].st = "closed" /\ front[r].traded # Vol => Ended(r, i)

(* A step of the helper or of the listening thread ends no order. *)
LEMMA QuietFront ==
  ASSUME BaseInv, TradeInv, Helper \/ Listening \/ UNCHANGED vars, NEW r \in Refs
  PROVE  /\ UNCHANGED <<cb, evq>> /\ front'[r].traded = front[r].traded
         /\ \/ front'[r].st = front[r].st
            \/ front[r].st = "none" /\ front'[r].st = "sent"
<1>1. UNCHANGED <<cb, evq>> /\ front'[r].traded = front[r].traded
  BY QuietTraded
<1>2. front \in [Refs -> FrontType] /\ reqId \in Nat
  BY DEF BaseInv, TypeInv, FrontTypes, EngineType
<1>3. CASE InsertSent
  <2>1. /\ front' = [front EXCEPT ![reqId] =
                       [st |-> "sent", traded |-> 0, cxl |-> FALSE,
                        oid |-> ecmd.oid]]
        /\ epc = "insert"
    BY <1>3 DEF InsertSent
  <2>2. ~Begun(reqId)
    BY <1>2, <2>1 DEF Begun
  <2>3. r = reqId => front[r].st = "none" /\ front'[r].st = "sent"
    BY <1>2, <2>1, <2>2 DEF BaseInv, FreshInv, NoOrder
  <2>4. r # reqId => front'[r] = front[r]
    BY <1>2, <2>1
  <2> QED
    BY <1>1, <2>3, <2>4
<1>4. CASE CancelSent
  <2>1. front' = [front EXCEPT ![ecmd.ref].cxl = TRUE]
    BY <1>4 DEF CancelSent
  <2> QED
    BY <1>1, <1>2, <2>1 DEF FrontType
<1>5. CASE Listening /\ ~InsertSent /\ ~CancelSent
  <2>1. front' = front
    BY <1>5 DEF Listening, TakeCmd, InsertFails, FillOrder, FillFrom,
       InsertAck, OnNewLoad, OnNewStore, CancelFails, CxlingLoad, CxlingStore,
       frontVars
  <2> QED
    BY <1>1, <2>1
<1>6. CASE Helper \/ UNCHANGED vars
  <2>1. front' = front
    BY <1>6, HelperKeeps DEF vars
  <2> QED
    BY <1>1, <2>1
<1> QED
  BY <1>3, <1>4, <1>5, <1>6

(* What is due when a callback begins was due before. *)
LEMMA BeginEnds ==
  ASSUME BaseInv, NEW e \in EventType, e.ref \in Used, BeginDoes(e)
  PROVE  /\ evq' = Tail(evq) /\ 1 \in DOMAIN evq /\ evq[1] = e /\ front' = front
         /\ UNCHANGED <<track, epc, ecmd, eold, ots, rtns, restarts>>
         /\ DOMAIN evq \subseteq Nat /\ DOMAIN evq' \subseteq Nat
         /\ \A k \in DOMAIN evq' : k + 1 \in DOMAIN evq /\ evq'[k] = evq[k + 1]
         /\ \A k \in DOMAIN evq : k = 1 \/ (k - 1 \in DOMAIN evq' /\ evq'[k - 1] = evq[k])
         /\ \A r : ~EndsNow(r)
         /\ \A r : EndsNow(r)' => EndsAt(1, r)
         /\ \A r : Plain /\ EndsAt(1, r) => EndsNow(r)'
         /\ IsAll(cb') => IsAll(e) /\ cb'.ref = e.ref
<1>1. /\ evq \in Seq(EventType) /\ evq # <<>> /\ e = evq[1] /\ evq' = Tail(evq)
      /\ cb = NoEvent /\ front' = front
      /\ UNCHANGED <<track, epc, ecmd, eold, ots, rtns, restarts>>
  BY DEF BeginDoes, BaseInv, TypeInv, FrontTypes
<1>2. /\ 1 \in DOMAIN evq /\ DOMAIN evq = 1 .. Len(evq) /\ Len(evq) \in Nat
      /\ DOMAIN evq' = 1 .. Len(evq) - 1
      /\ \A k \in DOMAIN evq' : k + 1 \in DOMAIN evq /\ evq'[k] = evq[k + 1]
  BY <1>1, TailFacts
<1>3. ASSUME NEW k \in DOMAIN evq, k # 1
      PROVE  k - 1 \in DOMAIN evq' /\ evq'[k - 1] = evq[k]
  <2>1. PICK j : j = k - 1
    OBVIOUS
  <2>2. j \in DOMAIN evq' /\ j + 1 = k
    BY <1>2, <1>3, <2>1
  <2> QED
    BY <1>2, <2>1, <2>2
<1>4. \A r : ~EndsNow(r)
  BY <1>1 DEF EndsNow, FinalEvent, NoEvent
<1>5. cb' # NoEvent => cb'.kind = e.kind /\ cb'.ref = e.ref /\ cb'.what = e.what
  BY DEF BeginDoes
<1>6. cb' = NoEvent => ~FinalEvent(cb') /\ ~IsAll(cb')
  BY DEF FinalEvent, IsAll, NoEvent
<1>7. cb' # NoEvent => (FinalEvent(cb') <=> FinalEvent(e)) /\ (IsAll(cb') <=> IsAll(e))
  BY <1>5 DEF FinalEvent, IsAll
<1>8. \A r : EndsNow(r)' => EndsAt(1, r)
  BY <1>1, <1>5, <1>6, <1>7 DEF EndsNow, EndsAt
<1>9. ASSUME NEW r, Plain, EndsAt(1, r)
      PROVE  EndsNow(r)'
  <2>1. FinalEvent(e) /\ e.ref = r /\ e.kind # "trade"
    BY <1>1, <1>9 DEF EndsAt, FinalEvent
  <2>2. cb' # NoEvent
    BY <1>9, <2>1 DEF BeginDoes
  <2> QED
    BY <1>5, <1>7, <2>1, <2>2 DEF EndsNow
<1>10. IsAll(cb') => IsAll(e) /\ cb'.ref = e.ref
  BY <1>5, <1>6, <1>7
<1>11. DOMAIN evq \subseteq Nat /\ DOMAIN evq' \subseteq Nat
  BY <1>2
<1> QED
  BY <1>1, <1>2, <1>3, <1>4, <1>8, <1>9, <1>10, <1>11

(* An end is due after a callback began only if it was before, ... *)
LEMMA BeginEndDue ==
  ASSUME BaseInv, NEW e \in EventType, e.ref \in Used, BeginDoes(e), NEW r
  PROVE  /\ EndDue(r)' => EndDue(r)
         /\ Plain /\ EndDue(r) => EndDue(r)'
<1>1. /\ DOMAIN evq' \subseteq Nat /\ 1 \in DOMAIN evq
      /\ \A k \in DOMAIN evq' : k + 1 \in DOMAIN evq /\ evq'[k] = evq[k + 1]
      /\ \A k \in DOMAIN evq : k = 1 \/ (k - 1 \in DOMAIN evq' /\ evq'[k - 1] = evq[k])
      /\ ~EndsNow(r) /\ (EndsNow(r)' => EndsAt(1, r))
      /\ Plain /\ EndsAt(1, r) => EndsNow(r)'
  BY BeginEnds
<1>2. ASSUME EndDue(r)'
      PROVE  EndDue(r)
  <2>1. CASE EndsNow(r)'
    BY <1>1, <2>1 DEF EndDue
  <2>2. CASE \E k \in DOMAIN evq' : EndsAt(k, r)'
    <3>1. PICK k \in DOMAIN evq' : EndsAt(k, r)'
      BY <2>2
    <3>2. PICK j : j = k + 1
      OBVIOUS
    <3>3. j \in DOMAIN evq /\ EndsAt(j, r)
      BY <1>1, <3>1, <3>2 DEF EndsAt
    <3> QED
      BY <3>3 DEF EndDue
  <2> QED
    BY <1>2, <2>1, <2>2 DEF EndDue
<1>3. ASSUME Plain, EndDue(r)
      PROVE  EndDue(r)'
  <2>1. PICK k \in DOMAIN evq : EndsAt(k, r)
    BY <1>1, <1>3 DEF EndDue
  <2>2. CASE k = 1
    BY <1>1, <1>3, <2>1, <2>2 DEF EndDue
  <2>3. CASE k # 1
    <3>1. PICK j : j = k - 1
      OBVIOUS
    <3>2. j \in DOMAIN evq' /\ evq'[j] = evq[k]
      BY <1>1, <2>3, <3>1
    <3>3. EndsAt(j, r)'
      BY <2>1, <3>2 DEF EndsAt
    <3> QED
      BY <3>2, <3>3 DEF EndDue
  <2> QED
    BY <2>2, <2>3
<1> QED
  BY <1>2, <1>3

(* ... and the front makes one due only where it ends the order. *)
LEMMA FrontEnds ==
  ASSUME BaseInv, NEW q \in Refs, NEW d \in EventType, NEW e \in EventType,
         FrontDoes(q, d, e), NEW r \in Refs
  PROVE  /\ EndsNow(r)' <=> EndsNow(r)
         /\ \A k \in DOMAIN evq : k \in DOMAIN evq' /\ evq'[k] = evq[k]
         /\ EndDue(r) => EndDue(r)'
         /\ \A k \in DOMAIN evq' : EndsAt(k, r)' =>
              \/ k \in DOMAIN evq /\ EndsAt(k, r)
              \/ /\ r = q /\ Tells(q, e) /\ FinalEvent(e)
                 /\ k \notin DOMAIN evq /\ \A j \in DOMAIN evq' : j <= k
         /\ \A k \in DOMAIN evq' : IsAll(evq'[k]) =>
              \/ k \in DOMAIN evq /\ evq'[k] = evq[k]
              \/ evq'[k].ref = q /\ front'[q].traded = Vol
<1>1. cb' = cb /\ e.ref = q
  BY FrontKeeps DEF FrontDoes
<1>2. EndsNow(r)' <=> EndsNow(r)
  BY <1>1 DEF EndsNow
<1>3. \A k \in DOMAIN evq : k \in DOMAIN evq' /\ evq'[k] = evq[k]
  <2>1. CASE evq = <<>>
    BY <2>1
  <2>2. CASE evq # <<>>
    <3>1. evq \in Seq(EventType)
      BY DEF BaseInv, TypeInv, FrontTypes
    <3>2. DOMAIN evq' # {}
      <4>1. CASE evq' = Append(evq, e)
        BY <3>1, <4>1, AppendFacts
      <4>2. CASE Trades(q, d, e)
        <5>1. evq' = evq \o <<d, e>>
          BY <4>2 DEF Trades
        <5>2. Len(evq) \in Nat /\ Len(evq') = Len(evq) + 2
          BY <3>1, <5>1
        <5>3. DOMAIN evq' = 1 .. Len(evq')
          BY <3>1, <5>1
        <5>4. 1 \in 1 .. Len(evq')
          BY <5>2
        <5> QED
          BY <5>3, <5>4
      <4> QED
        BY <4>1, <4>2 DEF FrontDoes, Tells, Repeats
    <3>3. PICK k \in DOMAIN evq' : TRUE
      BY <3>2
    <3> QED
      BY <3>3, FrontDue
  <2> QED
    BY <2>1, <2>2
<1>4. EndDue(r) => EndDue(r)'
  BY <1>2, <1>3 DEF EndDue, EndsAt
<1>5. ASSUME NEW k \in DOMAIN evq'
      PROVE  \/ k \in DOMAIN evq /\ evq'[k] = evq[k]
             \/ evq'[k] = e /\ k \notin DOMAIN evq /\ \A j \in DOMAIN evq' : j <= k
             \/ evq'[k] = d /\ d.kind = "order" /\ d.ref = q /\ ~FinalEvent(d)
                /\ Trades(q, d, e)
  BY FrontDue
<1>6. ASSUME NEW k \in DOMAIN evq', EndsAt(k, r)'
      PROVE  \/ k \in DOMAIN evq /\ EndsAt(k, r)
             \/ /\ r = q /\ Tells(q, e) /\ FinalEvent(e)
                /\ k \notin DOMAIN evq /\ \A j \in DOMAIN evq' : j <= k
  <2>1. FinalEvent(evq'[k]) /\ evq'[k].ref = r
    BY <1>6 DEF EndsAt
  <2>2. CASE k \in DOMAIN evq /\ evq'[k] = evq[k]
    BY <2>1, <2>2 DEF EndsAt
  <2>3. CASE evq'[k] = e /\ k \notin DOMAIN evq /\ \A j \in DOMAIN evq' : j <= k
    <3>1. FinalEvent(e) /\ r = q
      BY <1>1, <2>1, <2>3
    <3>2. Tells(q, e)
      BY <3>1 DEF FrontDoes, Repeats, Trades, FinalEvent
    <3> QED
      BY <2>3, <3>1, <3>2
  <2> QED
    BY <1>5, <2>1, <2>2, <2>3
<1>7. ASSUME NEW k \in DOMAIN evq', IsAll(evq'[k])
      PROVE  \/ k \in DOMAIN evq /\ evq'[k] = evq[k]
             \/ evq'[k].ref = q /\ front'[q].traded = Vol
  <2>1. CASE evq'[k] = e
    BY <1>7, <2>1 DEF FrontDoes, Tells, Repeats, Trades, IsAll
  <2>2. CASE evq'[k] = d /\ d.ref = q /\ Trades(q, d, e)
    BY <1>7, <2>2 DEF Trades, IsAll
  <2> QED
    BY <1>5, <2>1, <2>2
<1> QED
  BY <1>2, <1>3, <1>4, <1>6, <1>7

(* The front ends an order once: with an event, or when all of it was      *)
(* traded.                                                                 *)
LEMMA OnceFront ==
  ASSUME BaseInv, OrderInv, OnceInv, Front
  PROVE  OnceInv'
<1>1. PICK q \in Refs, d \in EventType, e \in EventType : FrontDoes(q, d, e)
  BY FrontCases DEF BaseInv
<1> SUFFICES ASSUME NEW r \in Refs
             PROVE  /\ EndDue(r)' => front'[r].st = "closed" /\ front'[r].traded # Vol
                    /\ \A j, k \in DOMAIN evq' : EndsAt(j, r)' /\ EndsAt(k, r)' => j = k
                    /\ EndsNow(r)' => \A k \in DOMAIN evq' : ~EndsAt(k, r)'
                    /\ \A k \in DOMAIN evq' : IsAll(evq'[k]) /\ evq'[k].ref = r =>
                         front'[r].traded = Vol
                    /\ IsAll(cb') /\ cb'.ref = r => front'[r].traded = Vol
  BY DEF OnceInv
<1>2. /\ EndsNow(r)' <=> EndsNow(r)
      /\ \A k \in DOMAIN evq' : EndsAt(k, r)' =>
           \/ k \in DOMAIN evq /\ EndsAt(k, r)
           \/ /\ r = q /\ Tells(q, e) /\ FinalEvent(e)
              /\ k \notin DOMAIN evq /\ \A j \in DOMAIN evq' : j <= k
      /\ \A k \in DOMAIN evq' : IsAll(evq'[k]) =>
           \/ k \in DOMAIN evq /\ evq'[k] = evq[k]
           \/ evq'[k].ref = q /\ front'[q].traded = Vol
  BY <1>1, FrontEnds
<1>3. cb' = cb
  BY <1>1, FrontKeeps
<1>4. /\ EndDue(r) => front[r].st = "closed" /\ front[r].traded # Vol
      /\ \A j, k \in DOMAIN evq : EndsAt(j, r) /\ EndsAt(k, r) => j = k
      /\ EndsNow(r) => \A k \in DOMAIN evq : ~EndsAt(k, r)
      /\ \A k \in DOMAIN evq : IsAll(evq[k]) /\ evq[k].ref = r => front[r].traded = Vol
      /\ IsAll(cb) /\ cb.ref = r => front[r].traded = Vol
      /\ front[r].traded = Vol => front[r].st = "closed"
  BY DEF OnceInv, OrderInv
(* A closed order stays as it is. *)
<1>5. front[r].st = "closed" => front'[r].st = "closed" /\ front'[r].traded = front[r].traded
  <2>1. CASE r # q
    BY <1>1, <2>1 DEF FrontDoes
  <2>2. CASE r = q
    BY <1>1, <2>2 DEF FrontDoes, Tells, Repeats, Trades
  <2> QED
    BY <2>1, <2>2
<1>6. CASE ~(r = q /\ Tells(q, e) /\ FinalEvent(e))
  <2>1. \A k \in DOMAIN evq' : EndsAt(k, r)' => k \in DOMAIN evq /\ EndsAt(k, r)
    BY <1>2, <1>6
  <2>2. EndDue(r)' => EndDue(r)
    BY <1>2, <2>1 DEF EndDue
  <2> QED
    BY <1>2, <1>3, <1>4, <1>5, <2>1, <2>2
<1>7. CASE r = q /\ Tells(q, e) /\ FinalEvent(e)
  <2>1. /\ front[r].st # "closed" /\ front'[r].st = "closed"
        /\ front'[r].traded = front[r].traded
    BY <1>7 DEF Tells
  <2>2. ~EndDue(r) /\ front'[r].traded # Vol
    BY <1>4, <2>1
  <2>3. /\ ~EndsNow(r) /\ \A k \in DOMAIN evq : ~EndsAt(k, r)
    BY <2>2 DEF EndDue
  <2>4. \A k \in DOMAIN evq' : EndsAt(k, r)' => \A j \in DOMAIN evq' : j <= k
    BY <1>2, <2>3
  <2>5. \A j, k \in DOMAIN evq' : EndsAt(j, r)' /\ EndsAt(k, r)' => j = k
    <3> SUFFICES ASSUME NEW j \in DOMAIN evq', NEW k \in DOMAIN evq',
                        EndsAt(j, r)', EndsAt(k, r)'
                 PROVE  j = k
      OBVIOUS
    <3>1. j <= k /\ k <= j
      BY <2>4
    <3>2. j \in Nat /\ k \in Nat
      <4>1. evq' \in Seq(EventType)
        BY TypeStep DEF TypeInv, FrontTypes, Next
      <4> QED
        BY <4>1
    <3> QED
      BY <3>1, <3>2
  <2> QED
    BY <1>2, <1>3, <1>4, <2>1, <2>2, <2>3, <2>5
<1> QED
  BY <1>6, <1>7

(* Every step keeps it. *)
LEMMA OnceStep ==
  ASSUME BaseInv, TradeInv, OrderInv, OnceInv, [Next]_vars
  PROVE  OnceInv'
<1>1. CASE Helper \/ Listening \/ UNCHANGED vars
  <2> SUFFICES ASSUME NEW r \in Refs
               PROVE  /\ EndDue(r)' => front'[r].st = "closed" /\ front'[r].traded # Vol
                      /\ \A j, k \in DOMAIN evq' : EndsAt(j, r)' /\ EndsAt(k, r)' => j = k
                      /\ EndsNow(r)' => \A k \in DOMAIN evq' : ~EndsAt(k, r)'
                      /\ \A k \in DOMAIN evq' : IsAll(evq'[k]) /\ evq'[k].ref = r =>
                           front'[r].traded = Vol
                      /\ IsAll(cb') /\ cb'.ref = r => front'[r].traded = Vol
    BY DEF OnceInv
  <2>1. /\ UNCHANGED <<cb, evq>> /\ front'[r].traded = front[r].traded
        /\ front[r].st = "closed" => front'[r].st = "closed"
    BY <1>1, QuietFront
  <2>2. /\ EndDue(r)' <=> EndDue(r)
        /\ EndsNow(r)' <=> EndsNow(r)
        /\ \A k \in DOMAIN evq : EndsAt(k, r)' <=> EndsAt(k, r)
    BY <2>1 DEF EndDue, EndsNow, EndsAt
  <2> QED
    BY <2>1, <2>2 DEF OnceInv
<1>2. CASE CallbackBegin
  <2>1. PICK e \in EventType : e.ref \in Used /\ BeginDoes(e)
    BY <1>2, BeginCases
  <2>2. /\ 1 \in DOMAIN evq /\ evq[1] = e /\ front' = front
        /\ DOMAIN evq' \subseteq Nat
        /\ \A k \in DOMAIN evq' : k + 1 \in DOMAIN evq /\ evq'[k] = evq[k + 1]
        /\ \A r : EndsNow(r)' => EndsAt(1, r)
        /\ IsAll(cb') => IsAll(e) /\ cb'.ref = e.ref
    BY <2>1, BeginEnds
  <2> SUFFICES ASSUME NEW r \in Refs
               PROVE  /\ EndDue(r)' => front'[r].st = "closed" /\ front'[r].traded # Vol
                      /\ \A j, k \in DOMAIN evq' : EndsAt(j, r)' /\ EndsAt(k, r)' => j = k
                      /\ EndsNow(r)' => \A k \in DOMAIN evq' : ~EndsAt(k, r)'
                      /\ \A k \in DOMAIN evq' : IsAll(evq'[k]) /\ evq'[k].ref = r =>
                           front'[r].traded = Vol
                      /\ IsAll(cb') /\ cb'.ref = r => front'[r].traded = Vol
    BY DEF OnceInv
  <2>3. EndDue(r)' => front'[r].st = "closed" /\ front'[r].traded # Vol
    BY <2>1, <2>2, BeginEndDue DEF OnceInv
  <2>4. ASSUME NEW k \in DOMAIN evq', EndsAt(k, r)'
        PROVE  k + 1 \in DOMAIN evq /\ EndsAt(k + 1, r)
    BY <2>2, <2>4 DEF EndsAt
  <2>5. \A j, k \in DOMAIN evq' : EndsAt(j, r)' /\ EndsAt(k, r)' => j = k
    <3> SUFFICES ASSUME NEW j \in DOMAIN evq', NEW k \in DOMAIN evq',
                        EndsAt(j, r)', EndsAt(k, r)'
                 PROVE  j = k
      OBVIOUS
    <3>1. j + 1 = k + 1
      BY <2>4 DEF OnceInv
    <3> QED
      BY <2>2, <3>1
  <2>6. ASSUME EndsNow(r)', NEW k \in DOMAIN evq', EndsAt(k, r)'
        PROVE  FALSE
    <3>1. k + 1 = 1
      BY <2>2, <2>4, <2>6 DEF OnceInv
    <3>2. k \in Nat /\ k # 0
      <4>1. evq \in Seq(EventType) /\ evq # <<>> /\ evq' = Tail(evq)
        BY <2>1 DEF BeginDoes, BaseInv, TypeInv, FrontTypes
      <4>2. DOMAIN evq' = 1 .. Len(evq) - 1 /\ Len(evq) \in Nat
        BY <4>1, TailFacts
      <4> QED
        BY <2>6, <4>2
    <3> QED
      BY <3>1, <3>2
  <2>7. \A k \in DOMAIN evq' : IsAll(evq'[k]) /\ evq'[k].ref = r => front'[r].traded = Vol
    BY <2>2 DEF OnceInv
  <2>8. IsAll(cb') /\ cb'.ref = r => front'[r].traded = Vol
    BY <2>2 DEF OnceInv
  <2> QED
    BY <2>3, <2>5, <2>6, <2>7, <2>8
<1>3. CASE Handlers
  <2>1. cb' = NoEvent /\ UNCHANGED <<evq, front>>
    BY <1>3, HandledEffect DEF BaseInv, Handled, callbackUnchanged, frontVars
  <2>2. \A r : ~EndsNow(r)' /\ ~IsAll(cb')
    BY <2>1 DEF EndsNow, FinalEvent, IsAll, NoEvent
  <2>3. \A r : EndDue(r)' => EndDue(r)
    BY <2>1, <2>2 DEF EndDue, EndsAt
  <2>4. \A r : \A k \in DOMAIN evq : EndsAt(k, r)' <=> EndsAt(k, r)
    BY <2>1 DEF EndsAt
  <2> QED
    BY <2>1, <2>2, <2>3, <2>4 DEF OnceInv
<1>4. CASE Front
  BY <1>4, OnceFront
<1> QED
  BY <1>1, <1>2, <1>3, <1>4 DEF Next, Callbacks, Handlers

(* The marks of an order that is not ended: kept by the helper and the     *)
(* listening thread, which stores back what it has loaded, ...             *)
LEMMA MarkQuiet ==
  ASSUME BaseInv, TradeInv, MarkInv, Plain, Helper \/ Listening \/ UNCHANGED vars,
         NEW r \in Refs, front'[r].st # "closed" \/ EndDue(r)'
  PROVE  Unmarked(r)'
<1>1. UNCHANGED <<cb, evq>> /\ (front[r].st = "closed" => front'[r].st = "closed")
  BY QuietFront
<1>2. EndDue(r)' <=> EndDue(r)
  BY <1>1 DEF EndDue, EndsNow, EndsAt
<1>3. Unmarked(r)
  BY <1>1, <1>2 DEF MarkInv
<1>4. /\ track \in [Refs -> TrackType] /\ cmds \in Seq(CmdType)
      /\ eold \in [st: SUBSET AllBits, n: Int]
  BY DEF BaseInv, TypeInv, EngineType, HelperType
<1>5. CASE Helper \/ UNCHANGED vars
  <2>1. UNCHANGED <<track, epc, ecmd, eold>>
    BY <1>5, HelperKeeps DEF vars
  <2> QED
    BY <1>3, <2>1 DEF Unmarked
<1>6. CASE FillOrder
  <2>1. /\ track' = [track EXCEPT ![reqId].st = {"TDSEND"}, ![reqId].vol = Vol,
                                  ![reqId].traded = 0]
        /\ epc' = "fillFrom"
    BY <1>6 DEF FillOrder
  <2>2. track'[r].st = track[r].st \/ track'[r].st = {"TDSEND"}
    BY <1>4, <2>1 DEF TrackType
  <2> QED
    BY <1>3, <2>1, <2>2 DEF Unmarked, Closing, Final
<1>7. CASE FillFrom
  <2>1. /\ track' = [track EXCEPT ![reqId].from = TRUE, ![reqId].local = ecmd.local]
        /\ epc' = "ack"
    BY <1>7 DEF FillFrom
  <2>2. track'[r].st = track[r].st
    BY <1>4, <2>1 DEF TrackType
  <2> QED
    BY <1>3, <2>1, <2>2 DEF Unmarked
<1>8. CASE CxlingLoad
  <2>1. /\ eold' = [eold EXCEPT !.st = track[ecmd.ref].st]
        /\ track' = track /\ ecmd' = ecmd
    BY <1>8 DEF CxlingLoad
  <2>2. eold'.st = track[ecmd.ref].st
    BY <1>4, <2>1
  <2> QED
    BY <1>3, <2>1, <2>2 DEF Unmarked
<1>9. CASE CxlingStore
  <2>1. /\ track' = [track EXCEPT ![ecmd.ref].st = eold.st \cup {"CXLING"}]
        /\ epc = "cxlingStore" /\ epc' = "idle"
    BY <1>9 DEF CxlingStore
  <2>2. \/ track'[r].st = track[r].st
        \/ r = ecmd.ref /\ track'[r].st = eold.st \cup {"CXLING"}
    BY <1>4, <2>1 DEF TrackType
  <2> QED
    BY <1>3, <2>1, <2>2 DEF Unmarked, Closing, Final
<1>10. CASE TakeCmd
  <2>1. track' = track /\ epc' = Head(cmds).cmd /\ cmds # <<>>
    BY <1>10 DEF TakeCmd
  <2>2. Head(cmds) \in CmdType
    BY <1>4, <2>1
  <2>3. epc' # "cxlingStore"
    BY <2>1, <2>2 DEF CmdType
  <2> QED
    BY <1>3, <2>1, <2>3 DEF Unmarked
<1>11. CASE InsertFails \/ InsertSent \/ InsertAck \/ OnNewLoad \/ OnNewStore
            \/ CancelFails \/ CancelSent
  <2>1. track' = track /\ epc' # "cxlingStore"
    BY <1>11 DEF InsertFails, InsertSent, InsertAck, OnNewLoad, OnNewStore,
                 CancelFails, CancelSent
  <2> QED
    BY <1>3, <2>1 DEF Unmarked
<1> QED
  BY <1>5, <1>6, <1>7, <1>8, <1>9, <1>10, <1>11 DEF Listening

(* ... and by the handlers: they mark an order that ends or was traded.    *)
LEMMA MarkHandled ==
  ASSUME TradesInv, OnceInv, MarkInv, Plain, Handlers,
         NEW r \in Refs, front'[r].st # "closed" \/ EndDue(r)'
  PROVE  Unmarked(r)'
<1>1. /\ BaseInv /\ TypeInv /\ FreshInv /\ Handled
  BY HandledEffect DEF TradesInv, BaseInv
<1>2. /\ cb \in EventType /\ cb' = NoEvent /\ UNCHANGED <<evq, front, epc, ecmd, eold>>
      /\ cb # NoEvent
  BY <1>1 DEF Handled, callbackUnchanged, frontVars, EventType, NoEvent
<1>3. EndDue(r)' => \E k \in DOMAIN evq : EndsAt(k, r)
  BY <1>2 DEF EndDue, EndsAt, EndsNow, FinalEvent, NoEvent
<1>4. EndDue(r)' => EndDue(r)
  BY <1>3 DEF EndDue
<1>5. Unmarked(r)
  BY <1>2, <1>4 DEF MarkInv
<1>6. CASE cb.ref # r
  <2>1. track'[r] = track[r]
    BY <1>1, <1>6 DEF Handled
  <2> QED
    BY <1>2, <1>5, <2>1 DEF Unmarked
<1>7. CASE cb.ref = r
  <2>1. ~EndsNow(r)
    BY <1>2, <1>3, <1>7 DEF OnceInv, EndDue
  <2>2. ~IsAll(cb)
    BY <1>2, <1>4, <1>7 DEF OnceInv, TradesInv, OrderInv
  <2>3. ~Closes(cb)
    BY <1>7, <2>1, <2>2 DEF Closes, EndsNow, IsAll
  <2>4. front[r].traded # Vol
    BY <1>2, <1>4 DEF OnceInv, TradesInv, OrderInv
  <2>5. cb.kind = "trade" => ~(track'[r].traded >= track[r].vol)
    <3> SUFFICES ASSUME cb.kind = "trade"
                 PROVE  ~(track'[r].traded >= track[r].vol)
      OBVIOUS
    <3>1. Filled(r)
      BY <1>2, <1>7 DEF TradesInv, PlainInv
    <3>2. track[r].vol = Vol
      BY <1>1, <3>1 DEF FreshInv
    <3>3. track'[r].traded = track[r].traded + cb.vol
      BY <1>1, <1>7 DEF Handled
    <3>4. track[r].traded + CbVol(r) + DueSum(r) <= front[r].traded
      BY DEF TradesInv, CountInv
    <3>5. CbVol(r) = cb.vol
      BY <1>7 DEF CbVol
    <3>6. /\ CbVol(r) \in Nat /\ DueSum(r) \in Nat /\ track[r].traded \in Nat
          /\ front[r].traded \in Nat
      BY <1>1, VolTypes
    <3>7. front[r].traded <= Vol /\ Vol \in Nat
      BY <1>1, OrderAssumption DEF TypeInv, FrontTypes, FrontType
    <3>8. track'[r].traded = track[r].traded + CbVol(r)
      BY <3>3, <3>5
    <3>9. track[r].traded + CbVol(r) < Vol
      BY <2>4, <3>4, <3>6, <3>7
    <3> QED
      BY <3>2, <3>6, <3>7, <3>8, <3>9
  <2>6. track'[r].st \cap Closing = {}
    <3>1. track[r].st \cap Closing = {}
      BY <1>5 DEF Unmarked
    <3> QED
      BY <1>1, <1>7, <2>3, <2>5, <3>1 DEF Handled
  <2> QED
    BY <1>2, <1>5, <2>6 DEF Unmarked
<1> QED
  BY <1>6, <1>7

(* Every step keeps the marks. *)
LEMMA MarkStep ==
  ASSUME TradesInv, OnceInv, MarkInv, [Next]_vars
  PROVE  MarkInv'
<1> SUFFICES ASSUME Plain, NEW r \in Refs, front'[r].st # "closed" \/ EndDue(r)'
             PROVE  Unmarked(r)'
  BY DEF MarkInv, Plain
<1>1. BaseInv /\ TradeInv /\ OrderInv
  BY DEF TradesInv
<1>2. CASE Helper \/ Listening \/ UNCHANGED vars
  BY <1>1, <1>2, MarkQuiet
<1>3. CASE CallbackBegin
  <2>1. PICK e \in EventType : e.ref \in Used /\ BeginDoes(e)
    BY <1>1, <1>3, BeginCases
  <2>2. front' = front /\ UNCHANGED <<track, epc, ecmd, eold>>
    BY <1>1, <2>1, BeginEnds
  <2>3. EndDue(r)' => EndDue(r)
    BY <1>1, <2>1, BeginEndDue
  <2>4. Unmarked(r)
    BY <2>2, <2>3 DEF MarkInv
  <2> QED
    BY <2>2, <2>4 DEF Unmarked
<1>4. CASE Handlers
  BY <1>4, MarkHandled
<1>5. CASE Front
  <2>1. PICK q \in Refs, d \in EventType, e \in EventType : FrontDoes(q, d, e)
    BY <1>1, <1>5, FrontCases DEF BaseInv
  <2>2. UNCHANGED <<track, epc, ecmd, eold>>
    BY <2>1, FrontKeeps
  <2>3. front[r].st = "closed" => front'[r].st = "closed"
    <3>1. CASE r # q
      BY <2>1, <3>1 DEF FrontDoes
    <3>2. CASE r = q
      BY <2>1, <3>2 DEF FrontDoes, Tells, Repeats, Trades
    <3> QED
      BY <3>1, <3>2
  <2>4. CASE front[r].st # "closed"
    <3>1. Unmarked(r)
      BY <2>4 DEF MarkInv
    <3> QED
      BY <2>2, <3>1 DEF Unmarked
  <2>5. CASE front[r].st = "closed"
    <3>1. EndDue(r)'
      BY <2>3, <2>5
    <3>2. EndDue(r)
      <4>1. EndsNow(r)' => EndsNow(r)
        BY <1>1, <2>1, FrontEnds
      <4>2. \A k \in DOMAIN evq' : EndsAt(k, r)' =>
              \/ k \in DOMAIN evq /\ EndsAt(k, r)
              \/ r = q /\ Tells(q, e) /\ FinalEvent(e)
        BY <1>1, <2>1, FrontEnds
      <4>3. ~(r = q /\ Tells(q, e) /\ FinalEvent(e))
        BY <2>5 DEF Tells
      <4> QED
        BY <3>1, <4>1, <4>2, <4>3 DEF EndDue
    <3>3. Unmarked(r)
      BY <3>2 DEF MarkInv
    <3> QED
      BY <2>2, <3>3 DEF Unmarked
  <2> QED
    BY <2>4, <2>5
<1> QED
  BY <1>2, <1>3, <1>4, <1>5 DEF Next, Callbacks, Handlers

-----------------------------------------------------------------------------
(* In the first run of the helper: an order with all its volume traded has *)
(* the bit CLOSED.                                                         *)
LEMMA ToldFull ==
  ASSUME BaseInv, LocalInv, ToldInv, [Next]_vars, restarts' = 0,
         NEW i \in DOMAIN ots', ots'[i].traded >= Vol
  PROVE  "CLOSED" \in ots'[i].st
<1>1. restarts = 0 /\ Vol \in Nat \ {0} /\ "CLOSED" \in Closing
  BY LocalOtsStep, OrderAssumption DEF Closing
<1>2. \A j \in DOMAIN ots : ots[j].traded >= Vol => "CLOSED" \in ots[j].st
  BY <1>1 DEF ToldInv
<1>3. CASE OtsQuiet
  <2>1. i \in DOMAIN ots
    <3>1. ~(0 >= Vol)
      BY <1>1
    <3> QED
      BY <1>3, <3>1 DEF OtsQuiet
  <2>2. ots'[i].traded = ots[i].traded /\ ots'[i].st \cap Closing = ots[i].st \cap Closing
    BY <1>3, <2>1 DEF OtsQuiet
  <2> QED
    BY <1>1, <1>2, <2>1, <2>2
<1>4. CASE GetRtn
  <2>1. PICK m : m = rtns[1]
    OBVIOUS
  <2>2. /\ i \in DOMAIN ots /\ m \in RtnType
        /\ IF m.to /\ m.local = i
           THEN /\ ots'[i].traded = ots[i].traded + MsgVol(m, i)
                /\ ots[i].st \subseteq ots'[i].st
                /\ m.type = "EXECUTION" /\ ots'[i].traded >= Vol =>
                     "CLOSED" \in ots'[i].st
           ELSE ots'[i] = ots[i]
    BY <1>4, <2>1, TakeFacts
  <2>3. CASE m.to /\ m.local = i /\ m.type # "EXECUTION"
    <3>1. MsgVol(m, i) = 0
      BY <2>3 DEF MsgVol
    <3>2. ots[i].traded \in Nat
      <4>1. ots \in Seq(OtType)
        BY DEF BaseInv, TypeInv, HelperType
      <4>2. ots[i] \in OtType
        BY <2>2, <4>1
      <4> QED
        BY <4>2 DEF OtType
    <3>3. ots'[i].traded = ots[i].traded
      BY <2>2, <2>3, <3>1, <3>2
    <3> QED
      BY <1>2, <2>2, <2>3, <3>3
  <2> QED
    BY <1>2, <2>2, <2>3
<1> QED
  BY <1>3, <1>4, RtnMoves

(* What is on its way to the helper stays so, or is known to it. *)
LEMMA FinalKeeps ==
  ASSUME BaseInv, LocalInv, [Next]_vars, restarts' = 0, NEW i \in DOMAIN ots,
         "CLOSED" \in ots[i].st \/ \E k \in DOMAIN rtns : FinalRtn(k, i)
  PROVE  "CLOSED" \in ots'[i].st \/ \E k \in DOMAIN rtns' : FinalRtn(k, i)'
<1>1. restarts = 0 /\ rtns \in Seq(RtnType) /\ "CLOSED" \in Closing
  BY LocalOtsStep DEF Closing, BaseInv, TypeInv, HelperType
<1>2. OtsQuiet /\ "CLOSED" \in ots[i].st => "CLOSED" \in ots'[i].st
  BY <1>1 DEF OtsQuiet
<1>3. CASE rtns' = rtns /\ OtsQuiet
  BY <1>2, <1>3 DEF FinalRtn
<1>4. ASSUME NEW m \in RtnType, rtns' = Append(rtns, m), OtsQuiet
      PROVE  "CLOSED" \in ots'[i].st \/ \E k \in DOMAIN rtns' : FinalRtn(k, i)'
  <2>1. \A k \in DOMAIN rtns : k \in DOMAIN rtns' /\ rtns'[k] = rtns[k]
    BY <1>1, <1>4, AppendFacts
  <2> QED
    BY <1>2, <1>4, <2>1 DEF FinalRtn
<1>5. CASE GetRtn
  <2>1. PICK m : m = rtns[1]
    OBVIOUS
  <2>2. /\ 1 \in DOMAIN rtns /\ rtns # <<>> /\ rtns' = Tail(rtns)
        /\ IF m.to /\ m.local = i
           THEN ots[i].st \subseteq ots'[i].st /\ Bits(m.type) \subseteq ots'[i].st
           ELSE ots'[i] = ots[i]
    BY <1>5, <2>1, TakeFacts
  <2>3. CASE "CLOSED" \in ots[i].st
    BY <2>2, <2>3
  <2>4. ASSUME NEW k \in DOMAIN rtns, FinalRtn(k, i)
        PROVE  "CLOSED" \in ots'[i].st \/ \E l \in DOMAIN rtns' : FinalRtn(l, i)'
    <3>1. CASE k = 1
      <4>1. m.to /\ m.oid = i /\ m.type \in Ends
        BY <2>1, <2>4, <3>1 DEF FinalRtn
      <4>2. m.local = i
        BY <1>1, <2>1, <2>2, <4>1 DEF LocalInv
      <4>3. "CLOSED" \in Bits(m.type)
        BY <4>1 DEF Ends, Bits
      <4> QED
        BY <2>2, <4>1, <4>2, <4>3
    <3>2. CASE k # 1
      <4>1. PICK l : l = k - 1
        OBVIOUS
      <4>2. Len(rtns) \in Nat /\ DOMAIN rtns = 1 .. Len(rtns)
            /\ DOMAIN rtns' = 1 .. Len(rtns) - 1
            /\ \A j \in DOMAIN rtns' : rtns'[j] = rtns[j + 1]
        BY <1>1, <2>2, TailFacts
      <4>3. l \in DOMAIN rtns' /\ l + 1 = k
        BY <2>4, <3>2, <4>1, <4>2
      <4>4. FinalRtn(l, i)'
        BY <2>4, <4>2, <4>3 DEF FinalRtn
      <4> QED
        BY <4>3, <4>4
    <3> QED
      BY <3>1, <3>2
  <2> QED
    BY <2>3, <2>4
<1> QED
  BY <1>3, <1>4, <1>5, RtnMoves

(* An end that is handled is written for the helper. *)
LEMMA EndWritten ==
  ASSUME TradesInv, MarkInv, Plain, Handlers, NEW r \in Refs, EndsNow(r),
         NEW i, IsOf(r, i)
  PROVE  \E k \in DOMAIN rtns' : FinalRtn(k, i)'
<1>1. BaseInv /\ TypeInv /\ Handled /\ rtns \in Seq(RtnType)
  BY HandledEffect DEF TradesInv, BaseInv, TypeInv, HelperType
<1>2. FinalEvent(cb) /\ cb.ref = r /\ cb # NoEvent /\ cb.kind # "trade"
  BY DEF EndsNow, FinalEvent, NoEvent
<1>3. cb.from
  BY <1>2 DEF TradesInv, PlainInv
<1>4. track[r].st \cap Closing = {}
  BY DEF MarkInv, EndDue, Unmarked
<1>5. PICK type \in AllBits, v \in Nat :
        /\ rtns' = Append(rtns, Rtn(cb.from, type, cb.local, cb.ref, v,
                                    front[cb.ref].oid))
        /\ type \in Final /\ type # "ERR"
  BY <1>1, <1>2, <1>4 DEF Handled
<1>6. PICK m : m = Rtn(cb.from, type, cb.local, cb.ref, v, front[cb.ref].oid)
  OBVIOUS
<1>7. m.to /\ m.oid = i /\ m.type \in Ends
  BY <1>2, <1>3, <1>5, <1>6 DEF Rtn, Ends, IsOf
<1>8. PICK k : k \in DOMAIN rtns' /\ rtns'[k] = m
  <2>1. rtns' = Append(rtns, m)
    BY <1>5, <1>6
  <2>2. PICK n \in Nat : n = Len(rtns) + 1
    BY <1>1
  <2>3. n \in DOMAIN rtns' /\ rtns'[n] = m
    BY <1>1, <2>1, <2>2
  <2> QED
    BY <2>3
<1>9. FinalRtn(k, i)'
  BY <1>7, <1>8 DEF FinalRtn
<1> QED
  BY <1>8, <1>9

(* An end that is due, on its way or known stays one of the three. *)
LEMMA EndedKeeps ==
  ASSUME TradesInv, MarkInv, Plain, [Next]_vars, restarts' = 0,
         NEW r \in Refs, NEW i \in DOMAIN ots, IsOf(r, i), Ended(r, i)
  PROVE  Ended(r, i)'
<1>1. BaseInv /\ LocalInv /\ TradeInv
  BY DEF TradesInv
<1>2. CASE "CLOSED" \in ots[i].st \/ \E k \in DOMAIN rtns : FinalRtn(k, i)
  <2>1. "CLOSED" \in ots'[i].st \/ \E k \in DOMAIN rtns' : FinalRtn(k, i)'
    BY <1>1, <1>2, FinalKeeps
  <2> QED
    BY <2>1 DEF Ended
<1>3. CASE EndDue(r)
  <2>1. CASE Helper \/ Listening \/ UNCHANGED vars
    <3>1. UNCHANGED <<cb, evq>>
      BY <1>1, <2>1, QuietFront
    <3>2. EndDue(r)'
      BY <1>3, <3>1 DEF EndDue, EndsNow, EndsAt
    <3> QED
      BY <3>2 DEF Ended
  <2>2. CASE CallbackBegin
    <3>1. PICK e \in EventType : e.ref \in Used /\ BeginDoes(e)
      BY <1>1, <2>2, BeginCases
    <3>2. EndDue(r)'
      BY <1>1, <1>3, <3>1, BeginEndDue
    <3> QED
      BY <3>2 DEF Ended
  <2>3. CASE Handlers
    <3>1. CASE EndsNow(r)
      <4>1. \E k \in DOMAIN rtns' : FinalRtn(k, i)'
        BY <2>3, <3>1, EndWritten
      <4> QED
        BY <4>1 DEF Ended
    <3>2. CASE ~EndsNow(r)
      <4>1. evq' = evq
        BY <1>1, <2>3, HandledEffect DEF BaseInv, Handled, callbackUnchanged, frontVars
      <4>2. EndDue(r)'
        BY <1>3, <3>2, <4>1 DEF EndDue, EndsAt
      <4> QED
        BY <4>2 DEF Ended
    <3> QED
      BY <3>1, <3>2
  <2>4. CASE Front
    <3>1. PICK q \in Refs, d \in EventType, e \in EventType : FrontDoes(q, d, e)
      BY <1>1, <2>4, FrontCases DEF BaseInv
    <3>2. EndDue(r)'
      BY <1>1, <1>3, <3>1, FrontEnds
    <3> QED
      BY <3>2 DEF Ended
  <2> QED
    BY <2>1, <2>2, <2>3, <2>4 DEF Next, Callbacks, Handlers
<1> QED
  BY <1>2, <1>3 DEF Ended

(* An order that is closed now, with volume left, was closed before, or    *)
(* its end is now due.                                                     *)
LEMMA EndBefore ==
  ASSUME TradesInv, [Next]_vars, NEW r \in Refs, NEW i, IsOf(r, i)',
         front'[r].st = "closed", front'[r].traded # Vol
  PROVE  /\ IsOf(r, i)
         /\ \/ front[r].st = "closed" /\ front[r].traded # Vol
            \/ EndDue(r)'
<1>1. BaseInv /\ TradeInv /\ TypeInv
  BY DEF TradesInv, BaseInv
<1>2. front \in [Refs -> FrontType] /\ evq \in Seq(EventType)
  BY <1>1 DEF TypeInv, FrontTypes
<1>3. ~(InsertSent /\ r = reqId)
  <2>1. InsertSent /\ r = reqId => front'[r].st = "sent"
    BY <1>2 DEF InsertSent
  <2> QED
    BY <2>1
<1>4. IsOf(r, i)
  BY <1>1, <1>3, IsOfKeeps
<1>5. CASE Helper \/ Listening \/ UNCHANGED vars
  <2>1. front'[r].traded = front[r].traded /\ front[r].st = "closed"
    BY <1>1, <1>5, QuietFront
  <2> QED
    BY <1>4, <2>1
<1>6. CASE CallbackBegin \/ Handlers
  <2>1. front' = front
    BY <1>1, <1>6, HandledEffect
       DEF CallbackBegin, Handled, callbackUnchanged, frontVars
  <2> QED
    BY <1>4, <2>1
<1>7. CASE Front
  <2>1. PICK q \in Refs, d \in EventType, e \in EventType : FrontDoes(q, d, e)
    BY <1>1, <1>7, FrontCases DEF BaseInv
  <2>2. CASE front[r].st = "closed"
    <3>1. front'[r].traded = front[r].traded
      <4>1. CASE r # q
        BY <2>1, <4>1 DEF FrontDoes
      <4>2. CASE r = q
        BY <2>1, <2>2, <4>2 DEF FrontDoes, Tells, Repeats, Trades
      <4> QED
        BY <4>1, <4>2
    <3> QED
      BY <1>4, <2>2, <3>1
  <2>3. CASE front[r].st # "closed"
    <3>1. r = q /\ Tells(q, e) /\ FinalEvent(e) /\ e.ref = r
      BY <2>1, <2>3 DEF FrontDoes, Tells, Repeats, Trades
    <3>2. evq' = Append(evq, e)
      BY <3>1 DEF Tells
    <3>3. PICK n \in Nat : n = Len(evq) + 1
      BY <1>2
    <3>4. n \in DOMAIN evq' /\ evq'[n] = e
      BY <1>2, <3>2, <3>3
    <3>5. EndsAt(n, r)'
      BY <3>1, <3>4 DEF EndsAt
    <3>6. EndDue(r)'
      BY <3>4, <3>5 DEF EndDue
    <3> QED
      BY <1>4, <3>6
  <2> QED
    BY <2>2, <2>3
<1> QED
  BY <1>5, <1>6, <1>7 DEF Next, Callbacks, Handlers

(* Every step keeps it: the helper gets to know of every end. *)
LEMMA ToldStep ==
  ASSUME TradesInv, MarkInv, ToldInv, [Next]_vars
  PROVE  ToldInv'
<1> SUFFICES ASSUME restarts' = 0
             PROVE  ToldInv'
  BY DEF ToldInv
<1>1. BaseInv /\ LocalInv /\ restarts = 0
  BY LocalOtsStep DEF TradesInv
<1>2. ASSUME NEW i \in DOMAIN ots', ots'[i].traded >= Vol
      PROVE  "CLOSED" \in ots'[i].st
  BY <1>1, <1>2, ToldFull
<1>3. ASSUME Plain, NEW i \in DOMAIN ots', NEW r \in Refs, IsOf(r, i)',
             front'[r].st = "closed", front'[r].traded # Vol
      PROVE  Ended(r, i)'
  <2>1. /\ IsOf(r, i)
        /\ \/ front[r].st = "closed" /\ front[r].traded # Vol
           \/ EndDue(r)'
    BY <1>3, EndBefore
  <2>2. i \in DOMAIN ots
    <3>1. Begun(r) /\ front[r].oid = i
      BY <1>1, <2>1 DEF IsOf, BaseInv, FreshInv, NoOrder
    <3>2. i \in 1 .. sent /\ Len(ots) = sent /\ ots \in Seq(OtType)
      BY <1>1, <3>1 DEF BaseInv, FreshInv, LocalInv, TypeInv, HelperType
    <3> QED
      BY <3>2
  <2>3. CASE EndDue(r)'
    BY <2>3 DEF Ended
  <2>4. CASE front[r].st = "closed" /\ front[r].traded # Vol
    <3>1. Ended(r, i)
      BY <1>1, <1>3, <2>1, <2>2, <2>4 DEF ToldInv
    <3> QED
      BY <1>3, <2>1, <2>2, <3>1, EndedKeeps
  <2> QED
    BY <2>1, <2>3, <2>4
<1> QED
  BY <1>2, <1>3 DEF ToldInv, Plain

-----------------------------------------------------------------------------
(* All of it together, with the ends the helper is told of. *)
AgreeInv == ClosedInv /\ OnceInv /\ MarkInv /\ ToldInv

(* At the start no order is closed. *)
LEMMA AgreeInit ==
  ASSUME Init
  PROVE  OnceInv /\ MarkInv /\ ToldInv
<1>1. /\ rtns = <<>> /\ ots = <<>> /\ evq = <<>> /\ cb = NoEvent /\ epc = "idle"
      /\ \A r \in Refs : track[r].st = {} /\ front[r].st = "none"
  BY DEF Init, NoTrack, NoOrder
<1>2. \A r \in Refs : ~EndDue(r)
  BY <1>1 DEF EndDue, EndsNow, FinalEvent, NoEvent
<1>3. OnceInv
  BY <1>1, <1>2 DEF OnceInv, EndsNow, FinalEvent, NoEvent, IsAll
<1>4. MarkInv
  BY <1>1 DEF MarkInv, Unmarked
<1>5. ToldInv
  BY <1>1 DEF ToldInv
<1> QED
  BY <1>3, <1>4, <1>5

(* An order is ended once, is marked when its end is handled, and its end  *)
(* gets to the helper, in every behaviour.                                 *)
THEOREM AgreeAlways == Spec => []AgreeInv
<1>1. Init => OnceInv /\ MarkInv /\ ToldInv
  BY AgreeInit
<1>2. ClosedInv /\ OnceInv /\ MarkInv /\ ToldInv /\ [Next]_vars
        => OnceInv' /\ MarkInv' /\ ToldInv'
  BY OnceStep, MarkStep, ToldStep DEF ClosedInv, TradesInv
<1> QED
  BY <1>1, <1>2, ClosedAlways, PTL DEF Spec, AgreeInv

(* When nothing is under way, the volumes agree, ... *)
LEMMA SettledTraded ==
  ASSUME TradesInv, Plain, Settled, restarts = 0, NEW i \in DOMAIN ots,
         NEW r \in Refs, IsOf(r, i)
  PROVE  ots[i].traded = front[r].traded
<1>1. /\ TypeInv /\ rtns = <<>> /\ evq = <<>> /\ cb = NoEvent
      /\ ots \in Seq(OtType)
  BY DEF TradesInv, BaseInv, TypeInv, HelperType, Settled
<1>2. RtnSum(i) = 0
  <2>1. PICK f : f = RtnVol(i)
    OBVIOUS
  <2>2. DOMAIN f = 1 .. 0 /\ \A k \in 1 .. 0 : f[k] \in Nat /\ f[k] = 0
    BY <1>1, <2>1 DEF RtnVol
  <2>3. SumFunction(f) = 0
    BY <2>2, SumSeqNat
  <2> QED
    BY <2>1, <2>3 DEF RtnSum
<1>3. DueSum(r) = 0
  <2>1. PICK f : f = DueVol(r)
    OBVIOUS
  <2>2. DOMAIN f = 1 .. 0 /\ \A k \in 1 .. 0 : f[k] \in Nat /\ f[k] = 0
    BY <1>1, <2>1 DEF DueVol
  <2>3. SumFunction(f) = 0
    BY <2>2, SumSeqNat
  <2> QED
    BY <2>1, <2>3 DEF DueSum
<1>4. CbVol(r) = 0
  BY <1>1 DEF CbVol, NoEvent
<1>5. track[r].traded = front[r].traded
  <2>1. track[r].traded + CbVol(r) + DueSum(r) = front[r].traded
    BY DEF TradesInv, CountInv
  <2>2. track[r].traded \in Nat
    BY <1>1, VolTypes
  <2> QED
    BY <1>3, <1>4, <2>1, <2>2
<1>6. ots[i].traded + RtnSum(i) = track[r].traded
  BY DEF TradesInv, HeldInv, Held
<1>7. ots[i].traded \in Nat
  <2>1. ots[i] \in OtType
    BY <1>1
  <2> QED
    BY <2>1 DEF OtType
<1> QED
  BY <1>2, <1>5, <1>6, <1>7

(* ... what the helper has as closed is over, ... *)
LEMMA SettledOver ==
  ASSUME ClosedInv, Plain, Settled, restarts = 0, NEW i \in DOMAIN ots,
         NEW r \in Refs, IsOf(r, i), "CLOSED" \in ots[i].st
  PROVE  front[r].st = "closed"
<1>1. TradesInv /\ BaseInv /\ OrderInv /\ TypeInv
  BY DEF ClosedInv, TradesInv, BaseInv
<1>2. ots[i].st \cap Final # {} \/ ots[i].traded >= Vol
  BY DEF ClosedInv, OverInv
<1>3. CASE ots[i].traded >= Vol
  <2>1. front[r].traded >= Vol
    BY <1>1, <1>3, SettledTraded
  <2>2. front[r].traded \in 0 .. Vol /\ Vol \in Nat
    BY <1>1, OrderAssumption DEF TypeInv, FrontTypes, FrontType
  <2>3. front[r].traded = Vol
    BY <2>1, <2>2
  <2> QED
    BY <1>1, <2>3 DEF OrderInv
<1>4. CASE ots[i].st \cap Ends # {}
  <2>1. PICK q \in Used : front[q].oid = i /\ Over(q)
    BY <1>4 DEF ClosedInv, OverInv, OverNo
  <2>2. q \in Refs /\ IsOf(q, i)
    BY <1>1, <2>1, IsOfFacts DEF Used
  <2>3. q = r
    BY <1>1, <2>2, IsOfFacts
  <2> QED
    BY <2>1, <2>3 DEF Over
<1>5. CASE "ERR" \in ots[i].st
  <2>1. i \in 1 .. sent
    <3>1. ots \in Seq(OtType) /\ Len(ots) = sent
      BY <1>1 DEF TradesInv, LocalInv, TypeInv, HelperType
    <3> QED
      BY <3>1
  <2>2. Dead(i)
    BY <1>5, <2>1 DEF ClosedInv, DeadInv, Refused
  <2>3. r \in Used /\ front[r].oid = i
    BY <1>1, IsOfFacts
  <2> QED
    BY <2>2, <2>3 DEF Dead
<1> QED
  BY <1>2, <1>3, <1>4, <1>5 DEF Ends

(* ... and what is over the helper has as closed. *)
LEMMA SettledTold ==
  ASSUME AgreeInv, Plain, Settled, restarts = 0, NEW i \in DOMAIN ots,
         NEW r \in Refs, IsOf(r, i), front[r].st = "closed"
  PROVE  "CLOSED" \in ots[i].st
<1>1. TradesInv /\ TypeInv /\ ToldInv
  BY DEF AgreeInv, ClosedInv, TradesInv, BaseInv
<1>2. CASE front[r].traded = Vol
  <2>1. ots[i].traded = Vol
    BY <1>1, <1>2, SettledTraded
  <2>2. ots[i].traded >= Vol
    BY <2>1, OrderAssumption
  <2> QED
    BY <1>1, <2>2 DEF ToldInv
<1>3. CASE front[r].traded # Vol
  <2>1. Ended(r, i)
    BY <1>1, <1>3 DEF ToldInv
  <2>2. rtns = <<>> /\ evq = <<>> /\ cb = NoEvent
    BY DEF Settled
  <2> QED
    BY <2>1, <2>2 DEF Ended, EndDue, EndsNow, FinalEvent, NoEvent
<1> QED
  BY <1>2, <1>3

(* When nothing is under way between helper, engine and front, the helper  *)
(* holds of every order of its first run what the front does: no trade and *)
(* no end gets lost on its way through the callbacks, the status word that *)
(* two threads change, and the pages (OnRtnOrder, OnRtnTrade,              *)
(* req_order_action, getRtn).                                              *)
THEOREM HelperAgreesAlways ==
  ASSUME EarlyCallback = FALSE, MaxOrders <= RefEnd
  PROVE  Spec => []HelperAgrees
<1>1. AgreeInv => HelperAgrees
  <2> SUFFICES ASSUME AgreeInv, Settled, restarts = 0, NEW i \in DOMAIN ots,
                      NEW r \in Refs, IsOf(r, ots[i].oid)
               PROVE  /\ ots[i].traded = front[r].traded
                      /\ "CLOSED" \in ots[i].st <=> front[r].st = "closed"
    BY DEF HelperAgrees
  <2>1. Plain /\ ClosedInv /\ TradesInv
    BY DEF Plain, AgreeInv, ClosedInv
  <2>2. IsOf(r, i)
    BY <2>1 DEF TradesInv, LocalInv
  <2> QED
    BY <2>1, <2>2, SettledTraded, SettledOver, SettledTold
<1> QED
  BY <1>1, AgreeAlways, PTL
=============================================================================
