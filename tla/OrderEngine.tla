----------------------------- MODULE OrderEngine -----------------------------
(***************************************************************************)
(* The life of orders between a strategy's helper (ITDHelper and           *)
(* CTDHelperComm), the trade engine (ITDEngine and CTDEngineCtp) and the   *)
(* trade front.  Helper and engine exchange commands and returns through   *)
(* two groups of pages, which deliver in order (module PageIO).            *)
(*                                                                         *)
(* Two threads of the engine share the order tracks and the risk account   *)
(* without a lock: the thread in listening() handles the commands, the     *)
(* thread of the trade API runs the callbacks.  The handlers of the        *)
(* listening thread are split at every load and store a callback can come  *)
(* between; a callback is split where it has read whom to answer.          *)
(* A status word is the set of its bits; a volume counts lots; prices,     *)
(* directions and accounts other than the frozen volume are left out.      *)
(***************************************************************************)
EXTENDS Integers, Sequences, FiniteSets, Functions

CONSTANTS
  MaxOrders,      \* bound: number of orders sent
  Vol,            \* volume of an order
  MaxCancels,     \* bound: number of cancel requests
  MaxDups,        \* bound: number of trades the front reports once more
  FilterLen,      \* trade ids kept per order (CIDQueue<N>)
  RefEnd,         \* request_id_end_; request_id_start_ is 1
  MaxRestarts,    \* bound: number of restarts of the helper
  EarlyCallback   \* TRUE: callbacks may run before the track is filled

ASSUME OrderAssumption ==
  /\ MaxOrders \in Nat /\ Vol \in Nat \ {0} /\ MaxCancels \in Nat
  /\ MaxDups \in Nat /\ FilterLen \in Nat \ {0} /\ RefEnd \in Nat
  /\ MaxRestarts \in Nat /\ EarlyCallback \in BOOLEAN

VARIABLES
  \* the helper
  hup,       \* up, down, or reader: its reader of the returns is set
  ots,       \* order_track_; the position is the local id
  sent,      \* number of orders sent so far, by all runs of the helper
  cancels,   \* number of cancel requests so far
  restarts,  \* number of restarts so far
  \* the pages between helper and engine
  cmds,      \* commands the engine has not read
  rtns,      \* returns the helper has not read
  \* the engine
  reqId,     \* request_id_
  epc,       \* where the listening thread is
  ecmd,      \* the command it handles
  eold,      \* what it has read of the word it is about to change
  cb,        \* the callback the API thread is in, NoEvent if none
  track,     \* request_track_, by order reference
  seen,      \* otidfilter_, by order reference: the latest first
  acct,      \* volume the risk account holds for orders under way
  \* the trade front
  front,     \* its orders, by order reference
  evq,       \* callbacks due, in order
  ntrade,    \* number of trades so far: the next trade id
  dups       \* number of trades reported once more

helperVars == <<hup, ots, sent, cancels, restarts>>
engineVars == <<reqId, epc, ecmd, eold, cb, track, seen, acct>>
frontVars == <<front, evq, ntrade, dups>>
vars == <<hup, ots, sent, cancels, restarts, cmds, rtns, reqId, epc, ecmd,
          eold, cb, track, seen, acct, front, evq, ntrade, dups>>

Refs == 1 .. MaxOrders

(* emOrderRtnType: the final types share the bit CLOSED. *)
Final == {"REJECT", "MARKET_REJECT", "CANCELED", "ERR"}
Bits(type) == IF type \in Final THEN {type, "CLOSED"} ELSE {type}
AllBits == Final \cup {"CLOSED", "SEND", "TDSEND", "CXLING", "ACCEPT",
                       "MARKET_ACCEPT", "EXECUTION", "CANCEL_REJECT"}

(* The test status & ODS(type): true when any bit of the type is there. *)
Test(st, type) == st \cap Bits(type) # {}

NoCmd == [cmd |-> "none", oid |-> 0, local |-> 0, ref |-> 0]
NoEvent == [kind |-> "none", ref |-> 0, what |-> "none", vol |-> 0, id |-> 0,
            from |-> FALSE, local |-> 0]
NoTrack == [st |-> {}, vol |-> 0, traded |-> 0, from |-> FALSE, local |-> 0]
NoOrder == [st |-> "none", traded |-> 0, cxl |-> FALSE, oid |-> 0]

Rtn(to, type, local, ref, vol, oid) ==
  [to |-> to, type |-> type, local |-> local, ref |-> ref, vol |-> vol,
   oid |-> oid]

Init ==
  /\ hup = "up" /\ ots = <<>> /\ sent = 0 /\ cancels = 0 /\ restarts = 0
  /\ cmds = <<>> /\ rtns = <<>>
  /\ reqId = 1 /\ epc = "idle" /\ ecmd = NoCmd /\ eold = [st |-> {}, n |-> 0]
  /\ cb = NoEvent
  /\ track = [r \in Refs |-> NoTrack]
  /\ seen = [r \in Refs |-> <<>>]
  /\ acct = 0
  /\ front = [r \in Refs |-> NoOrder]
  /\ evq = <<>> /\ ntrade = 0 /\ dups = 0

-----------------------------------------------------------------------------
(***************************************************************************)
(* The helper                                                              *)
(***************************************************************************)

(* doSendOrder and doDelOrder: what is written for the engine. *)
InsertCmd(o, i) == [cmd |-> "insert", oid |-> o, local |-> i, ref |-> 0]
CancelCmd(ot, i) == [cmd |-> "cancel", oid |-> ot.oid, local |-> i,
                     ref |-> ot.ref]

(* Mutant of SendOrder: the command carries the index before the append. *)
SendOrderShort ==
  /\ hup = "up"
  /\ sent < MaxOrders
  /\ sent' = sent + 1
  /\ ots' = Append(ots, [oid |-> sent + 1, st |-> {"SEND"}, traded |-> 0,
                         ref |-> -1])
  /\ cmds' = Append(cmds, InsertCmd(sent + 1, Len(ots)))
  /\ UNCHANGED <<hup, cancels, restarts, rtns, engineVars, frontVars>>

(* ITDHelper::sendOrder *)
SendOrder ==
  /\ hup = "up"
  /\ sent < MaxOrders
  /\ sent' = sent + 1
  /\ ots' = Append(ots, [oid |-> sent + 1, st |-> {"SEND"}, traded |-> 0,
                         ref |-> -1])
  /\ cmds' = Append(cmds, InsertCmd(sent + 1, Len(ots) + 1))
  /\ UNCHANGED <<hup, cancels, restarts, rtns, engineVars, frontVars>>

(* The test of ITDHelper::deleteOrder. *)
Cancellable(ot) ==
  /\ ot.ref >= 0
  /\ ot.st \cap {"TDSEND", "EXECUTION", "ACCEPT", "MARKET_ACCEPT"} # {}
  /\ "CLOSED" \notin ot.st

(* ITDHelper::deleteOrder *)
DeleteOrder(i) ==
  /\ hup = "up"
  /\ cancels < MaxCancels
  /\ Cancellable(ots[i])
  /\ cancels' = cancels + 1
  /\ ots' = [ots EXCEPT ![i].st = @ \cup {"CXLING"}]
  /\ cmds' = Append(cmds, CancelCmd(ots[i], i))
  /\ UNCHANGED <<hup, sent, restarts, rtns, engineVars, frontVars>>

(* Mutant of Updated: a full execution does not close. *)
UpdatedOpen(ot, m) ==
  [oid |-> ot.oid,
   st |-> ot.st \cup Bits(m.type),
   traded |-> IF m.type = "EXECUTION" THEN ot.traded + m.vol ELSE ot.traded,
   ref |-> m.ref]

(* What a return does to the track of its order. *)
Updated(ot, m) ==
  LET traded == IF m.type = "EXECUTION" THEN ot.traded + m.vol ELSE ot.traded
      full == m.type = "EXECUTION" /\ traded >= Vol
  IN
  [oid |-> ot.oid,
   st |-> ot.st \cup Bits(m.type) \cup (IF full THEN {"CLOSED"} ELSE {}),
   traded |-> traded,
   ref |-> m.ref]

(* ITDHelper::getRtn, doGetRtn: a return for somebody else, or for a local *)
(* id that is not in use, is passed over.                                  *)
GetRtn ==
  /\ hup = "up"
  /\ rtns # <<>>
  /\ LET m == Head(rtns) IN
       ots' = IF m.to /\ m.local \in DOMAIN ots
              THEN [ots EXCEPT ![m.local] = Updated(@, m)]
              ELSE ots
  /\ rtns' = Tail(rtns)
  /\ UNCHANGED <<hup, sent, cancels, restarts, cmds, engineVars, frontVars>>

(* The process of the helper is killed: no IO_TD_REMOVE_CLIENT. *)
HelperStop ==
  /\ hup = "up"
  /\ restarts < MaxRestarts
  /\ restarts' = restarts + 1
  /\ hup' = "down"
  /\ ots' = <<>>
  /\ UNCHANGED <<sent, cancels, cmds, rtns, engineVars, frontVars>>

(* CTDHelperComm::_init, step 4: the reader starts at the tail. *)
HelperReader ==
  /\ hup = "down"
  /\ hup' = "reader"
  /\ rtns' = <<>>
  /\ UNCHANGED <<ots, sent, cancels, restarts, cmds, engineVars, frontVars>>

(* The tracks of references below n that belong to the helper, in order. *)
OwnTracks(n) ==
  LET own == {r \in Refs : r < n /\ track[r].from}
      Nth(i) == CHOOSE r \in own : Cardinality({q \in own : q <= r}) = i
  IN  [i \in 1 .. Cardinality(own) |-> Nth(i)]

(* qryOrderTrack: the helper takes the tracks over as they come. *)
QryOrderTrack ==
  ots' = [i \in DOMAIN OwnTracks(reqId) |->
            LET r == OwnTracks(reqId)[i] IN
            [oid |-> front[r].oid, st |-> track[r].st,
             traded |-> track[r].traded, ref |-> r]]

(* _init, step 6: the listening thread answers the query with the tracks   *)
(* of this helper.  seqRead takes the earliest frame of all readers, so    *)
(* the commands written before the query have been handled.                *)
HelperQuery ==
  /\ hup = "reader"
  /\ epc = "idle" /\ cmds = <<>>
  /\ hup' = "up"
  /\ QryOrderTrack
  /\ UNCHANGED <<sent, cancels, restarts, cmds, rtns, engineVars, frontVars>>

-----------------------------------------------------------------------------
(***************************************************************************)
(* The listening thread of the engine                                      *)
(***************************************************************************)
Written(m) == rtns' = Append(rtns, m)

(* The API thread is between prefetch and commit: writer_ is locked. *)
WriterBusy == cb.kind = "order"

(* ITDEngine::listening reads the next command. *)
TakeCmd ==
  /\ epc = "idle"
  /\ cmds # <<>>
  /\ ecmd' = Head(cmds)
  /\ cmds' = Tail(cmds)
  /\ epc' = Head(cmds).cmd
  /\ UNCHANGED <<helperVars, rtns, reqId, eold, cb, track, seen, acct,
                 frontVars>>

(* req_order_insert: the account index, the risk check or the API refuses. *)
InsertFails ==
  /\ epc = "insert"
  /\ ~WriterBusy
  /\ Written(Rtn(TRUE, "ERR", ecmd.local, -1, Vol, ecmd.oid))
  /\ epc' = "idle"
  /\ ecmd' = NoCmd
  /\ UNCHANGED <<helperVars, cmds, reqId, eold, cb, track, seen, acct,
                 frontVars>>

(* req_order_insert: ReqOrderInsert hands the order to the front. *)
InsertSent ==
  /\ epc = "insert"
  /\ front' = [front EXCEPT ![reqId] = [st |-> "sent", traded |-> 0,
                                        cxl |-> FALSE, oid |-> ecmd.oid]]
  /\ epc' = "fill"
  /\ UNCHANGED <<helperVars, cmds, rtns, reqId, ecmd, eold, cb, track, seen,
                 acct, evq, ntrade, dups>>

(* The track is filled, up to vol_traded ... *)
FillOrder ==
  /\ epc = "fill"
  /\ track' = [track EXCEPT ![reqId].st = {"TDSEND"}, ![reqId].vol = Vol,
                            ![reqId].traded = 0]
  /\ epc' = "fillFrom"
  /\ UNCHANGED <<helperVars, cmds, rtns, reqId, ecmd, eold, cb, seen, acct,
                 frontVars>>

(* ... and then from, local_id and the rest. *)
FillFrom ==
  /\ epc = "fillFrom"
  /\ track' = [track EXCEPT ![reqId].from = TRUE, ![reqId].local = ecmd.local]
  /\ epc' = "ack"
  /\ UNCHANGED <<helperVars, cmds, rtns, reqId, ecmd, eold, cb, seen, acct,
                 frontVars>>

(* The answer TDSEND, and ++request_id_. *)
InsertAck ==
  /\ epc = "ack"
  /\ ~WriterBusy
  /\ Written(Rtn(TRUE, "TDSEND", ecmd.local, reqId, Vol, ecmd.oid))
  /\ reqId' = reqId + 1
  /\ epc' = "onNew"
  /\ UNCHANGED <<helperVars, cmds, ecmd, eold, cb, track, seen, acct,
                 frontVars>>

(* RiskTop::onNew: the frozen volume is loaded ... *)
OnNewLoad ==
  /\ epc = "onNew"
  /\ eold' = [eold EXCEPT !.n = acct]
  /\ epc' = "onNewStore"
  /\ UNCHANGED <<helperVars, cmds, rtns, reqId, ecmd, cb, track, seen, acct,
                 frontVars>>

(* ... and stored with the volume of the order added. *)
OnNewStore ==
  /\ epc = "onNewStore"
  /\ acct' = eold.n + Vol
  /\ epc' = "idle"
  /\ ecmd' = NoCmd
  /\ eold' = [eold EXCEPT !.n = 0]
  /\ UNCHANGED <<helperVars, cmds, rtns, reqId, cb, track, seen, frontVars>>

(* checkRequestId *)
CheckRequestId(r) == 1 <= r /\ r <= RefEnd

(* Mutant of CancelFails: the refusal is not reported. *)
CancelFailsSilent ==
  /\ epc = "cancel"
  /\ epc' = "idle"
  /\ ecmd' = NoCmd
  /\ UNCHANGED <<helperVars, cmds, rtns, reqId, eold, cb, track, seen, acct,
                 frontVars>>

(* req_order_action: the reference is out of range or the API refuses. *)
CancelFails ==
  /\ epc = "cancel"
  /\ ~WriterBusy
  /\ Written(Rtn(TRUE, "CANCEL_REJECT", ecmd.local, ecmd.ref, 0, ecmd.oid))
  /\ epc' = "idle"
  /\ ecmd' = NoCmd
  /\ UNCHANGED <<helperVars, cmds, reqId, eold, cb, track, seen, acct,
                 frontVars>>

(* req_order_action: ReqOrderAction hands the request to the front.        *)
CancelSent ==
  /\ epc = "cancel"
  /\ CheckRequestId(ecmd.ref)
  /\ front' = [front EXCEPT ![ecmd.ref].cxl = TRUE]
  /\ epc' = "cxling"
  /\ UNCHANGED <<helperVars, cmds, rtns, reqId, ecmd, eold, cb, track, seen,
                 acct, evq, ntrade, dups>>

(* status |= CXLING: the status is loaded ... *)
CxlingLoad ==
  /\ epc = "cxling"
  /\ eold' = [eold EXCEPT !.st = track[ecmd.ref].st]
  /\ epc' = "cxlingStore"
  /\ UNCHANGED <<helperVars, cmds, rtns, reqId, ecmd, cb, track, seen, acct,
                 frontVars>>

(* ... and stored with the bit set. *)
CxlingStore ==
  /\ epc = "cxlingStore"
  /\ track' = [track EXCEPT ![ecmd.ref].st = eold.st \cup {"CXLING"}]
  /\ epc' = "idle"
  /\ ecmd' = NoCmd
  /\ eold' = [eold EXCEPT !.st = {}]
  /\ UNCHANGED <<helperVars, cmds, rtns, reqId, cb, seen, acct, frontVars>>

-----------------------------------------------------------------------------
(***************************************************************************)
(* The callbacks of the trade API                                          *)
(***************************************************************************)

(* The listening thread has not filled the track of r yet. *)
Filling(r) == r = reqId /\ epc \in {"fill", "fillFrom"}

(* testOtId: a trade id that is kept is a repetition, another one is kept  *)
(* in the place of the oldest.                                             *)
Kept(r, id) == \E i \in DOMAIN seen[r] : seen[r][i] = id
Keep(r, id) ==
  LET s == <<id>> \o seen[r] IN
  IF Len(s) > FilterLen THEN SubSeq(s, 1, FilterLen) ELSE s

(* Mutant of Dropped: trades are not filtered. *)
DroppedNoFilter(e) ==
  \/ ~CheckRequestId(e.ref)
  \/ e.kind # "order" /\ ~track[e.ref].from

(* What the first lines of a callback pass over: a reference out of range, *)
(* a trade seen before, and, but for OnRtnOrder, a track without sender.   *)
Dropped(e) ==
  \/ ~CheckRequestId(e.ref)
  \/ e.kind = "trade" /\ Kept(e.ref, e.id)
  \/ e.kind # "order" /\ ~track[e.ref].from

(* A callback begins: it looks up the track and whom to answer. *)
CallbackBegin ==
  /\ cb = NoEvent
  /\ evq # <<>>
  /\ LET e == Head(evq) IN
       /\ EarlyCallback \/ ~Filling(e.ref)
       /\ seen' = IF e.kind = "trade" /\ CheckRequestId(e.ref)
                     /\ ~Kept(e.ref, e.id)
                  THEN [seen EXCEPT ![e.ref] = Keep(e.ref, e.id)]
                  ELSE seen
       /\ cb' = IF Dropped(e) THEN NoEvent
                ELSE [e EXCEPT !.from = track[e.ref].from,
                               !.local = track[e.ref].local]
  /\ evq' = Tail(evq)
  /\ UNCHANGED <<helperVars, cmds, rtns, reqId, epc, ecmd, eold, track, acct,
                 front, ntrade, dups>>

(* AccBase::onRtn: the volume that is no longer under way. *)
Freed(type, vol) ==
  IF type \in {"REJECT", "MARKET_REJECT", "CANCELED", "EXECUTION"} THEN vol ELSE 0

(* The track gets the bits, the helper the return, and engine_on_rtn tells *)
(* the risk account.                                                       *)
Report(type, bits, vol) ==
  /\ track' = [track EXCEPT ![cb.ref].st = @ \cup bits]
  /\ Written(Rtn(cb.from, type, cb.local, cb.ref, vol, front[cb.ref].oid))
  /\ acct' = acct - Freed(type, vol)

(* discard: the bits are kept, nothing is reported. *)
Discard(bits) ==
  /\ track' = [track EXCEPT ![cb.ref].st = @ \cup bits]
  /\ UNCHANGED <<rtns, acct>>

callbackUnchanged ==
  UNCHANGED <<helperVars, cmds, reqId, epc, ecmd, eold, seen, frontVars>>

(* OnRtnOrder: the state of the order at the exchange. *)
OnRtnOrder ==
  LET st == track[cb.ref].st
      closed == IF cb.what = "AllTraded" THEN {"CLOSED"} ELSE {}
  IN
  /\ cb.kind = "order"
  /\ \/ /\ cb.what = "Unknown"
        /\ IF Test(st, "ACCEPT") THEN Discard({})
           ELSE Report("ACCEPT", Bits("ACCEPT"), Vol)
     \/ /\ cb.what = "Canceled"
        /\ IF Test(st, "CANCELED") THEN Discard({})
           ELSE Report("CANCELED", Bits("CANCELED"), cb.vol)
     \/ /\ cb.what \in {"NoTradeQueueing", "PartTradedQueueing", "AllTraded"}
        /\ IF Test(st, "MARKET_ACCEPT") THEN Discard(closed)
           ELSE Report("MARKET_ACCEPT", Bits("MARKET_ACCEPT") \cup closed, Vol)
  /\ cb' = NoEvent
  /\ callbackUnchanged

(* OnRtnTrade *)
OnRtnTrade ==
  LET t == track[cb.ref]
      full == t.traded + cb.vol >= t.vol
  IN
  /\ cb.kind = "trade"
  /\ track' = [track EXCEPT
                 ![cb.ref].st = @ \cup {"EXECUTION"}
                                  \cup (IF full THEN {"CLOSED"} ELSE {}),
                 ![cb.ref].traded = @ + cb.vol]
  /\ Written(Rtn(cb.from, "EXECUTION", cb.local, cb.ref, cb.vol,
                 front[cb.ref].oid))
  /\ acct' = acct - Freed("EXECUTION", cb.vol)
  /\ cb' = NoEvent
  /\ callbackUnchanged

(* A rejected insert: a track that is closed already is left alone. *)
InsertRejected(type) ==
  /\ cb.kind = "reject" /\ cb.what = type
  /\ IF Test(track[cb.ref].st, type) THEN Discard({})
     ELSE Report(type, Bits(type), track[cb.ref].vol)
  /\ cb' = NoEvent
  /\ callbackUnchanged

OnRspOrderInsert == InsertRejected("REJECT")
OnErrRtnOrderInsert == InsertRejected("MARKET_REJECT")

(* A rejected cancel, by the front or by the market. *)
ActionRejected(by) ==
  /\ cb.kind = "action" /\ cb.what = by
  /\ Report("CANCEL_REJECT", {"CANCEL_REJECT"}, track[cb.ref].vol)
  /\ cb' = NoEvent
  /\ callbackUnchanged

OnRspOrderAction == ActionRejected("front")
OnErrRtnOrderAction == ActionRejected("market")

-----------------------------------------------------------------------------
(***************************************************************************)
(* The trade front, as CTDEngineCtp uses it: it answers in order and       *)
(* changes an order only while it is open.                                 *)
(***************************************************************************)
Event(kind, r, what, vol, id) ==
  [kind |-> kind, ref |-> r, what |-> what, vol |-> vol, id |-> id,
   from |-> FALSE, local |-> 0]

frontOnly == UNCHANGED <<helperVars, cmds, rtns, engineVars>>

FrontMoves(r, from, to, events) ==
  /\ front[r].st = from
  /\ front' = [front EXCEPT ![r].st = to]
  /\ evq' = evq \o events
  /\ UNCHANGED <<ntrade, dups>>
  /\ frontOnly

FrontAccepts(r) ==
  FrontMoves(r, "sent", "accepted", <<Event("order", r, "Unknown", 0, 0)>>)
FrontRejects(r) ==
  FrontMoves(r, "sent", "closed", <<Event("reject", r, "REJECT", 0, 0)>>)
MarketRejects(r) ==
  FrontMoves(r, "accepted", "closed",
             <<Event("reject", r, "MARKET_REJECT", 0, 0)>>)
MarketQueues(r) ==
  FrontMoves(r, "accepted", "queued",
             <<Event("order", r, "NoTradeQueueing", 0, 0)>>)

(* A trade is reported after the new state of its order. *)
MarketTrades(r, n) ==
  LET left == Vol - front[r].traded - n
      what == IF left = 0 THEN "AllTraded" ELSE "PartTradedQueueing"
  IN
  /\ front[r].st = "queued"
  /\ left >= 0
  /\ ntrade' = ntrade + 1
  /\ front' = [front EXCEPT ![r].traded = @ + n,
                            ![r].st = IF left = 0 THEN "closed" ELSE @]
  /\ evq' = evq \o <<Event("order", r, what, 0, 0),
                     Event("trade", r, "Trade", n, ntrade + 1)>>
  /\ UNCHANGED dups
  /\ frontOnly

(* A cancel request is carried out, or refused: by the front while the     *)
(* order is not in the market, by the market when it is over.              *)
MarketCancels(r) ==
  /\ front[r].cxl /\ front[r].st = "queued"
  /\ front' = [front EXCEPT ![r].st = "closed", ![r].cxl = FALSE]
  /\ evq' = Append(evq, Event("order", r, "Canceled",
                              Vol - front[r].traded, 0))
  /\ UNCHANGED <<ntrade, dups>>
  /\ frontOnly

CancelRefused(r) ==
  LET by == IF front[r].st = "closed" THEN "market" ELSE "front" IN
  /\ front[r].cxl /\ front[r].st # "queued"
  /\ front' = [front EXCEPT ![r].cxl = FALSE]
  /\ evq' = Append(evq, Event("action", r, by, 0, 0))
  /\ UNCHANGED <<ntrade, dups>>
  /\ frontOnly

(* The latest trade of an order is reported once more. *)
TradeAgain(r) ==
  /\ dups < MaxDups
  /\ seen[r] # <<>>
  /\ cb.ref # r /\ \A i \in DOMAIN evq : evq[i].ref # r
  /\ dups' = dups + 1
  /\ evq' = Append(evq, Event("trade", r, "Trade", 1, Head(seen[r])))
  /\ UNCHANGED <<front, ntrade>>
  /\ frontOnly

-----------------------------------------------------------------------------
Helper ==
  \/ SendOrder \/ GetRtn
  \/ \E i \in DOMAIN ots : DeleteOrder(i)
  \/ HelperStop \/ HelperReader \/ HelperQuery

Listening ==
  \/ TakeCmd
  \/ InsertFails \/ InsertSent \/ FillOrder \/ FillFrom \/ InsertAck
  \/ OnNewLoad \/ OnNewStore
  \/ CancelFails \/ CancelSent \/ CxlingLoad \/ CxlingStore

Callbacks ==
  \/ CallbackBegin
  \/ OnRtnOrder \/ OnRtnTrade
  \/ OnRspOrderInsert \/ OnErrRtnOrderInsert
  \/ OnRspOrderAction \/ OnErrRtnOrderAction

Answers(r) ==
  \/ FrontAccepts(r) \/ FrontRejects(r) \/ MarketRejects(r) \/ MarketQueues(r)
  \/ MarketCancels(r) \/ CancelRefused(r)

Front ==
  \E r \in Refs :
    \/ Answers(r) \/ TradeAgain(r)
    \/ \E n \in 1 .. Vol : MarketTrades(r, n)

Next == Helper \/ Listening \/ Callbacks \/ Front

Spec == Init /\ [][Next]_vars

(* The helper polls its returns, both threads of the engine run, and the    *)
(* front answers what it was sent.                                         *)
FairSpec ==
  /\ Spec
  /\ WF_vars(GetRtn) /\ WF_vars(Listening) /\ WF_vars(Callbacks)
  /\ \A r \in Refs : WF_vars(Answers(r))

-----------------------------------------------------------------------------
(***************************************************************************)
(* Properties                                                              *)
(***************************************************************************)

(* Every variable has its type. *)
TypeOK ==
  /\ hup \in {"up", "down", "reader"}
  /\ \A i \in DOMAIN ots :
       ots[i] \in [oid: 1 .. MaxOrders, st: SUBSET AllBits,
                   traded: Nat, ref: Refs \cup {-1}]
  /\ sent \in 0 .. MaxOrders /\ cancels \in 0 .. MaxCancels
  /\ restarts \in 0 .. MaxRestarts
  /\ reqId \in 1 .. MaxOrders + 1
  /\ epc \in {"idle", "insert", "fill", "fillFrom", "ack", "onNew",
              "onNewStore", "cancel", "cxling", "cxlingStore"}
  /\ cb.kind \in {"none", "order", "trade", "reject", "action"}
  /\ track \in [Refs -> [st: SUBSET AllBits, vol: {0, Vol}, traded: 0 .. Vol,
                         from: BOOLEAN, local: 0 .. MaxOrders]]
  /\ \A r \in Refs : Len(seen[r]) <= FilterLen
  /\ acct \in Int
  /\ front \in [Refs -> [st: {"none", "sent", "accepted", "queued", "closed"},
                         traded: 0 .. Vol, cxl: BOOLEAN, oid: 0 .. MaxOrders]]
  /\ ntrade \in Nat /\ dups \in 0 .. MaxDups

(* The front order of the order with number o. *)
IsOf(r, o) == front[r].oid = o /\ front[r].st # "none"

(* The helper, in its first run, never believes in more than was traded:   *)
(* no trade is counted twice for an order (OnRtnTrade, testOtId, getRtn).  *)
NoTradeTwice ==
  restarts = 0 => \A i \in DOMAIN ots, r \in Refs :
    IsOf(r, ots[i].oid) => ots[i].traded <= front[r].traded

(* The volume of the trades of r the callbacks still have to count, in the *)
(* queue one by one, and in all.                                           *)
DueVol(r) ==
  [k \in DOMAIN evq |->
     IF evq[k].kind = "trade" /\ evq[k].ref = r /\ ~Kept(r, evq[k].id)
     THEN evq[k].vol ELSE 0]

Uncounted(r) ==
  (IF cb.kind = "trade" /\ cb.ref = r THEN cb.vol ELSE 0)
    + SumFunction(DueVol(r))

(* The engine counts every trade exactly once: what the track holds and    *)
(* what is still to be counted is what was traded, whatever the front      *)
(* reports again and whenever the helper restarts (OnRtnTrade, testOtId,   *)
(* and the reset of vol_traded in req_order_insert).                       *)
TradesConserved ==
  \A r \in Refs : track[r].traded + Uncounted(r) = front[r].traded

(* Nothing is under way between helper, engine and front. *)
Settled ==
  /\ hup = "up" /\ cmds = <<>> /\ rtns = <<>> /\ evq = <<>>
  /\ epc = "idle" /\ cb = NoEvent

(* When all is settled, what the helper holds of an order of its first run *)
(* is what the front holds of it: the traded volume, and whether it is     *)
(* over (the handlers of both threads, and getRtn).                        *)
HelperAgrees ==
  Settled /\ restarts = 0 =>
    \A i \in DOMAIN ots, r \in Refs : IsOf(r, ots[i].oid) =>
      /\ ots[i].traded = front[r].traded
      /\ "CLOSED" \in ots[i].st <=> front[r].st = "closed"

(* When all is settled, the order track that survives the engine says the  *)
(* same of an order as the front.  The update of status in req_order_action *)
(* does not guarantee it (README, known to fail).                          *)
TrackAgrees ==
  Settled => \A r \in Refs : front[r].st # "none" =>
    /\ track[r].traded = front[r].traded
    /\ "CLOSED" \in track[r].st <=> front[r].st = "closed"

(* When no order is open and all is settled the risk account holds no      *)
(* volume for orders under way.  onNew and onRtn, run by two threads, do   *)
(* not guarantee it (README, known to fail).                               *)
AccountSettles ==
  Settled /\ (\A r \in Refs : front[r].st \in {"none", "closed"}) => acct = 0

(* A return for a helper's order is applied to that order. *)
RtnReachesOrder ==
  hup = "up" => \A k \in DOMAIN rtns :
    rtns[k].to /\ rtns[k].local \in DOMAIN ots =>
      ots[rtns[k].local].oid = rtns[k].oid

(* CLOSED is final: in the helper's first run a closed order stays closed  *)
(* and its traded volume stays (getRtn).                                   *)
ClosedIsFinal ==
  [][restarts' = 0 =>
       \A i \in DOMAIN ots : "CLOSED" \in ots[i].st =>
         "CLOSED" \in ots'[i].st /\ ots'[i].traded = ots[i].traded]_vars

(* What the helper asks for is answered, unless it restarts: an order that  *)
(* was sent with TDSEND or ERR at least, a cancel request by the end of the *)
(* order or a rejection.  A refusal by the engine, by the API or by the     *)
(* front must find its way back (writeErrRtn, OnRspOrderInsert,             *)
(* OnRspOrderAction).                                                       *)
RequestsAnswered ==
  \A i \in 1 .. MaxOrders :
    /\ (i \in DOMAIN ots) ~>
         \/ restarts > 0
         \/ i \in DOMAIN ots /\ ots[i].st # {"SEND"}
    /\ (i \in DOMAIN ots /\ "CXLING" \in ots[i].st) ~>
         \/ restarts > 0
         \/ /\ i \in DOMAIN ots
            /\ ots[i].st \cap {"CLOSED", "CANCEL_REJECT"} # {}
=============================================================================
