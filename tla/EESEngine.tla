----------------------------- MODULE EESEngine -----------------------------
(***************************************************************************)
(* The trade engine for the EES counter, in its two versions (CTDEngineEES *)
(* and CTDEngineEESV2), with the helper of one strategy (ITDHelper,        *)
(* CTDHelperComm) and the counter.  What differs from module OrderEngine:  *)
(* the counter names an order by a market token that it gives out with the *)
(* acceptance and that a cancel must carry; every stage of an order has a  *)
(* callback of its own, some of which find the order by its token; an      *)
(* engine that dies finds its orders again by a query.                     *)
(*                                                                         *)
(* Callbacks and commands are taken one at a time; how they interleave     *)
(* within a handler is the subject of OrderEngine.  Only the call that     *)
(* sends an order and the track that is filled after it are two steps.     *)
(***************************************************************************)
EXTENDS Integers, Sequences, FiniteSets

CONSTANTS
  MaxOrders,   \* bound: orders sent
  Vol,         \* volume of each order
  MaxCancels,  \* bound: cancel requests
  MaxDups,     \* bound: executions reported once more
  MaxDeaths,   \* bound: deaths of the engine
  MaxDue       \* bound: callbacks due, and returns unread, at a time

ASSUME EESAssumption ==
  /\ Vol \in [1 .. MaxOrders -> Nat \ {0}]
  /\ {MaxOrders, MaxCancels, MaxDups, MaxDeaths, MaxDue} \subseteq Nat

VARIABLES
  ver,     \* 1: CTDEngineEES, 2: CTDEngineEESV2
  ots,     \* order_track_ of the helper; the position is the local id
  cancels, \* number of cancel requests
  reg,     \* the engine has a reader of the helper's commands
  cmds,    \* the commands this reader will return
  rtns,    \* what the helper has not read of the engine's pages
  up,      \* the engine: down, query (logged on, updateOrderTrack), up
  reqId,   \* request_id_
  ecmd,    \* the order that EnterOrder has sent and has no track yet
  track,   \* request_track_, in a file
  seen,    \* otidfilter_: executions, by order
  srv,     \* the orders of the counter
  evq,     \* callbacks due
  creq,    \* tokens to cancel, on the way to the counter
  snap,    \* the answer to the query of the orders
  raced,   \* history: the counter was active during the query
  ntrade, dups, deaths

hvars == <<ots, cancels>>
evars == <<up, reqId, ecmd, track, seen, deaths>>
svars == <<srv, ntrade, dups>>
vars == <<ver, hvars, reg, cmds, rtns, evars, svars, evq, creq, snap, raced>>

Refs == 1 .. MaxOrders
None == [cmd |-> "none"]

(* emOrderRtnType: the final types share the bit CLOSED. *)
Bits(type) ==
  IF type \in {"REJECT", "MARKET_REJECT", "CANCELED", "ERR"}
  THEN {type, "CLOSED"} ELSE {type}
Test(st, type) == st \cap Bits(type) # {}

NoTrack == [st |-> {}, vol |-> 0, traded |-> 0, local |-> 0, tok |-> 0,
            sess |-> 0]
NoOrder == [st |-> "none", vol |-> 0, filled |-> 0]

(* The token the counter gives to an order *)
Token(r) == r

Init ==
  /\ ver \in {1, 2}
  /\ ots = <<>> /\ cancels = 0 /\ reg = TRUE /\ cmds = <<>> /\ rtns = <<>>
  /\ up = "up" /\ reqId = 1 /\ ecmd = None
  /\ track = [r \in Refs |-> NoTrack] /\ seen = [r \in Refs |-> {}]
  /\ srv = [r \in Refs |-> NoOrder] /\ evq = <<>> /\ creq = <<>>
  /\ snap = [r \in Refs |-> NoOrder]
  /\ raced = FALSE /\ ntrade = 0 /\ dups = 0 /\ deaths = 0

-----------------------------------------------------------------------------
(***************************************************************************)
(* The helper                                                              *)
(***************************************************************************)
Write(c) == cmds' = IF reg THEN Append(cmds, c) ELSE cmds

SendOrder ==
  /\ Len(ots) < MaxOrders
  /\ ots' = Append(ots, [st |-> {"SEND"}, traded |-> 0, ref |-> -1,
                         tok |-> 0, asked |-> {}])
  /\ Write([cmd |-> "insert", local |-> Len(ots) + 1])
  /\ UNCHANGED <<ver, cancels, reg, rtns, evars, svars, evq, creq, snap, raced>>

(* ITDHelper::deleteOrder; the token is the one of the last return.        *)
(* History: asked has the tokens of all cancels.                           *)
DeleteOrder(i) ==
  /\ cancels < MaxCancels
  /\ ots[i].ref >= 0 /\ "CLOSED" \notin ots[i].st
  /\ ots[i].st \cap {"TDSEND", "EXECUTION", "ACCEPT", "MARKET_ACCEPT"} # {}
  /\ cancels' = cancels + 1
  /\ ots' = [ots EXCEPT ![i].st = @ \cup {"CXLING"},
                        ![i].asked = ots[i].asked \cup {ots[i].tok}]
  /\ Write([cmd |-> "cancel", local |-> i, ref |-> ots[i].ref,
            tok |-> ots[i].tok])
  /\ UNCHANGED <<ver, reg, rtns, evars, svars, evq, creq, snap, raced>>

(* A track of the helper after return m *)
Updated(o, m) ==
  LET n == o.traded + IF m.type = "EXECUTION" THEN m.vol ELSE 0 IN
  [o EXCEPT !.st = @ \cup Bits(m.type)
                      \cup (IF n >= Vol[m.local] THEN {"CLOSED"} ELSE {}),
            !.traded = n, !.ref = m.ref, !.tok = m.tok]

(* ITDHelper::getRtn; after a start signal the helper asks the engine to   *)
(* read its pages again.                                                   *)
GetRtn ==
  /\ rtns # <<>>
  /\ rtns' = Tail(rtns)
  /\ LET m == Head(rtns) IN
     IF m.type = "START"
     THEN /\ reg' = (reg \/ up = "up")
          /\ UNCHANGED ots
     ELSE /\ ots' = [ots EXCEPT ![m.local] = Updated(@, m)]
          /\ UNCHANGED reg
  /\ UNCHANGED <<ver, cancels, cmds, evars, svars, evq, creq, snap, raced>>

-----------------------------------------------------------------------------
(***************************************************************************)
(* The engine                                                              *)
(***************************************************************************)
(* writeRtnFromTrack: a track without a sender is written to nobody. *)
RtnFromTrack(r, t, type, vol) ==
  /\ Len(rtns) < MaxDue
  /\ rtns' = IF t.local = 0 THEN rtns
             ELSE Append(rtns, [type |-> type, local |-> t.local, ref |-> r,
                                tok |-> t.tok, vol |-> vol])

(* writeErrRtn of an order and of a cancel *)
ErrRtn(c) ==
  IF c.cmd = "insert"
  THEN rtns' = Append(rtns, [type |-> "ERR", local |-> c.local, ref |-> -1,
                             tok |-> -1, vol |-> 0])
  ELSE rtns' = Append(rtns, [type |-> "CANCEL_REJECT", local |-> c.local,
                             ref |-> c.ref, tok |-> c.tok, vol |-> 0])

NextCmd(cmd) ==
  /\ up = "up" /\ ecmd = None
  /\ cmds # <<>> /\ Head(cmds).cmd = cmd
  /\ cmds' = Tail(cmds)

(* req_order_insert: the risk check refuses the order, or EnterOrder fails *)
RefuseOrder ==
  /\ NextCmd("insert")
  /\ ErrRtn(Head(cmds))
  /\ UNCHANGED <<ver, hvars, reg, evars, svars, evq, creq, snap, raced>>

(* or it sends the order, *)
EnterOrder ==
  /\ NextCmd("insert")
  /\ ecmd' = Head(cmds)
  /\ srv' = [srv EXCEPT ![reqId] = [st |-> "sent", vol |-> Vol[ecmd'.local],
                                    filled |-> 0]]
  /\ UNCHANGED <<ver, hvars, reg, rtns, up, reqId, track, seen, deaths, ntrade,
                 dups, evq, creq, snap, raced>>

(* and the track is filled. *)
FillTrack ==
  /\ ecmd # None
  /\ LET t == [st |-> {"TDSEND"}, vol |-> Vol[ecmd.local], traded |-> 0,
               local |-> ecmd.local, tok |-> 0, sess |-> 0] IN
     /\ track' = [track EXCEPT ![reqId] = t]
     /\ RtnFromTrack(reqId, t, "TDSEND", t.vol)
  /\ reqId' = reqId + 1 /\ ecmd' = None
  /\ UNCHANGED <<ver, hvars, reg, cmds, up, seen, deaths, svars, evq, creq,
                 snap, raced>>

(* Mutant of CancelOrder: the token of the latest order is sent. *)
CancelOrderLast ==
  /\ NextCmd("cancel")
  /\ LET c == Head(cmds) IN
     /\ track[c.ref].sess # 0
     /\ creq' = Append(creq, Token(reqId - 1))
     /\ track' = [track EXCEPT ![c.ref].st = @ \cup {"CXLING"}]
  /\ UNCHANGED <<ver, hvars, reg, rtns, up, reqId, ecmd, seen, deaths, svars,
                 evq, snap, raced>>

(* req_order_action: the engine must know the token, and sends the one of  *)
(* the helper;                                                             *)
CancelOrder ==
  /\ NextCmd("cancel")
  /\ LET c == Head(cmds) IN
     /\ track[c.ref].sess # 0
     /\ creq' = Append(creq, c.tok)
     /\ track' = [track EXCEPT ![c.ref].st = @ \cup {"CXLING"}]
  /\ UNCHANGED <<ver, hvars, reg, rtns, up, reqId, ecmd, seen, deaths, svars,
                 evq, snap, raced>>

(* without it, or if the call fails, the cancel is rejected. *)
RefuseCancel ==
  /\ NextCmd("cancel")
  /\ ErrRtn(Head(cmds))
  /\ UNCHANGED <<ver, hvars, reg, evars, svars, evq, creq, snap, raced>>

(* A callback of the trade API; the order is in flight only between two    *)
(* steps of the listening thread.                                          *)
Callback(kind) ==
  /\ up # "down" /\ ecmd = None
  /\ evq # <<>> /\ Head(evq).kind = kind
  /\ evq' = Tail(evq)
  /\ UNCHANGED <<ver, hvars, reg, cmds, up, reqId, ecmd, deaths, svars, creq,
                 snap, raced>>

(* The change of a track and the return that reports it *)
Report(r, t, type, vol) ==
  /\ track' = [track EXCEPT ![r] = t]
  /\ RtnFromTrack(r, t, type, vol)

(* A callback that sets a status once, and the token if it knows it *)
SetStatus(r, type, tok) ==
  IF Test(track[r].st, type) THEN UNCHANGED <<track, rtns>>
  ELSE LET st == track[r].st \cup Bits(type) IN
       Report(r, IF tok = 0 THEN [track[r] EXCEPT !.st = st]
                 ELSE [track[r] EXCEPT !.st = st, !.tok = tok, !.sess = 1],
              type, 0)

(* The search from the latest order for a market token *)
WithToken(tok) ==
  {r \in 1 .. reqId - 1 : track[r].sess = 1 /\ track[r].tok = tok}
WithTokenShort(tok) ==
  {r \in 2 .. reqId - 1 : track[r].sess = 1 /\ track[r].tok = tok}
Latest(S) == CHOOSE r \in S : \A q \in S : q <= r

OnOrderAccept ==
  /\ Callback("ACCEPT")
  /\ SetStatus(Head(evq).ref, "ACCEPT", Token(Head(evq).ref))
  /\ UNCHANGED seen

OnOrderReject ==
  /\ Callback("REJECT")
  /\ SetStatus(Head(evq).ref, "REJECT", 0)
  /\ UNCHANGED seen

(* OnOrderMarketAccept and OnOrderMarketReject, by the reference *)
OnMarket ==
  \E type \in {"MARKET_ACCEPT", "MARKET_REJECT"} :
    /\ ver = 1 /\ Callback(type)
    /\ SetStatus(Head(evq).ref, type, Token(Head(evq).ref))
    /\ UNCHANGED seen

(* In the second version they find the order by its token, or not at all. *)
OnMarketV2 ==
  \E type \in {"MARKET_ACCEPT", "MARKET_REJECT"} :
    /\ ver = 2 /\ Callback(type)
    /\ LET tok == Token(Head(evq).ref) IN
       IF WithToken(tok) = {} THEN UNCHANGED <<track, rtns>>
       ELSE SetStatus(Latest(WithToken(tok)), type, tok)
    /\ UNCHANGED seen

(* What an execution of one lot makes of a track *)
Executed(r) ==
  LET n == track[r].traded + 1 IN
  [track[r] EXCEPT !.st = @ \cup {"EXECUTION"}
                            \cup (IF n >= track[r].vol THEN {"CLOSED"} ELSE {}),
                   !.traded = n, !.tok = Token(r), !.sess = 1]

(* Mutants of OnOrderExecution: the filter is not asked; the return has    *)
(* the volume of all executions.                                           *)
OnOrderExecutionBlind ==
  /\ Callback("EXECUTION")
  /\ Report(Head(evq).ref, Executed(Head(evq).ref), "EXECUTION", 1)
  /\ UNCHANGED seen
OnOrderExecutionTotal ==
  /\ Callback("EXECUTION")
  /\ LET e == Head(evq) IN
     IF e.id \in seen[e.ref] THEN UNCHANGED <<track, rtns, seen>>
     ELSE /\ seen' = [seen EXCEPT ![e.ref] = @ \cup {e.id}]
          /\ Report(e.ref, Executed(e.ref), "EXECUTION", track[e.ref].traded + 1)

OnOrderExecution ==
  /\ Callback("EXECUTION")
  /\ LET e == Head(evq) IN
     IF e.id \in seen[e.ref] THEN UNCHANGED <<track, rtns, seen>>
     ELSE /\ seen' = [seen EXCEPT ![e.ref] = @ \cup {e.id}]
          /\ Report(e.ref, Executed(e.ref), "EXECUTION", 1)

(* OnOrderCxled; only the first version takes the token from it. *)
OnOrderCxled ==
  /\ Callback("CANCELED")
  /\ LET r == Head(evq).ref IN
     SetStatus(r, "CANCELED", IF ver = 1 THEN Token(r) ELSE 0)
  /\ UNCHANGED seen

(* Mutant of OnCxlOrderReject: the search ends before the first order. *)
OnCxlOrderRejectShort ==
  /\ Callback("CANCEL_REJECT")
  /\ LET S == WithTokenShort(Head(evq).tok) IN
     IF S = {} THEN UNCHANGED <<track, rtns>>
     ELSE LET r == Latest(S) IN
          Report(r, [track[r] EXCEPT !.st = @ \cup {"CANCEL_REJECT"}],
                 "CANCEL_REJECT", 0)
  /\ UNCHANGED seen

OnCxlOrderReject ==
  /\ Callback("CANCEL_REJECT")
  /\ LET S == WithToken(Head(evq).tok) IN
     IF S = {} THEN UNCHANGED <<track, rtns>>
     ELSE LET r == Latest(S) IN
          Report(r, [track[r] EXCEPT !.st = @ \cup {"CANCEL_REJECT"}],
                 "CANCEL_REJECT", 0)
  /\ UNCHANGED seen

(* The process dies; the tracks are in a file. *)
EngineDies ==
  /\ up # "down" /\ deaths < MaxDeaths
  /\ deaths' = deaths + 1
  /\ up' = "down" /\ ecmd' = None /\ reg' = FALSE /\ cmds' = <<>>
  /\ evq' = <<>> /\ seen' = [r \in Refs |-> {}]
  /\ UNCHANGED <<ver, hvars, rtns, reqId, track, svars, creq, snap, raced>>

(* init: connect, login, then updateOrderTrack asks for the orders of the  *)
(* day.  By then nothing is on the way to the counter any more.            *)
Logon ==
  /\ up = "down" /\ creq = <<>>
  /\ \A r \in Refs : srv[r].st # "sent"
  /\ up' = "query"
  /\ snap' = srv
  /\ UNCHANGED <<ver, hvars, reg, cmds, rtns, reqId, ecmd, track, seen, deaths,
                 svars, evq, creq, raced>>

(* The status bits of an order the counter reports *)
StatusOf(o) ==
  {"TDSEND"}
  \cup (IF o.st # "rejected" THEN {"ACCEPT"} ELSE Bits("REJECT"))
  \cup (IF o.st \in {"live", "filled"} \/ o.filled > 0 THEN {"MARKET_ACCEPT"}
        ELSE IF o.st = "mrejected" THEN Bits("MARKET_REJECT") ELSE {})
  \cup (IF o.filled > 0 THEN {"EXECUTION"} ELSE {})
  \cup (IF o.st = "cxled" THEN Bits("CANCELED") ELSE {})
  \cup (IF o.filled >= o.vol THEN {"CLOSED"} ELSE {})

(* OnQueryTradeOrder *)
FromQuery(t, r, o) ==
  [t EXCEPT !.vol = o.vol, !.traded = o.filled, !.tok = Token(r), !.sess = 1,
            !.st = StatusOf(o)]

(* updateOrderTrack ends, listening() begins. *)
Listening ==
  /\ up = "query"
  /\ up' = "up"
  /\ track' = [r \in Refs |-> IF snap[r].st = "none" THEN track[r]
                              ELSE FromQuery(track[r], r, snap[r])]
  /\ reqId' = 1 + Cardinality({r \in Refs : srv[r].st # "none"})
  /\ rtns' = Append(rtns, [type |-> "START"])
  /\ snap' = [r \in Refs |-> NoOrder]
  /\ UNCHANGED <<ver, hvars, reg, cmds, ecmd, seen, deaths, svars, evq, creq,
                 raced>>

-----------------------------------------------------------------------------
(***************************************************************************)
(* The counter: it reports to an engine that is logged on.                 *)
(***************************************************************************)
Push(e) ==
  /\ Len(evq) < MaxDue
  /\ evq' = IF up = "down" THEN evq ELSE Append(evq, e)
  /\ raced' = (raced \/ up = "query")
  /\ UNCHANGED <<ver, hvars, reg, cmds, rtns, evars, snap>>

Judge(r) ==
  /\ \E s \in {<<"sent", "accepted", "ACCEPT">>, <<"sent", "rejected", "REJECT">>,
               <<"accepted", "live", "MARKET_ACCEPT">>,
               <<"accepted", "mrejected", "MARKET_REJECT">>} :
       /\ srv[r].st = s[1]
       /\ srv' = [srv EXCEPT ![r].st = s[2]]
       /\ Push([kind |-> s[3], ref |-> r])
  /\ UNCHANGED <<ntrade, dups, creq>>

Trade(r) ==
  /\ srv[r].st = "live"
  /\ LET n == srv[r].filled + 1 IN
     srv' = [srv EXCEPT ![r].filled = n,
                        ![r].st = IF n = srv[r].vol THEN "filled" ELSE "live"]
  /\ ntrade' = ntrade + 1
  /\ Push([kind |-> "EXECUTION", ref |-> r, id |-> ntrade + 1])
  /\ UNCHANGED <<dups, creq>>

(* An execution that is due is reported twice. *)
Again ==
  /\ dups < MaxDups
  /\ \E k \in 1 .. Len(evq) : evq[k].kind = "EXECUTION" /\ Push(evq[k])
  /\ dups' = dups + 1
  /\ UNCHANGED <<srv, ntrade, creq>>

Cancel ==
  /\ creq # <<>>
  /\ creq' = Tail(creq)
  /\ LET r == Head(creq) IN
     \/ /\ r \in Refs /\ srv[r].st \in {"accepted", "live"}
        /\ srv' = [srv EXCEPT ![r].st = "cxled"]
        /\ Push([kind |-> "CANCELED", ref |-> r])
     \/ /\ UNCHANGED srv
        /\ Push([kind |-> "CANCEL_REJECT", tok |-> r])
  /\ UNCHANGED <<ntrade, dups>>

-----------------------------------------------------------------------------
Callbacks ==
  \/ OnOrderAccept \/ OnOrderReject \/ OnMarket \/ OnMarketV2
  \/ OnOrderExecution \/ OnOrderCxled \/ OnCxlOrderReject
Commands ==
  RefuseOrder \/ EnterOrder \/ FillTrack \/ CancelOrder \/ RefuseCancel
Counter == Cancel \/ \E r \in Refs : Judge(r)

Next ==
  \/ SendOrder \/ GetRtn \/ \E i \in DOMAIN ots : DeleteOrder(i)
  \/ Commands \/ Callbacks \/ EngineDies \/ Logon \/ Listening
  \/ Counter \/ Again \/ \E r \in Refs : Trade(r)

Spec == Init /\ [][Next]_vars

-----------------------------------------------------------------------------
(***************************************************************************)
(* Properties                                                              *)
(***************************************************************************)
(* Nothing is due between the counter and the engine. *)
Quiet == up = "up" /\ ecmd = None /\ evq = <<>> /\ ~raced

Done == {"rejected", "mrejected", "cxled", "filled"}

(* An order's track says what the counter knows of the order, once the     *)
(* callbacks have run: the volume traded, the market token, whether it is  *)
(* over; through executions reported twice, deaths of the engine at any    *)
(* moment and the query of the orders after it, in both versions, unless   *)
(* the counter was active during such a query.                             *)
TrackFollows ==
  Quiet => \A r \in Refs : srv[r].st \notin {"none", "sent"} =>
    /\ track[r].traded = srv[r].filled
    /\ ("CLOSED" \in track[r].st) = (srv[r].st \in Done)
    /\ srv[r].st # "rejected" => track[r].tok = Token(r) /\ track[r].sess = 1

(* The helper knows of an order what the engine knows, once it has read    *)
(* its returns, as long as the engine has not died (RtnFromTrack, getRtn). *)
HelperFollows ==
  Quiet /\ deaths = 0 /\ rtns = <<>> =>
    \A r \in 1 .. reqId - 1 : LET o == ots[track[r].local] IN
      /\ o.traded = track[r].traded /\ o.ref = r
      /\ ("CLOSED" \in o.st) = ("CLOSED" \in track[r].st)

(* Only an order that the strategy has asked to cancel is canceled, by     *)
(* references, tokens and local ids that the engine and the helper pass    *)
(* on, also after the engine has died (req_order_action, OnQueryTradeOrder).*)
OnlyAskedCanceled ==
  \A r \in Refs : srv[r].st = "cxled" =>
    track[r].local # 0 /\ Token(r) \in ots[track[r].local].asked

(* No answer to a cancel is lost: once nothing is under way, the order is  *)
(* closed or its cancel rejected, if the cancel had the order's token and  *)
(* the engine has not died (OnOrderCxled, OnCxlOrderReject).               *)
CancelAnswered ==
  Quiet /\ deaths = 0 /\ <<cmds, creq, rtns>> = <<<<>>, <<>>, <<>>>> =>
    \A i \in DOMAIN ots : ots[i].asked \cap Refs # {} =>
      ots[i].st \cap {"CLOSED", "CANCEL_REJECT"} # {}

(* CTDEngineEES.cpp: an order whose market token is not known yet is not   *)
(* canceled; what is sent to the counter names an order.                   *)
CancelHasToken == \A k \in 1 .. Len(creq) : creq[k] # 0
=============================================================================
