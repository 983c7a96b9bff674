-------------------------- MODULE EESEngineProofs --------------------------
(***************************************************************************)
(* Module EESEngine, for any number of orders, volumes, cancels, repeated  *)
(* executions and deaths of the engine, in both versions: what is canceled *)
(* was asked for, tracks follow the counter, the helper follows the        *)
(* tracks, and each cancel is answered.                                    *)
(***************************************************************************)
EXTENDS EESEngine, SumTheorems, SequenceTheorems

-----------------------------------------------------------------------------
(* The types of the variables, the messages included. *)
AllBits == {"SEND", "TDSEND", "CXLING", "ACCEPT", "MARKET_ACCEPT", "REJECT",
            "MARKET_REJECT", "CANCELED", "CANCEL_REJECT", "EXECUTION", "ERR",
            "CLOSED"}
Locals == 1 .. MaxOrders
Toks == -1 .. MaxOrders

OtType == [st: SUBSET AllBits, traded: Nat, ref: Refs \cup {-1}, tok: Toks,
           asked: SUBSET Toks]
CmdType == [cmd: {"insert"}, local: Locals]
             \cup [cmd: {"cancel"}, local: Locals, ref: Refs, tok: Toks]
RtnType == [type: {"START"}]
             \cup [type: AllBits, local: Locals, ref: Refs \cup {-1},
                   tok: Toks, vol: Nat]
TrackType == [st: SUBSET AllBits, vol: Nat, traded: Nat, local: 0 .. MaxOrders,
              tok: 0 .. MaxOrders, sess: {0, 1}]
SrvType == [st: {"none", "sent", "accepted", "live"} \cup Done, vol: Nat,
            filled: Nat]
EventType ==
  [kind: {"ACCEPT", "REJECT", "MARKET_ACCEPT", "MARKET_REJECT", "CANCELED"},
   ref: Refs]
    \cup [kind: {"EXECUTION"}, ref: Refs, id: Nat]
    \cup [kind: {"CANCEL_REJECT"}, tok: Toks]

TypeInv ==
  /\ ver \in {1, 2}
  /\ ots \in Seq(OtType) /\ Len(ots) <= MaxOrders /\ cancels \in Nat
  /\ reg \in BOOLEAN /\ cmds \in Seq(CmdType) /\ rtns \in Seq(RtnType)
  /\ up \in {"up", "down", "query"} /\ reqId \in 1 .. MaxOrders + 1
  /\ ecmd \in [cmd: {"insert"}, local: Locals] \cup {None}
  /\ track \in [Refs -> TrackType] /\ seen \in [Refs -> SUBSET Nat]
  /\ srv \in [Refs -> SrvType] /\ evq \in Seq(EventType) /\ creq \in Seq(Toks)
  /\ snap \in [Refs -> SrvType] /\ raced \in BOOLEAN
  /\ ntrade \in Nat /\ dups \in Nat /\ deaths \in Nat

-----------------------------------------------------------------------------
(* The counter has the first n orders; the orders still to be inserted     *)
(* have larger local ids.                                                  *)
Queued(n) ==
  /\ \A k \in DOMAIN cmds : cmds[k].cmd = "insert" =>
       /\ n < cmds[k].local /\ cmds[k].local <= Len(ots)
       /\ ecmd # None => ecmd.local < cmds[k].local
  /\ \A j, k \in DOMAIN cmds :
       j < k /\ cmds[j].cmd = "insert" /\ cmds[k].cmd = "insert" =>
         cmds[j].local < cmds[k].local
Entered(n) ==
  /\ n <= Len(ots)
  /\ \A r \in Refs : srv[r].st # "none" <=> r <= n
  /\ up = "up" => reqId = IF ecmd = None THEN n + 1 ELSE n
  /\ up # "up" => /\ reqId <= n + 1 /\ ecmd = None
                  /\ cmds = <<>> /\ ~reg
  /\ up = "down" => evq = <<>>
  /\ ecmd # None => n <= ecmd.local /\ ecmd.local <= Len(ots)
  /\ Queued(n)
EntryInv == \E n \in 0 .. MaxOrders : Entered(n)

(* The orders whose insert is under way *)
Pending(i) ==
  \/ ecmd # None /\ ecmd.local = i
  \/ \E k \in DOMAIN cmds : cmds[k].cmd = "insert" /\ cmds[k].local = i

(* Tracks name orders of the helper, no two the same one, and carry their  *)
(* own token or none.                                                      *)
OwnInv ==
  /\ \A r \in Refs :
       /\ srv[r].st = "none" =>
            track[r] = NoTrack /\ seen[r] = {} /\ snap[r].st = "none"
       /\ ecmd # None /\ r = reqId => track[r] = NoTrack /\ seen[r] = {}
       /\ track[r].local <= Len(ots)
       /\ track[r].tok = IF track[r].sess = 1 THEN r ELSE 0
  /\ \A q, r \in Refs : track[q].local = track[r].local =>
       q = r \/ track[q].local = 0
  /\ \A i \in Locals : Pending(i) => \A r \in Refs : track[r].local # i
  /\ ecmd # None => \A r \in Refs : track[r].local < ecmd.local
  /\ \A k \in DOMAIN cmds : cmds[k].cmd = "insert" =>
       \A r \in Refs : track[r].local < cmds[k].local

(* The strategy has asked to cancel order t. *)
AskedFor(t) ==
  track[t].local # 0 /\ Token(t) \in ots[track[t].local].asked

(* Neither the engine nor the command of the order is to come. *)
Lost(i) ==
  /\ \A r \in Refs : track[r].local # i
  /\ ~Pending(i)

(* Messages and the helper name a track of the order they are about.       *)
OtsNamed ==
  \A i \in DOMAIN ots :
    /\ ots[i].ref # -1 => track[ots[i].ref].local = i
    /\ ots[i].tok \in {-1, 0, ots[i].ref}
    /\ \A t \in ots[i].asked : t > 0 => track[t].local = i
RtnNamed(m) ==
  m.type # "START" =>
    /\ m.local <= Len(ots)
    /\ m.tok \in {-1, 0, m.ref}
    /\ m.ref # -1 => track[m.ref].local = m.local
    /\ m.ref = -1 <=> m.type = "ERR"
    /\ m.ref = -1 => \A i \in Locals : i = m.local => Lost(i)
RtnsNamed == \A k \in DOMAIN rtns : RtnNamed(rtns[k])
CmdNamed(c) ==
  c.cmd = "cancel" =>
    /\ track[c.ref].local = c.local
    /\ c.tok \in {-1, 0, c.ref}
    /\ c.tok > 0 => AskedFor(c.tok)
CmdsNamed == \A k \in DOMAIN cmds : CmdNamed(cmds[k])
CreqNamed == \A k \in DOMAIN creq : creq[k] > 0 => AskedFor(creq[k])
SrvNamed == \A r \in Refs : srv[r].st = "cxled" => AskedFor(r)
EvqNamed == \A k \in DOMAIN evq : evq[k].kind # "CANCEL_REJECT" =>
              srv[evq[k].ref].st # "none"

NameInv ==
  OtsNamed /\ RtnsNamed /\ CmdsNamed /\ CreqNamed /\ SrvNamed /\ EvqNamed

BaseInv == TypeInv /\ EntryInv /\ OwnInv /\ NameInv

-----------------------------------------------------------------------------
(* What is filled of an order, and its states *)
SrvInv ==
  /\ \A r \in Refs :
       /\ srv[r].st \in {"none", "sent", "accepted", "rejected", "mrejected"} =>
            srv[r].filled = 0
       /\ srv[r].st # "none" => srv[r].vol > 0
       /\ srv[r].st \in {"live", "cxled"} => srv[r].filled < srv[r].vol
       /\ srv[r].st = "filled" => srv[r].filled = srv[r].vol
  /\ ecmd # None => srv[reqId].vol = Vol[ecmd.local]

Ending == {"REJECT", "MARKET_REJECT", "CANCELED"}
StInv ==
  \A r \in Refs :
    /\ track[r].st \cap Ending # {} => "CLOSED" \in track[r].st
    /\ "ACCEPT" \in track[r].st => track[r].sess = 1

(* The order of a reference has a track. *)
HasTrack(r) == srv[r].st # "none" /\ (ecmd = None \/ r # reqId)

(* The executions of an order that events tell, those under way that the   *)
(* engine has not seen, and whether an event of some kind is under way     *)
Ids(q, r) ==
  {q[k].id : k \in {j \in DOMAIN q : q[j].kind = "EXECUTION" /\ q[j].ref = r}}
New(r) == Ids(evq, r) \ seen[r]
Due(r, kinds) ==
  \E k \in DOMAIN evq : evq[k].kind \in kinds /\ evq[k].ref = r

Reported(r) ==
  /\ track[r].traded + Cardinality(New(r)) = srv[r].filled
  /\ "CLOSED" \in track[r].st => srv[r].st \in Done
  /\ srv[r].st \in {"rejected", "mrejected", "cxled"} =>
       "CLOSED" \in track[r].st \/ Due(r, Ending)
  /\ srv[r].st \notin {"none", "sent", "rejected"} =>
       track[r].sess = 1 \/ Due(r, {"ACCEPT"})
  /\ HasTrack(r) => track[r].vol = srv[r].vol
  /\ HasTrack(r) /\ track[r].traded >= track[r].vol => "CLOSED" \in track[r].st

SeenInv ==
  /\ \A r \in Refs : \A x \in seen[r] : x <= ntrade
  /\ \A k \in DOMAIN evq : evq[k].kind = "EXECUTION" => evq[k].id <= ntrade

EventInv ==
  \A k \in DOMAIN evq :
    /\ evq[k].kind = "REJECT" => srv[evq[k].ref].st = "rejected"
    /\ evq[k].kind = "MARKET_REJECT" => srv[evq[k].ref].st = "mrejected"
    /\ evq[k].kind = "CANCELED" => srv[evq[k].ref].st = "cxled"
    /\ evq[k].kind \in {"MARKET_ACCEPT", "MARKET_REJECT"} =>
         \/ track[evq[k].ref].sess = 1
         \/ \E j \in DOMAIN evq :
              j < k /\ evq[j].kind = "ACCEPT" /\ evq[j].ref = evq[k].ref

FollowInv ==
  /\ ~raced /\ up = "up" => EventInv /\ \A r \in Refs : Reported(r)
  /\ ~raced /\ up = "query" => snap = srv /\ evq = <<>>

TrackInv == SrvInv /\ StInv /\ SeenInv /\ FollowInv

-----------------------------------------------------------------------------
(* What a return adds to the traded volume of order r *)
MsgVol(m, r) ==
  IF m.type = "EXECUTION" /\ m.ref = r THEN m.vol ELSE 0
RtnVol(r) == [k \in DOMAIN rtns |-> MsgVol(rtns[k], r)]
RtnSum(r) == SumFunction(RtnVol(r))
(* A return of one of these types is under way. *)
Told(r, types) ==
  \E k \in DOMAIN rtns : rtns[k].type \in types /\ rtns[k].ref = r
ClosingTypes == Ending \cup {"CLOSED"}

Followed(r) ==
  LET o == ots[track[r].local] IN
  /\ track[r].local # 0 /\ track[r].vol = Vol[track[r].local]
  /\ track[r].traded >= track[r].vol => "CLOSED" \in track[r].st
  /\ o.ref = r \/ Told(r, AllBits)
  /\ o.traded + RtnSum(r) = track[r].traded
  /\ "CLOSED" \in o.st \/ Told(r, ClosingTypes) => "CLOSED" \in track[r].st
  /\ "CLOSED" \in track[r].st => \/ "CLOSED" \in o.st
                                 \/ Told(r, ClosingTypes)
                                 \/ track[r].traded >= track[r].vol

(* An order of the helper that is traded is closed, one without a track is *)
(* not traded, one still to be inserted is not closed.                     *)
OtSound(i) ==
  /\ ots[i].traded >= Vol[i] => "CLOSED" \in ots[i].st
  /\ (\A r \in Refs : track[r].local # i) => ots[i].traded = 0
  /\ Pending(i) => "CLOSED" \notin ots[i].st

HelperInv ==
  deaths = 0 =>
    /\ up = "up" /\ reg
    /\ \A k \in DOMAIN rtns : rtns[k].type # "START"
    /\ \A r \in Refs : HasTrack(r) => Followed(r)
    /\ \A i \in DOMAIN ots : OtSound(i)

(* A cancel is on its way: as a command, as a request, as the refusal of   *)
(* the counter, or it is answered.                                         *)
Commanded(t) == \E k \in DOMAIN cmds : cmds[k].cmd = "cancel" /\ cmds[k].tok = t
Requested(t) == \E k \in DOMAIN creq : creq[k] = t
Denied(t) == \E k \in DOMAIN evq : evq[k].kind = "CANCEL_REJECT" /\ evq[k].tok = t

Answered(i, t) ==
  \/ ots[i].st \cap {"CLOSED", "CANCEL_REJECT"} # {}
  \/ Commanded(t) \/ Requested(t) \/ Denied(t)
  \/ Due(t, {"CANCELED"}) \/ Told(t, {"CANCEL_REJECT"})
  \/ "CLOSED" \in track[t].st

AnswerInv ==
  deaths = 0 =>
    /\ ~raced
    /\ \A t \in Refs : Requested(t) \/ Denied(t) => track[t].sess = 1
    /\ \A i \in DOMAIN ots : \A t \in ots[i].asked : t > 0 => Answered(i, t)

-----------------------------------------------------------------------------
(* The records of the engine and of the helper, and what changes in them. *)
TrackRec(st, vol, traded, local, tok, sess) ==
  [st |-> st, vol |-> vol, traded |-> traded, local |-> local, tok |-> tok,
   sess |-> sess]
OtRec(st, traded, ref, tok, asked) ==
  [st |-> st, traded |-> traded, ref |-> ref, tok |-> tok, asked |-> asked]

(* A track that gets a status, ... *)
WithStatus(o, nst, ntok, nsess) ==
  [o EXCEPT !.st = nst, !.tok = ntok, !.sess = nsess]
LEMMA WithStatusRec ==
  ASSUME NEW o \in TrackType, NEW nst, NEW ntok, NEW nsess
  PROVE  WithStatus(o, nst, ntok, nsess) = TrackRec(nst, o.vol, o.traded, o.local, ntok, nsess)
<1>1. PICK p : p = [o EXCEPT !.st = nst]
  OBVIOUS
<1>2. p = TrackRec(nst, o.vol, o.traded, o.local, o.tok, o.sess)
  BY <1>1 DEF TrackType, TrackRec
<1>3. PICK q : q = [p EXCEPT !.tok = ntok]
  OBVIOUS
<1>4. q = TrackRec(nst, o.vol, o.traded, o.local, ntok, o.sess)
  BY <1>2, <1>3 DEF TrackRec
<1>5. [q EXCEPT !.sess = nsess] = TrackRec(nst, o.vol, o.traded, o.local, ntok, nsess)
  BY <1>4 DEF TrackRec
<1> QED
  BY <1>1, <1>3, <1>5, Zenon DEF WithStatus

(* ... an execution, ... *)
WithExecution(o, nst, ntraded, ntok, nsess) ==
  [o EXCEPT !.st = nst, !.traded = ntraded, !.tok = ntok, !.sess = nsess]
LEMMA WithExecutionRec ==
  ASSUME NEW o \in TrackType, NEW nst, NEW ntraded, NEW ntok, NEW nsess
  PROVE  WithExecution(o, nst, ntraded, ntok, nsess) = TrackRec(nst, o.vol, ntraded, o.local, ntok, nsess)
<1>1. PICK p : p = [o EXCEPT !.st = nst]
  OBVIOUS
<1>2. p = TrackRec(nst, o.vol, o.traded, o.local, o.tok, o.sess)
  BY <1>1 DEF TrackType, TrackRec
<1>3. PICK q : q = [p EXCEPT !.traded = ntraded]
  OBVIOUS
<1>4. q = TrackRec(nst, o.vol, ntraded, o.local, o.tok, o.sess)
  BY <1>2, <1>3 DEF TrackRec
<1>5. PICK s : s = [q EXCEPT !.tok = ntok]
  OBVIOUS
<1>6. s = TrackRec(nst, o.vol, ntraded, o.local, ntok, o.sess)
  BY <1>4, <1>5 DEF TrackRec
<1>7. [s EXCEPT !.sess = nsess] = TrackRec(nst, o.vol, ntraded, o.local, ntok, nsess)
  BY <1>6 DEF TrackRec
<1> QED
  BY <1>1, <1>3, <1>5, <1>7, Zenon DEF WithExecution

(* ... the answer to a query; *)
WithAnswer(o, nvol, ntraded, ntok, nsess, nst) ==
  [o EXCEPT !.vol = nvol, !.traded = ntraded, !.tok = ntok, !.sess = nsess, !.st = nst]
LEMMA WithAnswerRec ==
  ASSUME NEW o \in TrackType, NEW nvol, NEW ntraded, NEW ntok, NEW nsess, NEW nst
  PROVE  WithAnswer(o, nvol, ntraded, ntok, nsess, nst) = TrackRec(nst, nvol, ntraded, o.local, ntok, nsess)
<1>1. PICK p : p = [o EXCEPT !.vol = nvol]
  OBVIOUS
<1>2. p = TrackRec(o.st, nvol, o.traded, o.local, o.tok, o.sess)
  BY <1>1 DEF TrackType, TrackRec
<1>3. PICK q : q = [p EXCEPT !.traded = ntraded]
  OBVIOUS
<1>4. q = TrackRec(o.st, nvol, ntraded, o.local, o.tok, o.sess)
  BY <1>2, <1>3 DEF TrackRec
<1>5. PICK s : s = [q EXCEPT !.tok = ntok]
  OBVIOUS
<1>6. s = TrackRec(o.st, nvol, ntraded, o.local, ntok, o.sess)
  BY <1>4, <1>5 DEF TrackRec
<1>7. PICK t : t = [s EXCEPT !.sess = nsess]
  OBVIOUS
<1>8. t = TrackRec(o.st, nvol, ntraded, o.local, ntok, nsess)
  BY <1>6, <1>7 DEF TrackRec
<1>9. [t EXCEPT !.st = nst] = TrackRec(nst, nvol, ntraded, o.local, ntok, nsess)
  BY <1>8 DEF TrackRec
<1> QED
  BY <1>1, <1>3, <1>5, <1>7, <1>9, Zenon DEF WithAnswer

(* an order of the helper that gets a return, ... *)
WithReturn(o, nst, ntraded, nref, ntok) ==
  [o EXCEPT !.st = nst, !.traded = ntraded, !.ref = nref, !.tok = ntok]
LEMMA WithReturnRec ==
  ASSUME NEW o \in OtType, NEW nst, NEW ntraded, NEW nref, NEW ntok
  PROVE  WithReturn(o, nst, ntraded, nref, ntok) = OtRec(nst, ntraded, nref, ntok, o.asked)
<1>1. PICK p : p = [o EXCEPT !.st = nst]
  OBVIOUS
<1>2. p = OtRec(nst, o.traded, o.ref, o.tok, o.asked)
  BY <1>1 DEF OtType, OtRec
<1>3. PICK q : q = [p EXCEPT !.traded = ntraded]
  OBVIOUS
<1>4. q = OtRec(nst, ntraded, o.ref, o.tok, o.asked)
  BY <1>2, <1>3 DEF OtRec
<1>5. PICK s : s = [q EXCEPT !.ref = nref]
  OBVIOUS
<1>6. s = OtRec(nst, ntraded, nref, o.tok, o.asked)
  BY <1>4, <1>5 DEF OtRec
<1>7. [s EXCEPT !.tok = ntok] = OtRec(nst, ntraded, nref, ntok, o.asked)
  BY <1>6 DEF OtRec
<1> QED
  BY <1>1, <1>3, <1>5, <1>7, Zenon DEF WithReturn

(* ... or is to be canceled. *)
WithCancel(o, nst, nasked) ==
  [o EXCEPT !.st = nst, !.asked = nasked]
LEMMA WithCancelRec ==
  ASSUME NEW o \in OtType, NEW nst, NEW nasked
  PROVE  WithCancel(o, nst, nasked) = OtRec(nst, o.traded, o.ref, o.tok, nasked)
<1>1. PICK p : p = [o EXCEPT !.st = nst]
  OBVIOUS
<1>2. p = OtRec(nst, o.traded, o.ref, o.tok, o.asked)
  BY <1>1 DEF OtType, OtRec
<1>3. [p EXCEPT !.asked = nasked] = OtRec(nst, o.traded, o.ref, o.tok, nasked)
  BY <1>2 DEF OtRec
<1> QED
  BY <1>1, <1>3, Zenon DEF WithCancel

-----------------------------------------------------------------------------
(* More bits, and no other change. *)
WithBits(o, b) ==
  [o EXCEPT !.st = @ \cup b]
LEMMA WithBitsRec ==
  ASSUME NEW o \in TrackType, NEW b
  PROVE  WithBits(o, b)
           = TrackRec(o.st \cup b, o.vol, o.traded, o.local, o.tok, o.sess)
BY DEF WithBits, TrackRec, TrackType

-----------------------------------------------------------------------------
(* A return that says what became of an order, with volume v. *)
ReportTypes == {"ACCEPT", "REJECT", "MARKET_ACCEPT", "MARKET_REJECT",
                "CANCELED", "EXECUTION", "CANCEL_REJECT"}
MarketTypes == {"MARKET_ACCEPT", "MARKET_REJECT"}

Advances(old, new, r, type, v) ==
  /\ new \in TrackType
  /\ new.local = old.local /\ new.vol = old.vol /\ new.traded = old.traded + v
  /\ new.st = old.st \cup Bits(type)
                \cup (IF v > 0 /\ new.traded >= old.vol THEN {"CLOSED"} ELSE {})
  /\ old.sess = 1 \/ type = "ACCEPT" => new.sess = 1
  /\ new.tok = IF new.sess = 1 THEN r ELSE 0

Reports(r, type, v) ==
  /\ r \in Refs /\ type \in ReportTypes /\ v = IF type = "EXECUTION" THEN 1 ELSE 0
  /\ track' = [track EXCEPT ![r] = track'[r]]
  /\ Advances(track[r], track'[r], r, type, v)
  /\ rtns' = IF track[r].local = 0 THEN rtns
             ELSE Append(rtns, [type |-> type, local |-> track[r].local,
                                ref |-> r, tok |-> track'[r].tok, vol |-> v])
Silent == track' = track /\ rtns' = rtns

(* What every callback does: it takes an event, and what it changes and    *)
(* tells is about the order of this event.                                 *)
Handles(e) ==
  \/ /\ e.kind \notin {"EXECUTION", "CANCEL_REJECT"} /\ seen' = seen
     /\ \/ Reports(e.ref, e.kind, 0)
        \/ /\ Silent
           /\ \/ Test(track[e.ref].st, e.kind)
              \/ e.kind \in MarketTypes /\ ~(track[e.ref].sess = 1 /\ e.ref < reqId)
  \/ /\ e.kind = "EXECUTION" /\ e.id \in seen[e.ref]
     /\ seen' = seen /\ Silent
  \/ /\ e.kind = "EXECUTION" /\ e.id \notin seen[e.ref]
     /\ seen' = [seen EXCEPT ![e.ref] = @ \cup {e.id}]
     /\ Reports(e.ref, "EXECUTION", 1)
  \/ /\ e.kind = "CANCEL_REJECT" /\ seen' = seen
     /\ \/ Reports(e.tok, "CANCEL_REJECT", 0) /\ track[e.tok].sess = 1
        \/ /\ Silent
           /\ ~(e.tok \in Refs /\ e.tok < reqId /\ track[e.tok].sess = 1)

CallbackDoes ==
  /\ evq # <<>> /\ up # "down" /\ ecmd = None /\ evq' = Tail(evq)
  /\ UNCHANGED <<ver, hvars, reg, cmds, up, reqId, ecmd, deaths, svars, creq,
                 snap, raced>>
  /\ evq[1] \in EventType /\ Handles(evq[1])

(* The bits are the bits of a status word. *)
LEMMA BitsType ==
  ASSUME NEW type \in AllBits
  PROVE  Bits(type) \subseteq AllBits
BY DEF Bits, AllBits

(* The first event, ... *)
LEMMA FirstEvent ==
  ASSUME TypeInv, evq # <<>>
  PROVE  /\ evq[1] \in EventType /\ Head(evq) = evq[1]
         /\ evq[1].kind \in ReportTypes
         /\ evq[1].kind # "CANCEL_REJECT" => evq[1].ref \in Refs
         /\ evq[1].kind = "CANCEL_REJECT" => evq[1].tok \in Toks
         /\ evq[1].kind = "EXECUTION" => evq[1].id \in Nat
<1>1. evq \in Seq(EventType)
  BY DEF TypeInv
<1>2. evq[1] \in EventType /\ Head(evq) = evq[1]
  BY <1>1, TailFacts
<1> QED
  BY <1>2 DEF EventType, ReportTypes

(* A report of a status that leaves the token as it is, ... *)
LEMMA StatusReports ==
  ASSUME BaseInv, NEW r \in Refs, NEW type \in ReportTypes \ {"EXECUTION", "ACCEPT"},
         Report(r, [track[r] EXCEPT !.st = @ \cup Bits(type)], type, 0)
  PROVE  Reports(r, type, 0)
<1> DEFINE t == [track[r] EXCEPT !.st = @ \cup Bits(type)]
<1>1. track[r] \in TrackType /\ track \in [Refs -> TrackType]
  BY DEF BaseInv, TypeInv
<1>2. track[r].tok = IF track[r].sess = 1 THEN r ELSE 0
  BY DEF BaseInv, OwnInv
<1>3. Bits(type) \subseteq AllBits
  BY BitsType DEF ReportTypes, AllBits
<1>4. t = TrackRec(track[r].st \cup Bits(type), track[r].vol, track[r].traded,
                   track[r].local, track[r].tok, track[r].sess)
  <2>1. PICK o, b : o = track[r] /\ b = Bits(type)
    OBVIOUS
  <2>2. WithBits(o, b)
          = TrackRec(o.st \cup b, o.vol, o.traded, o.local, o.tok, o.sess)
    BY <1>1, <2>1, WithBitsRec
  <2> QED
    BY <2>1, <2>2, Zenon DEF WithBits
<1>5. Advances(track[r], t, r, type, 0)
  <2>1. t \in TrackType
    BY <1>1, <1>3, <1>4 DEF TrackType, TrackRec
  <2>2. t.traded = track[r].traded + 0
    BY <1>1, <1>4 DEF TrackType, TrackRec
  <2> QED
    BY <1>2, <1>4, <2>1, <2>2 DEF Advances, TrackRec
<1>6. track' = [track EXCEPT ![r] = t] /\ track'[r] = t
  BY <1>1 DEF Report
<1>7. rtns' = IF track[r].local = 0 THEN rtns
              ELSE Append(rtns, [type |-> type, local |-> track[r].local,
                                 ref |-> r, tok |-> track'[r].tok, vol |-> 0])
  BY <1>4, <1>6 DEF Report, RtnFromTrack, TrackRec
<1> QED
  BY <1>5, <1>6, <1>7 DEF Reports

(* ... a callback that sets a status, ... *)
LEMMA SetStatusEffect ==
  ASSUME BaseInv, NEW r \in Refs, NEW tok \in {0, r},
         NEW type \in ReportTypes \ {"EXECUTION"},
         type = "ACCEPT" => tok = r,
         SetStatus(r, type, tok)
  PROVE  Reports(r, type, 0) \/ (Silent /\ Test(track[r].st, type))
<1>1. CASE Test(track[r].st, type)
  BY <1>1 DEF SetStatus, Silent
<1>2. CASE ~Test(track[r].st, type)
  <2> DEFINE st == track[r].st \cup Bits(type)
  <2> DEFINE t == IF tok = 0 THEN [track[r] EXCEPT !.st = st]
                  ELSE [track[r] EXCEPT !.st = st, !.tok = tok, !.sess = 1]
  <2>1. Report(r, t, type, 0)
    BY <1>2 DEF SetStatus
  <2>2. track[r] \in TrackType /\ track \in [Refs -> TrackType]
    BY DEF BaseInv, TypeInv
  <2>3. track[r].tok = IF track[r].sess = 1 THEN r ELSE 0
    BY DEF BaseInv, OwnInv
  <2>4. Bits(type) \subseteq AllBits
    BY BitsType DEF ReportTypes, AllBits
  <2>5. r \in 0 .. MaxOrders /\ r # 0
    BY DEF Refs
  <2>6. t = TrackRec(track[r].st \cup Bits(type), track[r].vol,
                     track[r].traded, track[r].local,
                     IF tok = 0 THEN track[r].tok ELSE tok,
                     IF tok = 0 THEN track[r].sess ELSE 1)
    <3>1. WithStatus(track[r], st, tok, 1)
            = TrackRec(st, track[r].vol, track[r].traded, track[r].local, tok, 1)
      BY <2>2, WithStatusRec
    <3>2. [track[r] EXCEPT !.st = st]
            = TrackRec(st, track[r].vol, track[r].traded, track[r].local,
                       track[r].tok, track[r].sess)
      BY <2>2 DEF TrackType, TrackRec
    <3> QED
      BY <3>1, <3>2, Zenon DEF WithStatus
  <2>7. Advances(track[r], t, r, type, 0)
    <3>1. t \in TrackType
      BY <2>2, <2>4, <2>5, <2>6 DEF TrackType, TrackRec
    <3>2. t.traded = track[r].traded + 0
      BY <2>2, <2>6 DEF TrackType, TrackRec
    <3>3. t.tok = IF t.sess = 1 THEN r ELSE 0
      BY <2>2, <2>3, <2>5, <2>6 DEF TrackType, TrackRec
    <3> QED
      BY <2>5, <2>6, <3>1, <3>2, <3>3 DEF Advances, TrackRec
  <2>8. track' = [track EXCEPT ![r] = t] /\ track'[r] = t
    BY <2>1, <2>2 DEF Report
  <2>9. rtns' = IF track[r].local = 0 THEN rtns
                ELSE Append(rtns, [type |-> type, local |-> track[r].local,
                                   ref |-> r, tok |-> track'[r].tok, vol |-> 0])
    BY <2>1, <2>6, <2>8 DEF Report, RtnFromTrack, TrackRec
  <2> QED
    BY <2>7, <2>8, <2>9 DEF Reports
<1> QED
  BY <1>1, <1>2

(* ... one that counts an execution, ... *)
LEMMA ExecutedEffect ==
  ASSUME BaseInv, NEW r \in Refs, Report(r, Executed(r), "EXECUTION", 1)
  PROVE  Reports(r, "EXECUTION", 1)
<1> DEFINE n == track[r].traded + 1
<1> DEFINE t == Executed(r)
<1>1. track[r] \in TrackType /\ track \in [Refs -> TrackType]
  BY DEF BaseInv, TypeInv
<1>2. r \in 0 .. MaxOrders /\ r # 0 /\ n \in Nat
  BY <1>1 DEF Refs, TrackType
<1>3. t = TrackRec(track[r].st \cup ({"EXECUTION"}
                     \cup (IF n >= track[r].vol THEN {"CLOSED"} ELSE {})),
                   track[r].vol, n, track[r].local, r, 1)
  <2>1. WithExecution(track[r], track[r].st \cup ({"EXECUTION"}
                        \cup (IF n >= track[r].vol THEN {"CLOSED"} ELSE {})), n, r, 1)
          = TrackRec(track[r].st \cup ({"EXECUTION"}
                       \cup (IF n >= track[r].vol THEN {"CLOSED"} ELSE {})),
                     track[r].vol, n, track[r].local, r, 1)
    BY <1>1, WithExecutionRec
  <2> QED
    BY <2>1, Zenon DEF Executed, Token, WithExecution
<1>4. Bits("EXECUTION") = {"EXECUTION"} /\ {"EXECUTION", "CLOSED"} \subseteq AllBits
  BY DEF Bits, AllBits
<1>5. t \in TrackType
  BY <1>1, <1>2, <1>3, <1>4 DEF TrackType, TrackRec
<1>6. Advances(track[r], t, r, "EXECUTION", 1)
  <2> HIDE DEF t
  <2>1. t.st = track[r].st \cup Bits("EXECUTION")
                 \cup (IF 1 > 0 /\ t.traded >= track[r].vol THEN {"CLOSED"} ELSE {})
    BY <1>3, <1>4 DEF TrackRec
  <2> QED
    BY <1>3, <1>5, <2>1 DEF Advances, TrackRec
<1>7. track' = [track EXCEPT ![r] = t] /\ track'[r] = t
  BY <1>1 DEF Report
<1>8. rtns' = IF track[r].local = 0 THEN rtns
              ELSE Append(rtns, [type |-> "EXECUTION", local |-> track[r].local,
                                 ref |-> r, tok |-> track'[r].tok, vol |-> 1])
  BY <1>3, <1>7 DEF Report, RtnFromTrack, TrackRec
<1> QED
  BY <1>6, <1>7, <1>8 DEF Reports, ReportTypes

(* ... and the order a token names. *)
LEMMA TokenNames ==
  ASSUME BaseInv, NEW t \in Toks
  PROVE  /\ WithToken(t) # {} => /\ t \in Refs /\ t < reqId /\ track[t].sess = 1
                                 /\ Latest(WithToken(t)) = t
         /\ t \in Refs /\ t < reqId /\ track[t].sess = 1 => WithToken(t) # {}
<1>1. reqId \in 1 .. MaxOrders + 1 /\ MaxOrders \in Nat
  BY EESAssumption DEF BaseInv, TypeInv
<1>2. \A q \in 1 .. reqId - 1 : q \in Refs
  BY <1>1 DEF Refs
<1>3. \A q \in Refs : track[q].sess = 1 => track[q].tok = q
  BY DEF BaseInv, OwnInv
<1>4. \A q \in WithToken(t) : q = t /\ t \in Refs /\ t < reqId /\ track[t].sess = 1
  BY <1>1, <1>2, <1>3 DEF WithToken
<1>5. t \in Refs /\ t < reqId /\ track[t].sess = 1 => t \in WithToken(t)
  BY <1>1, <1>3 DEF WithToken, Refs
<1>6. WithToken(t) # {} => WithToken(t) = {t}
  BY <1>4
<1>7. Latest({t}) = t
  BY DEF Latest, Toks
<1> QED
  BY <1>4, <1>5, <1>6, <1>7

(* Every callback is one of these. *)
LEMMA CallbackEffect ==
  ASSUME BaseInv, Callbacks
  PROVE  CallbackDoes
<1> DEFINE e == evq[1]
<1>1. PICK kind : Callback(kind)
  BY DEF Callbacks, OnOrderAccept, OnOrderReject, OnMarket, OnMarketV2,
         OnOrderExecution, OnOrderCxled, OnCxlOrderReject
<1>2. evq # <<>> /\ TypeInv
  BY <1>1 DEF Callback, BaseInv
<1>3. /\ e \in EventType /\ Head(evq) = e /\ e.kind \in ReportTypes
      /\ e.kind # "CANCEL_REJECT" => e.ref \in Refs
      /\ e.kind = "CANCEL_REJECT" => e.tok \in Toks
  BY <1>2, FirstEvent
<1>4. /\ up # "down" /\ ecmd = None /\ evq' = Tail(evq)
      /\ UNCHANGED <<ver, hvars, reg, cmds, up, reqId, ecmd, deaths, svars,
                     creq, snap, raced>>
  BY <1>1 DEF Callback
<1>5. SUFFICES Handles(e)
  BY <1>2, <1>3, <1>4 DEF CallbackDoes
<1>6. CASE OnOrderAccept
  <2>1. e.kind = "ACCEPT" /\ seen' = seen /\ SetStatus(e.ref, "ACCEPT", e.ref)
    BY <1>3, <1>6 DEF OnOrderAccept, Callback, Token
  <2>2. Reports(e.ref, "ACCEPT", 0) \/ (Silent /\ Test(track[e.ref].st, "ACCEPT"))
    BY <1>3, <2>1, SetStatusEffect
  <2> QED
    BY <2>1, <2>2 DEF Handles
<1>7. CASE OnOrderReject
  <2>1. e.kind = "REJECT" /\ seen' = seen /\ SetStatus(e.ref, "REJECT", 0)
    BY <1>3, <1>7 DEF OnOrderReject, Callback
  <2>2. Reports(e.ref, "REJECT", 0) \/ (Silent /\ Test(track[e.ref].st, "REJECT"))
    BY <1>3, <2>1, SetStatusEffect
  <2> QED
    BY <2>1, <2>2 DEF Handles
<1>8. CASE OnMarket
  <2>1. e.kind \in MarketTypes /\ seen' = seen /\ SetStatus(e.ref, e.kind, e.ref)
    BY <1>3, <1>8 DEF OnMarket, Callback, Token, MarketTypes
  <2>2. Reports(e.ref, e.kind, 0) \/ (Silent /\ Test(track[e.ref].st, e.kind))
    BY <1>3, <2>1, SetStatusEffect DEF MarketTypes
  <2> QED
    BY <2>1, <2>2 DEF Handles, MarketTypes
<1>9. CASE OnMarketV2
  <2>1. /\ e.kind \in MarketTypes /\ seen' = seen
        /\ IF WithToken(e.ref) = {} THEN UNCHANGED <<track, rtns>>
           ELSE SetStatus(Latest(WithToken(e.ref)), e.kind, e.ref)
    BY <1>3, <1>9 DEF OnMarketV2, Callback, Token, MarketTypes
  <2>2. e.ref \in Refs /\ e.ref \in Toks
    BY <1>3, <2>1 DEF MarketTypes, Refs, Toks
  <2>3. CASE WithToken(e.ref) = {}
    BY <2>1, <2>2, <2>3, TokenNames DEF Handles, MarketTypes, Silent
  <2>4. CASE WithToken(e.ref) # {}
    <3>1. SetStatus(e.ref, e.kind, e.ref)
      BY <2>1, <2>2, <2>4, TokenNames
    <3>2. Reports(e.ref, e.kind, 0) \/ (Silent /\ Test(track[e.ref].st, e.kind))
      BY <1>3, <2>1, <2>2, <3>1, SetStatusEffect DEF MarketTypes
    <3> QED
      BY <2>1, <3>2 DEF Handles, MarketTypes
  <2> QED
    BY <2>3, <2>4
<1>10. CASE OnOrderExecution
  <2>1. /\ e.kind = "EXECUTION"
        /\ IF e.id \in seen[e.ref] THEN UNCHANGED <<track, rtns, seen>>
           ELSE /\ seen' = [seen EXCEPT ![e.ref] = @ \cup {e.id}]
                /\ Report(e.ref, Executed(e.ref), "EXECUTION", 1)
    BY <1>3, <1>10 DEF OnOrderExecution, Callback
  <2> QED
    BY <1>3, <2>1, ExecutedEffect DEF Handles, Silent
<1>11. CASE OnOrderCxled
  <2>1. /\ e.kind = "CANCELED" /\ seen' = seen
        /\ SetStatus(e.ref, "CANCELED", IF ver = 1 THEN e.ref ELSE 0)
    BY <1>3, <1>11 DEF OnOrderCxled, Callback, Token
  <2>2. Reports(e.ref, "CANCELED", 0) \/ (Silent /\ Test(track[e.ref].st, "CANCELED"))
    BY <1>3, <2>1, SetStatusEffect
  <2> QED
    BY <2>1, <2>2 DEF Handles
<1>12. CASE OnCxlOrderReject
  <2>1. /\ e.kind = "CANCEL_REJECT" /\ seen' = seen
        /\ LET S == WithToken(e.tok) IN
           IF S = {} THEN UNCHANGED <<track, rtns>>
           ELSE LET r == Latest(S) IN
                Report(r, [track[r] EXCEPT !.st = @ \cup {"CANCEL_REJECT"}],
                       "CANCEL_REJECT", 0)
    BY <1>3, <1>12 DEF OnCxlOrderReject, Callback
  <2>2. CASE WithToken(e.tok) = {}
    BY <1>3, <2>1, <2>2, TokenNames DEF Handles, Silent
  <2>3. CASE WithToken(e.tok) # {}
    <3>1. /\ e.tok \in Refs /\ track[e.tok].sess = 1
          /\ Report(e.tok, [track[e.tok] EXCEPT !.st = @ \cup {"CANCEL_REJECT"}],
                    "CANCEL_REJECT", 0)
      BY <1>3, <2>1, <2>3, TokenNames
    <3>2. Bits("CANCEL_REJECT") = {"CANCEL_REJECT"}
      BY DEF Bits
    <3>3. Reports(e.tok, "CANCEL_REJECT", 0)
      BY <3>1, <3>2, StatusReports DEF ReportTypes
    <3> QED
      BY <2>1, <3>1, <3>3 DEF Handles
  <2> QED
    BY <2>2, <2>3
<1> QED
  BY <1>6, <1>7, <1>8, <1>9, <1>10, <1>11, <1>12 DEF Callbacks

-----------------------------------------------------------------------------
(* A sequence with another element at a place *)
LEMMA ExceptFacts ==
  ASSUME NEW S, NEW s \in Seq(S), NEW i \in DOMAIN s, NEW e \in S
  PROVE  LET t == [s EXCEPT ![i] = e] IN
         /\ t \in Seq(S) /\ Len(t) = Len(s) /\ DOMAIN t = DOMAIN s
         /\ t[i] = e /\ \A j \in DOMAIN s \ {i} : t[j] = s[j]
OBVIOUS

(* The command the engine takes, ... *)
LEMMA FirstCommand ==
  ASSUME TypeInv, NEW kind, NextCmd(kind)
  PROVE  /\ up = "up" /\ ecmd = None /\ cmds # <<>> /\ cmds' = Tail(cmds)
         /\ cmds \in Seq(CmdType) /\ cmds' \in Seq(CmdType)
         /\ Head(cmds) = cmds[1] /\ cmds[1] \in CmdType /\ cmds[1].cmd = kind
         /\ 1 \in DOMAIN cmds
<1>1. cmds \in Seq(CmdType) /\ cmds # <<>> /\ cmds' = Tail(cmds)
  BY DEF TypeInv, NextCmd
<1>2. /\ Head(cmds) \in CmdType /\ Head(cmds) = cmds[1] /\ 1 \in DOMAIN cmds
      /\ Tail(cmds) \in Seq(CmdType)
  BY <1>1, TailFacts
<1> QED
  BY <1>1, <1>2 DEF NextCmd

(* ... the answer that refuses one, ... *)
Refusal(c, m) ==
  /\ m \in RtnType /\ m.type # "START" /\ m.local = c.local /\ m.vol = 0
  /\ c.cmd = "insert" => m.type = "ERR" /\ m.ref = -1 /\ m.tok = -1
  /\ c.cmd = "cancel" => m.type = "CANCEL_REJECT" /\ m.ref = c.ref /\ m.tok = c.tok

LEMMA RefusalExists ==
  ASSUME EESAssumption, NEW c \in CmdType, ErrRtn(c)
  PROVE  \E m : Refusal(c, m) /\ rtns' = Append(rtns, m)
<1>1. CASE c.cmd = "insert"
  <2>1. PICK m : m = [type |-> "ERR", local |-> c.local, ref |-> -1, tok |-> -1,
                      vol |-> 0]
    OBVIOUS
  <2>2. Refusal(c, m)
    BY <1>1, <2>1, EESAssumption DEF Refusal, RtnType, CmdType, AllBits, Toks
  <2> QED
    BY <1>1, <2>1, <2>2 DEF ErrRtn
<1>2. CASE c.cmd = "cancel"
  <2>1. PICK m : m = [type |-> "CANCEL_REJECT", local |-> c.local, ref |-> c.ref,
                      tok |-> c.tok, vol |-> 0]
    OBVIOUS
  <2>2. Refusal(c, m)
    BY <1>2, <2>1 DEF Refusal, RtnType, CmdType, AllBits
  <2> QED
    BY <1>2, <2>1, <2>2 DEF ErrRtn
<1> QED
  BY <1>1, <1>2 DEF CmdType

(* ... and the report of a callback, if somebody gets it. *)
Report1(r, type, v, m) ==
  m = [type |-> type, local |-> track[r].local, ref |-> r, tok |-> track'[r].tok,
       vol |-> v]

LEMMA ReportsEffect ==
  ASSUME TypeInv, NEW r, NEW type, NEW v, Reports(r, type, v)
  PROVE  /\ r \in Refs /\ v \in {0, 1} /\ track' \in [Refs -> TrackType]
         /\ \A q \in Refs \ {r} : track'[q] = track[q]
         /\ track[r] \in TrackType /\ track'[r] \in TrackType
         /\ track[r].local = 0 => rtns' = rtns
         /\ track[r].local # 0 =>
              \E m \in RtnType : Report1(r, type, v, m) /\ rtns' = Append(rtns, m)
<1>1. r \in Refs /\ v \in {0, 1} /\ type \in AllBits /\ track'[r] \in TrackType
  BY DEF Reports, Advances, ReportTypes, AllBits
<1>2. track \in [Refs -> TrackType] /\ track' = [track EXCEPT ![r] = track'[r]]
  BY DEF TypeInv, Reports
<1>3. /\ track[r] \in TrackType /\ track' \in [Refs -> TrackType]
      /\ \A q \in Refs \ {r} : track'[q] = track[q]
  BY <1>1, <1>2
<1>4. ASSUME track[r].local # 0
      PROVE  \E m \in RtnType : Report1(r, type, v, m) /\ rtns' = Append(rtns, m)
  <2>1. PICK m : m = [type |-> type, local |-> track[r].local, ref |-> r,
                      tok |-> track'[r].tok, vol |-> v]
    OBVIOUS
  <2>2. track[r].local \in Locals /\ track'[r].tok \in Toks
    BY <1>1, <1>3, <1>4, EESAssumption DEF TrackType, Locals, Toks
  <2>3. m \in RtnType
    BY <1>1, <2>1, <2>2 DEF RtnType
  <2>4. rtns' = Append(rtns, m)
    BY <1>4, <2>1 DEF Reports
  <2> QED
    BY <2>1, <2>3, <2>4 DEF Report1
<1> QED
  BY <1>1, <1>3, <1>4 DEF Reports

(* A return of the engine is written. *)
LEMMA RtnTyped ==
  ASSUME TypeInv, NEW m \in RtnType, rtns' = Append(rtns, m)
  PROVE  rtns' \in Seq(RtnType)
BY DEF TypeInv

(* The first n orders are as many as the counter has. *)
LEMMA EnteredCount ==
  ASSUME EESAssumption, NEW n \in 0 .. MaxOrders, Entered(n)
  PROVE  Cardinality({r \in Refs : srv[r].st # "none"}) = n
<1>1. {r \in Refs : srv[r].st # "none"} = 1 .. n
  BY EESAssumption DEF Entered, Refs
<1>2. Cardinality(1 .. n) = n
  BY FS_Interval, EESAssumption
<1> QED
  BY <1>1, <1>2

(* An order of the helper after a return *)
LEMMA UpdatedIs ==
  ASSUME NEW o \in OtType, NEW m, m.type \in AllBits, m.vol \in Nat,
         NEW n, n = o.traded + IF m.type = "EXECUTION" THEN m.vol ELSE 0
  PROVE  Updated(o, m)
           = OtRec(o.st \cup Bits(m.type)
                        \cup (IF n >= Vol[m.local] THEN {"CLOSED"} ELSE {}),
                   n, m.ref, m.tok, o.asked)
<1>1. PICK s : s = o.st \cup Bits(m.type)
                     \cup (IF n >= Vol[m.local] THEN {"CLOSED"} ELSE {})
  OBVIOUS
<1>2. WithReturn(o, s, n, m.ref, m.tok) = OtRec(s, n, m.ref, m.tok, o.asked)
  BY WithReturnRec
<1>3. Updated(o, m) = WithReturn(o, s, n, m.ref, m.tok)
  BY <1>1, Zenon DEF Updated, WithReturn
<1> QED
  BY <1>1, <1>2, <1>3

LEMMA UpdatedType ==
  ASSUME NEW o \in OtType, NEW m, m.type \in AllBits, m.vol \in Nat,
         m.ref \in Refs \cup {-1}, m.tok \in Toks
  PROVE  Updated(o, m) \in OtType
<1>1. PICK n : n = o.traded + IF m.type = "EXECUTION" THEN m.vol ELSE 0
  OBVIOUS
<1>2. PICK s : s = o.st \cup Bits(m.type)
                     \cup (IF n >= Vol[m.local] THEN {"CLOSED"} ELSE {})
  OBVIOUS
<1>3. Updated(o, m) = OtRec(s, n, m.ref, m.tok, o.asked)
  BY <1>1, <1>2, UpdatedIs
<1>4. n \in Nat /\ s \subseteq AllBits
  <2>1. o.traded \in Nat /\ o.st \subseteq AllBits
    BY DEF OtType
  <2>2. Bits(m.type) \subseteq AllBits /\ "CLOSED" \in AllBits
    BY BitsType DEF AllBits
  <2> QED
    BY <1>1, <1>2, <2>1, <2>2
<1> QED
  BY <1>3, <1>4 DEF OtType, OtRec

-----------------------------------------------------------------------------
(* What the steps of the helper do: it enters an order, ...                *)
SendDoes ==
  /\ Len(ots) < MaxOrders /\ ots' \in Seq(OtType) /\ Len(ots') = Len(ots) + 1
  /\ DOMAIN ots' = 1 .. Len(ots) + 1
  /\ ots'[Len(ots) + 1] = OtRec({"SEND"}, 0, -1, 0, {})
  /\ \A j \in DOMAIN ots : ots'[j] = ots[j]
  /\ \E c \in CmdType : c.cmd = "insert" /\ c.local = Len(ots) + 1 /\ Write(c)
  /\ UNCHANGED <<ver, cancels, reg, rtns, up, reqId, ecmd, track, seen, deaths,
                 srv, ntrade, dups, evq, creq, snap, raced>>

LEMMA SendEffect ==
  ASSUME TypeInv, EESAssumption, SendOrder
  PROVE  SendDoes
<1>1. ots \in Seq(OtType) /\ Len(ots) \in Nat /\ Len(ots) < MaxOrders /\ MaxOrders \in Nat
  BY DEF TypeInv, EESAssumption, SendOrder
<1>2. PICK o : o = [st |-> {"SEND"}, traded |-> 0, ref |-> -1, tok |-> 0, asked |-> {}]
  OBVIOUS
<1>3. o \in OtType /\ o = OtRec({"SEND"}, 0, -1, 0, {})
  BY <1>1, <1>2 DEF OtType, OtRec, AllBits, Toks
<1>4. ots' = Append(ots, o)
  BY <1>2 DEF SendOrder
<1>5. /\ ots' \in Seq(OtType) /\ Len(ots') = Len(ots) + 1
      /\ DOMAIN ots' = 1 .. Len(ots) + 1 /\ ots'[Len(ots) + 1] = o
      /\ \A j \in DOMAIN ots : ots'[j] = ots[j]
  BY <1>1, <1>3, <1>4, AppendFacts
<1>6. PICK c : c = [cmd |-> "insert", local |-> Len(ots) + 1]
  OBVIOUS
<1>7. c \in CmdType /\ c.cmd = "insert" /\ c.local = Len(ots) + 1 /\ Write(c)
  BY <1>1, <1>6 DEF CmdType, Locals, SendOrder
<1> QED
  BY <1>1, <1>3, <1>5, <1>7 DEF SendDoes, SendOrder, evars, svars

(* ... asks to cancel one, ... *)
DeleteDoes(i) ==
  /\ i \in Locals /\ ots[i] \in OtType /\ ots[i].ref \in Refs /\ ots[i].tok \in Toks
  /\ "CLOSED" \notin ots[i].st
  /\ ots' \in Seq(OtType) /\ Len(ots') = Len(ots) /\ DOMAIN ots' = DOMAIN ots
  /\ ots'[i] = OtRec(ots[i].st \cup {"CXLING"}, ots[i].traded, ots[i].ref,
                     ots[i].tok, ots[i].asked \cup {ots[i].tok})
  /\ \A j \in DOMAIN ots \ {i} : ots'[j] = ots[j]
  /\ \E c \in CmdType : /\ c.cmd = "cancel" /\ c.local = i /\ c.ref = ots[i].ref
                        /\ c.tok = ots[i].tok /\ Write(c)
  /\ cancels' = cancels + 1
  /\ UNCHANGED <<ver, reg, rtns, up, reqId, ecmd, track, seen, deaths, srv,
                 ntrade, dups, evq, creq, snap, raced>>

LEMMA DeleteEffect ==
  ASSUME TypeInv, EESAssumption, NEW i \in DOMAIN ots, DeleteOrder(i)
  PROVE  DeleteDoes(i)
<1>1. /\ ots \in Seq(OtType) /\ Len(ots) \in Nat /\ Len(ots) <= MaxOrders
      /\ MaxOrders \in Nat /\ DOMAIN ots = 1 .. Len(ots)
  BY DEF TypeInv, EESAssumption
<1>2. ots[i] \in OtType /\ i \in Locals
  BY <1>1 DEF Locals
<1>3. ots[i].ref \in Refs /\ ots[i].tok \in Toks
  <2>1. ots[i].ref \in Refs \cup {-1} /\ ots[i].tok \in Toks
    BY <1>2 DEF OtType
  <2>2. ots[i].ref >= 0
    BY DEF DeleteOrder
  <2> QED
    BY <2>1, <2>2
<1>4. PICK s, a : s = ots[i].st \cup {"CXLING"} /\ a = ots[i].asked \cup {ots[i].tok}
  OBVIOUS
<1>5. PICK o : o = WithCancel(ots[i], s, a)
  OBVIOUS
<1>6. o = OtRec(s, ots[i].traded, ots[i].ref, ots[i].tok, a)
  BY <1>2, <1>5, WithCancelRec
<1>7. o \in OtType
  BY <1>2, <1>3, <1>4, <1>6 DEF OtType, OtRec, AllBits
<1>8. ots' = [ots EXCEPT ![i] = o]
  BY <1>1, <1>4, <1>5 DEF DeleteOrder, WithCancel
<1>9. /\ ots' \in Seq(OtType) /\ Len(ots') = Len(ots) /\ DOMAIN ots' = DOMAIN ots
      /\ ots'[i] = o /\ \A j \in DOMAIN ots \ {i} : ots'[j] = ots[j]
  BY <1>1, <1>7, <1>8, ExceptFacts
<1>10. PICK c : c = [cmd |-> "cancel", local |-> i, ref |-> ots[i].ref,
                     tok |-> ots[i].tok]
  OBVIOUS
<1>11. /\ c \in CmdType /\ c.cmd = "cancel" /\ c.local = i /\ c.ref = ots[i].ref
       /\ c.tok = ots[i].tok /\ Write(c)
  BY <1>2, <1>3, <1>10 DEF CmdType, DeleteOrder
<1> QED
  BY <1>2, <1>3, <1>4, <1>6, <1>9, <1>11 DEF DeleteDoes, DeleteOrder, evars, svars

(* ... and reads a return. *)
GetRtnDoes(m) ==
  /\ rtns # <<>> /\ m = rtns[1] /\ m \in RtnType /\ 1 \in DOMAIN rtns
  /\ rtns' = Tail(rtns) /\ rtns' \in Seq(RtnType)
  /\ UNCHANGED <<ver, cancels, cmds, up, reqId, ecmd, track, seen, deaths, srv,
                 ntrade, dups, evq, creq, snap, raced>>
  /\ m.type = "START" => ots' = ots /\ reg' = (reg \/ up = "up")
  /\ m.type # "START" =>
       /\ m.type \in AllBits /\ m.local \in DOMAIN ots /\ m.ref \in Refs \cup {-1}
       /\ m.tok \in Toks /\ m.vol \in Nat /\ m.local \in Locals
       /\ ots' = [ots EXCEPT ![m.local] = Updated(ots[m.local], m)]
       /\ ots' \in Seq(OtType) /\ Len(ots') = Len(ots) /\ DOMAIN ots' = DOMAIN ots
       /\ ots'[m.local] = Updated(ots[m.local], m) /\ ots[m.local] \in OtType
       /\ \A j \in DOMAIN ots \ {m.local} : ots'[j] = ots[j]
       /\ reg' = reg

LEMMA GetRtnEffect ==
  ASSUME TypeInv, NameInv, EESAssumption, GetRtn
  PROVE  GetRtnDoes(rtns[1])
<1>1. ots \in Seq(OtType) /\ DOMAIN ots = 1 .. Len(ots) /\ Len(ots) \in Nat
  BY DEF TypeInv
<1>2. PICK m : m = rtns[1]
  OBVIOUS
<1>3. /\ rtns # <<>> /\ m = Head(rtns) /\ m \in RtnType
      /\ rtns' = Tail(rtns) /\ rtns' \in Seq(RtnType) /\ 1 \in DOMAIN rtns
  BY <1>2, TailFacts DEF GetRtn, TypeInv
<1>4. CASE m.type = "START"
  BY <1>2, <1>3, <1>4 DEF GetRtn, GetRtnDoes, evars, svars
<1>5. CASE m.type # "START"
  <2>1. /\ m.type \in AllBits /\ m.local \in Locals /\ m.ref \in Refs \cup {-1}
        /\ m.tok \in Toks /\ m.vol \in Nat
    BY <1>3, <1>5 DEF RtnType
  <2>2. m.local \in DOMAIN ots
    BY <1>1, <1>2, <1>3, <1>5, <2>1 DEF NameInv, RtnsNamed, RtnNamed, Locals
  <2>3. ots[m.local] \in OtType
    BY <1>1, <2>2
  <2>4. PICK l, u : l = m.local /\ u = Updated(ots[m.local], m)
    OBVIOUS
  <2>5. u \in OtType
    BY <2>1, <2>3, <2>4, UpdatedType
  <2>6. ots' = [ots EXCEPT ![m.local] = Updated(ots[m.local], m)] /\ reg' = reg
    <3>1. Head(rtns).type # "START" =>
            /\ ots' = [ots EXCEPT ![Head(rtns).local] =
                         Updated(ots[Head(rtns).local], Head(rtns))]
            /\ reg' = reg
      BY Zenon DEF GetRtn
    <3> QED
      BY <1>3, <1>5, <3>1, Zenon
  <2>7. /\ ots' \in Seq(OtType) /\ Len(ots') = Len(ots) /\ DOMAIN ots' = DOMAIN ots
        /\ ots'[l] = u /\ \A j \in DOMAIN ots \ {l} : ots'[j] = ots[j]
    <3>1. ots' = [ots EXCEPT ![l] = u] /\ l \in DOMAIN ots
      BY <2>2, <2>4, <2>6
    <3> QED
      BY <1>1, <2>5, <3>1, ExceptFacts
  <2>8. UNCHANGED <<ver, cancels, cmds, up, reqId, ecmd, track, seen, deaths, srv,
                    ntrade, dups, evq, creq, snap, raced>>
    BY DEF GetRtn, evars, svars
  <2> QED
    BY <1>2, <1>3, <1>5, <2>1, <2>2, <2>3, <2>4, <2>6, <2>7, <2>8, Zenon DEF GetRtnDoes
<1> QED
  BY <1>4, <1>5

(* The types: the helper's steps, ... *)
LEMMA TypeHelper ==
  ASSUME BaseInv, SendOrder \/ GetRtn \/ (\E i \in DOMAIN ots : DeleteOrder(i))
  PROVE  TypeInv'
<1>1. TypeInv /\ NameInv /\ EESAssumption
  BY EESAssumption DEF BaseInv
<1>2. ASSUME NEW c \in CmdType, Write(c)
      PROVE  cmds' \in Seq(CmdType)
  BY <1>1, <1>2 DEF TypeInv, Write
<1>3. CASE SendOrder
  <2>1. SendDoes
    BY <1>1, <1>3, SendEffect
  <2>2. Len(ots') <= MaxOrders
    BY <1>1, <2>1 DEF SendDoes, TypeInv, EESAssumption
  <2> QED
    BY <1>1, <1>2, <2>1, <2>2 DEF TypeInv, SendDoes
<1>4. CASE \E i \in DOMAIN ots : DeleteOrder(i)
  <2>1. PICK i \in DOMAIN ots : DeleteDoes(i)
    BY <1>1, <1>4, DeleteEffect
  <2> QED
    BY <1>1, <1>2, <2>1 DEF TypeInv, DeleteDoes
<1>5. CASE GetRtn
  <2>1. GetRtnDoes(rtns[1])
    BY <1>1, <1>5, GetRtnEffect
  <2>2. /\ ots' \in Seq(OtType) /\ Len(ots') <= MaxOrders /\ reg' \in BOOLEAN
        /\ rtns' \in Seq(RtnType)
    BY <1>1, <2>1 DEF TypeInv, GetRtnDoes
  <2> QED
    BY <1>1, <2>1, <2>2 DEF TypeInv, GetRtnDoes
<1> QED
  BY <1>3, <1>4, <1>5

(* A track after the answer to a query, and an order of the counter after  *)
(* a trade                                                                 *)
LEMMA QueryIs ==
  ASSUME NEW t \in TrackType, NEW r, NEW o
  PROVE  FromQuery(t, r, o)
           = TrackRec(StatusOf(o), o.vol, o.filled, t.local, r, 1)
<1>1. WithAnswer(t, o.vol, o.filled, Token(r), 1, StatusOf(o))
        = TrackRec(StatusOf(o), o.vol, o.filled, t.local, Token(r), 1)
  BY WithAnswerRec
<1>2. FromQuery(t, r, o) = WithAnswer(t, o.vol, o.filled, Token(r), 1, StatusOf(o))
  BY Zenon DEF FromQuery, WithAnswer
<1> QED
  BY <1>1, <1>2 DEF Token

LEMMA TradedOrder ==
  ASSUME NEW r \in Refs, Trade(r), srv \in [Refs -> SrvType]
  PROVE  /\ srv' \in [Refs -> SrvType]
         /\ \A q \in Refs \ {r} : srv'[q] = srv[q]
         /\ srv[r].st = "live" /\ srv'[r].vol = srv[r].vol
         /\ srv'[r].filled = srv[r].filled + 1
         /\ srv'[r].st = IF srv[r].filled + 1 = srv[r].vol THEN "filled" ELSE "live"
<1>1. PICK n, s : /\ n = srv[r].filled + 1
                  /\ s = IF n = srv[r].vol THEN "filled" ELSE "live"
  OBVIOUS
<1>2. srv' = [srv EXCEPT ![r].filled = n, ![r].st = s] /\ srv[r].st = "live"
  BY <1>1, Zenon DEF Trade
<1>3. n \in Nat /\ s \in {"live", "filled"}
  BY <1>1 DEF SrvType
<1>4. PICK f : f = [srv EXCEPT ![r].filled = n]
  OBVIOUS
<1>5. /\ f \in [Refs -> SrvType] /\ f[r].filled = n /\ f[r].vol = srv[r].vol
      /\ \A q \in Refs \ {r} : f[q] = srv[q]
  BY <1>3, <1>4 DEF SrvType
<1>6. srv' = [f EXCEPT ![r].st = s]
  BY <1>2, <1>4, Zenon
<1>7. /\ srv' \in [Refs -> SrvType] /\ srv'[r].filled = f[r].filled
      /\ srv'[r].vol = f[r].vol /\ srv'[r].st = s
      /\ \A q \in Refs \ {r} : srv'[q] = f[q]
  BY <1>3, <1>5, <1>6 DEF SrvType, Done
<1> QED
  BY <1>1, <1>2, <1>5, <1>7

(* ... the engine's, ... *)
LEMMA TypeEngine ==
  ASSUME BaseInv, Commands \/ EngineDies \/ Logon \/ Listening
  PROVE  TypeInv'
<1>1. TypeInv /\ EntryInv /\ MaxOrders \in Nat /\ EESAssumption
  BY EESAssumption DEF BaseInv
<1>2. PICK n \in 0 .. MaxOrders : Entered(n)
  BY <1>1 DEF EntryInv
<1>3. /\ reqId \in 1 .. MaxOrders + 1 /\ Len(ots) <= MaxOrders /\ Len(ots) \in Nat
      /\ DOMAIN ots = 1 .. Len(ots)
  BY <1>1 DEF TypeInv
<1>4. ASSUME NEW kind, NextCmd(kind), ErrRtn(Head(cmds))
      PROVE  rtns' \in Seq(RtnType) /\ cmds' \in Seq(CmdType)
  BY <1>1, <1>4, FirstCommand, RefusalExists, RtnTyped DEF Refusal
<1>5. CASE RefuseOrder \/ RefuseCancel
  <2>1. rtns' \in Seq(RtnType) /\ cmds' \in Seq(CmdType)
    BY <1>4, <1>5 DEF RefuseOrder, RefuseCancel
  <2> QED
    BY <1>1, <1>5, <2>1 DEF RefuseOrder, RefuseCancel, TypeInv, hvars, evars, svars
<1>6. CASE EnterOrder
  <2>1. NextCmd("insert")
    BY <1>6 DEF EnterOrder
  <2>2. /\ up = "up" /\ ecmd = None /\ cmds' \in Seq(CmdType) /\ 1 \in DOMAIN cmds
        /\ Head(cmds) = cmds[1] /\ cmds[1] \in CmdType /\ cmds[1].cmd = "insert"
    BY <1>1, <2>1, FirstCommand
  <2>3. ecmd' = cmds[1] /\ cmds[1] \in [cmd: {"insert"}, local: Locals]
    <3>1. ecmd' = cmds[1]
      BY <1>6, <2>2 DEF EnterOrder
    <3>2. cmds[1] \in [cmd: {"insert"}, local: Locals]
      BY <2>2 DEF CmdType
    <3> QED
      BY <3>1, <3>2
  <2>4. reqId \in Refs
    <3>1. reqId = n + 1 /\ n < cmds[1].local /\ cmds[1].local <= Len(ots)
      BY <1>2, <2>2 DEF Entered, Queued
    <3>2. cmds[1].local \in Locals
      BY <2>3
    <3> QED
      BY <1>1, <1>3, <3>1, <3>2 DEF Refs, Locals
  <2>5. PICK o : o = [st |-> "sent", vol |-> Vol[cmds[1].local], filled |-> 0]
    OBVIOUS
  <2>6. o \in SrvType
    <3>1. cmds[1].local \in Locals
      BY <2>3
    <3> QED
      BY <1>1, <2>5, <3>1 DEF EESAssumption, SrvType, Locals
  <2>7. srv' = [srv EXCEPT ![reqId] = o]
    BY <1>6, <2>3, <2>5 DEF EnterOrder
  <2>8. srv' \in [Refs -> SrvType]
    BY <1>1, <2>6, <2>7 DEF TypeInv
  <2> QED
    BY <1>1, <1>6, <2>2, <2>3, <2>8 DEF TypeInv, EnterOrder, hvars
<1>7. CASE FillTrack
  <2>1. ecmd # None /\ ecmd \in [cmd: {"insert"}, local: Locals]
    BY <1>1, <1>7 DEF FillTrack, TypeInv
  <2>2. reqId \in Refs /\ reqId' = reqId + 1
    BY <1>2, <1>3, <1>7, <2>1 DEF Entered, Refs, FillTrack
  <2>3. Vol[ecmd.local] \in Nat /\ ecmd.local \in Locals
    BY <1>1, <2>1 DEF EESAssumption, Locals
  <2>4. PICK t : t = [st |-> {"TDSEND"}, vol |-> Vol[ecmd.local], traded |-> 0,
                      local |-> ecmd.local, tok |-> 0, sess |-> 0]
    OBVIOUS
  <2>5. t \in TrackType
    BY <1>1, <2>3, <2>4 DEF TrackType, AllBits, Locals
  <2>6. track' = [track EXCEPT ![reqId] = t] /\ RtnFromTrack(reqId, t, "TDSEND", t.vol)
    BY <1>7, <2>4 DEF FillTrack
  <2>7. PICK m : m = [type |-> "TDSEND", local |-> t.local, ref |-> reqId,
                      tok |-> t.tok, vol |-> t.vol]
    OBVIOUS
  <2>8. m \in RtnType
    BY <1>1, <2>2, <2>3, <2>4, <2>7 DEF RtnType, AllBits, Toks, Locals
  <2>9. rtns' = rtns \/ rtns' = Append(rtns, m)
    BY <2>6, <2>7 DEF RtnFromTrack
  <2>10. rtns' \in Seq(RtnType)
    BY <1>1, <2>8, <2>9, RtnTyped DEF TypeInv
  <2>11. track' \in [Refs -> TrackType] /\ reqId' \in 1 .. MaxOrders + 1
    BY <1>1, <2>2, <2>5, <2>6 DEF TypeInv, Refs
  <2> QED
    BY <1>1, <1>7, <2>10, <2>11 DEF TypeInv, FillTrack, hvars, svars
<1>8. CASE CancelOrder
  <2>1. NextCmd("cancel")
    BY <1>8 DEF CancelOrder
  <2>2. /\ cmds' \in Seq(CmdType) /\ Head(cmds) = cmds[1] /\ cmds[1] \in CmdType
        /\ cmds[1].cmd = "cancel"
    BY <1>1, <2>1, FirstCommand
  <2>3. cmds[1].ref \in Refs /\ cmds[1].tok \in Toks
    BY <2>2 DEF CmdType
  <2>4. /\ creq' = Append(creq, cmds[1].tok)
        /\ track' = [track EXCEPT ![cmds[1].ref].st = @ \cup {"CXLING"}]
    BY <1>8, <2>2 DEF CancelOrder
  <2>5. creq' \in Seq(Toks)
    BY <1>1, <2>3, <2>4 DEF TypeInv
  <2>6. track' = [track EXCEPT ![cmds[1].ref] = WithBits(@, {"CXLING"})]
    BY <2>4 DEF WithBits
  <2>7. WithBits(track[cmds[1].ref], {"CXLING"}) \in TrackType
    <3>1. track[cmds[1].ref] \in TrackType
      BY <1>1, <2>3 DEF TypeInv
    <3> QED
      BY <3>1, WithBitsRec DEF TrackRec, TrackType, AllBits
  <2>8. track' \in [Refs -> TrackType]
    BY <1>1, <2>6, <2>7 DEF TypeInv
  <2> QED
    BY <1>1, <1>8, <2>2, <2>5, <2>8 DEF TypeInv, CancelOrder, hvars, svars
<1>9. CASE EngineDies
  <2>1. cmds' \in Seq(CmdType) /\ evq' \in Seq(EventType)
    BY <1>9 DEF EngineDies
  <2>2. seen' \in [Refs -> SUBSET Nat] /\ deaths' \in Nat
    BY <1>1, <1>9 DEF EngineDies, TypeInv
  <2> QED
    BY <1>1, <1>9, <2>1, <2>2 DEF TypeInv, EngineDies, hvars, svars
<1>10. CASE Logon
  BY <1>1, <1>10 DEF TypeInv, Logon, hvars, svars
<1>11. CASE Listening
  <2>1. reqId' = n + 1
    BY <1>1, <1>2, <1>11, EnteredCount DEF Listening
  <2>2. ASSUME NEW r \in Refs
        PROVE  FromQuery(track[r], r, snap[r]) \in TrackType
    <3>1. track[r] \in TrackType /\ snap[r] \in SrvType
      BY <1>1 DEF TypeInv
    <3>2. StatusOf(snap[r]) \subseteq AllBits
      BY DEF StatusOf, AllBits, Bits
    <3>3. FromQuery(track[r], r, snap[r])
            = TrackRec(StatusOf(snap[r]), snap[r].vol, snap[r].filled,
                       track[r].local, r, 1)
      BY <3>1, QueryIs
    <3> QED
      BY <1>1, <3>1, <3>2, <3>3 DEF TrackRec, TrackType, SrvType, Refs
  <2>3. track' \in [Refs -> TrackType]
    BY <1>1, <1>11, <2>2 DEF TypeInv, Listening
  <2>4. PICK m : m = [type |-> "START"]
    OBVIOUS
  <2>5. m \in RtnType /\ rtns' = Append(rtns, m)
    BY <1>11, <2>4 DEF RtnType, Listening
  <2>6. rtns' \in Seq(RtnType)
    BY <1>1, <2>5, RtnTyped
  <2>7. NoOrder \in SrvType
    BY DEF NoOrder, SrvType
  <2>8. snap' \in [Refs -> SrvType]
    BY <1>11, <2>7 DEF Listening
  <2> QED
    BY <1>1, <1>11, <2>1, <2>3, <2>6, <2>8 DEF TypeInv, Listening, hvars, svars
<1> QED
  BY <1>5, <1>6, <1>7, <1>8, <1>9, <1>10, <1>11 DEF Commands

(* ... the callbacks, ... *)
LEMMA TypeCallback ==
  ASSUME TypeInv, CallbackDoes
  PROVE  TypeInv'
<1>1. evq' \in Seq(EventType)
  BY TailFacts DEF CallbackDoes, TypeInv
<1>2. track' \in [Refs -> TrackType] /\ rtns' \in Seq(RtnType)
  <2>1. Silent \/ (\E r, type, v : Reports(r, type, v))
    BY DEF CallbackDoes, Handles
  <2>2. CASE Silent
    BY <2>2 DEF Silent, TypeInv
  <2>3. CASE \E r, type, v : Reports(r, type, v)
    <3>1. PICK r, type, v : Reports(r, type, v)
      BY <2>3
    <3>2. /\ track' \in [Refs -> TrackType]
          /\ rtns' = rtns \/ \E m \in RtnType : rtns' = Append(rtns, m)
      BY <3>1, ReportsEffect
    <3> QED
      BY <3>2, RtnTyped DEF TypeInv
  <2> QED
    BY <2>1, <2>2, <2>3
<1>3. seen' \in [Refs -> SUBSET Nat]
  <2>1. seen' = seen \/ (evq[1].kind = "EXECUTION"
                         /\ seen' = [seen EXCEPT ![evq[1].ref] = @ \cup {evq[1].id}])
    BY DEF CallbackDoes, Handles
  <2>2. evq[1].kind = "EXECUTION" => evq[1].id \in Nat
    BY FirstEvent DEF CallbackDoes
  <2>3. PICK q, x : q = evq[1].ref /\ x = evq[1].id
    OBVIOUS
  <2>4. seen' = seen \/ (x \in Nat /\ seen' = [seen EXCEPT ![q] = @ \cup {x}])
    BY <2>1, <2>2, <2>3
  <2>5. seen \in [Refs -> SUBSET Nat]
    BY DEF TypeInv
  <2> QED
    BY <2>4, <2>5
<1> QED
  BY <1>1, <1>2, <1>3 DEF CallbackDoes, TypeInv, hvars, svars

(* ... and the counter's. *)
LEMMA TypeCounter ==
  ASSUME TypeInv, Counter \/ Again \/ \E r \in Refs : Trade(r)
  PROVE  TypeInv'
<1>1. ASSUME NEW e \in EventType, Push(e)
      PROVE  evq' \in Seq(EventType) /\ raced' \in BOOLEAN
  BY <1>1 DEF Push, TypeInv
<1>2. ASSUME NEW r \in Refs, Judge(r)
      PROVE  TypeInv'
  <2>1. PICK s \in {<<"sent", "accepted", "ACCEPT">>, <<"sent", "rejected", "REJECT">>,
                    <<"accepted", "live", "MARKET_ACCEPT">>,
                    <<"accepted", "mrejected", "MARKET_REJECT">>} :
          /\ srv' = [srv EXCEPT ![r].st = s[2]]
          /\ Push([kind |-> s[3], ref |-> r])
    BY <1>2 DEF Judge
  <2>2. PICK e : e = [kind |-> s[3], ref |-> r]
    OBVIOUS
  <2>3. e \in EventType /\ Push(e)
    BY <2>1, <2>2 DEF EventType
  <2>4. s[2] \in {"none", "sent", "accepted", "live"} \cup Done
    BY DEF Done
  <2>5. srv' \in [Refs -> SrvType]
    BY <2>1, <2>4 DEF TypeInv, SrvType
  <2> QED
    BY <1>1, <1>2, <2>3, <2>5 DEF TypeInv, Judge, Push, hvars, evars
<1>3. ASSUME NEW r \in Refs, Trade(r)
      PROVE  TypeInv'
  <2>1. PICK e : e = [kind |-> "EXECUTION", ref |-> r, id |-> ntrade + 1]
    OBVIOUS
  <2>2. ntrade \in Nat /\ srv[r] \in SrvType /\ srv \in [Refs -> SrvType]
    BY DEF TypeInv
  <2>3. e \in EventType /\ Push(e)
    BY <1>3, <2>1, <2>2 DEF EventType, Trade
  <2>4. srv' \in [Refs -> SrvType]
    BY <1>3, <2>2, TradedOrder
  <2> QED
    BY <1>1, <1>3, <2>2, <2>3, <2>4 DEF TypeInv, Trade, Push, hvars, evars
<1>4. CASE Again
  <2>1. PICK k \in 1 .. Len(evq) : Push(evq[k])
    BY <1>4 DEF Again
  <2>2. evq[k] \in EventType
    BY DEF TypeInv
  <2> QED
    BY <1>1, <1>4, <2>1, <2>2 DEF TypeInv, Again, Push, hvars, evars
<1>5. CASE Cancel
  <2>1. /\ creq \in Seq(Toks) /\ creq' \in Seq(Toks) /\ Head(creq) \in Toks
    BY <1>5, TailFacts DEF Cancel, TypeInv
  <2>2. \E e \in EventType : Push(e)
    <3>1. CASE \E r \in Refs : Push([kind |-> "CANCELED", ref |-> r])
      BY <3>1 DEF EventType
    <3>2. CASE Push([kind |-> "CANCEL_REJECT", tok |-> Head(creq)])
      BY <2>1, <3>2 DEF EventType
    <3> QED
      BY <1>5, <3>1, <3>2 DEF Cancel
  <2>3. srv' \in [Refs -> SrvType]
    <3>1. srv' = srv \/ \E r \in Refs : srv' = [srv EXCEPT ![r].st = "cxled"]
      BY <1>5 DEF Cancel
    <3>2. srv \in [Refs -> SrvType]
      BY DEF TypeInv
    <3>3. ASSUME NEW r \in Refs, srv' = [srv EXCEPT ![r].st = "cxled"]
          PROVE  srv' \in [Refs -> SrvType]
      BY <3>2, <3>3 DEF SrvType, Done
    <3> QED
      BY <3>1, <3>2, <3>3
  <2> QED
    BY <1>1, <1>5, <2>1, <2>2, <2>3 DEF TypeInv, Cancel, Push, hvars, evars
<1> QED
  BY <1>2, <1>3, <1>4, <1>5 DEF Counter

(* Together *)
LEMMA TypeStep ==
  ASSUME BaseInv, [Next]_vars
  PROVE  TypeInv'
<1>1. TypeInv
  BY DEF BaseInv
<1>2. CASE UNCHANGED vars
  BY <1>1, <1>2 DEF TypeInv, vars, hvars, evars, svars
<1>3. CASE Callbacks
  BY <1>1, <1>3, CallbackEffect, TypeCallback
<1> QED
  BY <1>1, <1>2, <1>3, TypeHelper, TypeEngine, TypeCounter DEF Next

-----------------------------------------------------------------------------
(* What a step of the engine does: it refuses a command, ...               *)
RefuseDoes(c, m) ==
  /\ up = "up" /\ ecmd = None /\ cmds # <<>> /\ cmds' = Tail(cmds)
  /\ c = cmds[1] /\ c \in CmdType /\ 1 \in DOMAIN cmds
  /\ Refusal(c, m) /\ rtns' = Append(rtns, m)
  /\ UNCHANGED <<ver, ots, cancels, reg, up, reqId, ecmd, track, seen, deaths,
                 srv, ntrade, dups, evq, creq, snap, raced>>

LEMMA RefuseEffect ==
  ASSUME TypeInv, EESAssumption, RefuseOrder \/ RefuseCancel
  PROVE  \E m : RefuseDoes(cmds[1], m)
<1>1. PICK kind : NextCmd(kind) /\ ErrRtn(Head(cmds))
  BY DEF RefuseOrder, RefuseCancel
<1>2. /\ up = "up" /\ ecmd = None /\ cmds # <<>> /\ cmds' = Tail(cmds)
      /\ Head(cmds) = cmds[1] /\ cmds[1] \in CmdType /\ 1 \in DOMAIN cmds
  BY <1>1, FirstCommand
<1>3. PICK m : Refusal(cmds[1], m) /\ rtns' = Append(rtns, m)
  BY <1>1, <1>2, RefusalExists
<1> QED
  BY <1>2, <1>3 DEF RefuseDoes, RefuseOrder, RefuseCancel, hvars, evars, svars

(* ... sends an order, ... *)
EnterDoes(c) ==
  /\ up = "up" /\ ecmd = None /\ cmds # <<>> /\ cmds' = Tail(cmds)
  /\ c = cmds[1] /\ c.cmd = "insert" /\ c.local \in Locals /\ 1 \in DOMAIN cmds
  /\ ecmd' = c /\ c # None /\ reqId \in Refs
  /\ srv' \in [Refs -> SrvType] /\ srv[reqId].st = "none"
  /\ srv'[reqId].st = "sent" /\ srv'[reqId].vol = Vol[c.local]
  /\ srv'[reqId].filled = 0 /\ \A r \in Refs \ {reqId} : srv'[r] = srv[r]
  /\ UNCHANGED <<ver, ots, cancels, reg, rtns, up, reqId, track, seen, deaths,
                 ntrade, dups, evq, creq, snap, raced>>

LEMMA EnterEffect ==
  ASSUME BaseInv, EESAssumption, TypeInv', EnterOrder
  PROVE  EnterDoes(cmds[1])
<1>1. TypeInv /\ EntryInv /\ NextCmd("insert")
  BY DEF BaseInv, EnterOrder
<1>2. /\ up = "up" /\ ecmd = None /\ cmds # <<>> /\ cmds' = Tail(cmds)
      /\ Head(cmds) = cmds[1] /\ cmds[1] \in CmdType /\ cmds[1].cmd = "insert"
      /\ 1 \in DOMAIN cmds
  BY <1>1, FirstCommand
<1>3. cmds[1].local \in Locals
  BY <1>2 DEF CmdType
<1>4. PICK n \in 0 .. MaxOrders : Entered(n)
  BY <1>1 DEF EntryInv
<1>5. reqId = n + 1 /\ n < cmds[1].local
  BY <1>2, <1>4 DEF Entered, Queued
<1>6. reqId \in Refs /\ srv[reqId].st = "none"
  <2>1. n + 1 \in Refs
    BY <1>3, <1>5, EESAssumption DEF Locals, Refs
  <2>2. srv[n + 1].st # "none" => n + 1 <= n
    BY <1>4, <2>1 DEF Entered
  <2> QED
    BY <1>5, <2>1, <2>2
<1>7. ecmd' = cmds[1] /\ cmds[1] # None
  BY <1>2 DEF EnterOrder, None
<1>8. srv' = [srv EXCEPT ![reqId] = [st |-> "sent", vol |-> Vol[cmds[1].local],
                                     filled |-> 0]]
  BY <1>7 DEF EnterOrder
<1>9. srv' \in [Refs -> SrvType] /\ srv \in [Refs -> SrvType]
  BY <1>1 DEF TypeInv
<1>10. /\ srv'[reqId].st = "sent" /\ srv'[reqId].vol = Vol[cmds[1].local]
       /\ srv'[reqId].filled = 0 /\ \A r \in Refs \ {reqId} : srv'[r] = srv[r]
  BY <1>6, <1>8, <1>9
<1> QED
  BY <1>2, <1>3, <1>6, <1>7, <1>9, <1>10 DEF EnterDoes, EnterOrder, hvars

(* ... fills its track, ... *)
FillDoes(i, m) ==
  /\ ecmd # None /\ ecmd.local = i /\ i \in Locals /\ ecmd' = None
  /\ up = "up" /\ reqId \in Refs /\ reqId' = reqId + 1 /\ srv[reqId].st # "none"
  /\ track' \in [Refs -> TrackType] /\ Vol[i] \in Nat \ {0}
  /\ track'[reqId] = TrackRec({"TDSEND"}, Vol[i], 0, i, 0, 0)
  /\ \A r \in Refs \ {reqId} : track'[r] = track[r]
  /\ m \in RtnType /\ m.type = "TDSEND" /\ m.local = i /\ m.ref = reqId
  /\ m.tok = 0 /\ m.vol = Vol[i] /\ rtns' = Append(rtns, m)
  /\ UNCHANGED <<ver, ots, cancels, reg, cmds, up, seen, deaths, srv,
                 ntrade, dups, evq, creq, snap, raced>>

LEMMA FillEffect ==
  ASSUME BaseInv, EESAssumption, FillTrack
  PROVE  \E m : FillDoes(ecmd.local, m)
<1>1. TypeInv /\ EntryInv
  BY DEF BaseInv
<1>2. ecmd # None /\ ecmd.local \in Locals
  BY <1>1 DEF TypeInv, FillTrack
<1>3. PICK n \in 0 .. MaxOrders : Entered(n)
  BY <1>1 DEF EntryInv
<1>4. reqId \in Refs /\ up = "up" /\ srv[reqId].st # "none"
  <2>1. up = "up" /\ reqId = n /\ reqId \in 1 .. MaxOrders + 1
    BY <1>1, <1>2, <1>3 DEF Entered, TypeInv
  <2>2. reqId \in Refs
    BY <2>1, EESAssumption DEF Refs, EESAssumption
  <2> QED
    BY <1>3, <2>1, <2>2, EESAssumption DEF Entered, Refs, EESAssumption
<1>5. Vol[ecmd.local] \in Nat \ {0}
  BY <1>2 DEF EESAssumption, Locals
<1>6. PICK t : t = [st |-> {"TDSEND"}, vol |-> Vol[ecmd.local], traded |-> 0,
                    local |-> ecmd.local, tok |-> 0, sess |-> 0]
  OBVIOUS
<1>7. t \in TrackType /\ t = TrackRec({"TDSEND"}, Vol[ecmd.local], 0, ecmd.local, 0, 0)
  BY <1>2, <1>5, <1>6, EESAssumption DEF TrackType, TrackRec, AllBits, Locals, EESAssumption
<1>8. track' = [track EXCEPT ![reqId] = t] /\ RtnFromTrack(reqId, t, "TDSEND", t.vol)
  BY <1>6 DEF FillTrack
<1>9. /\ track' \in [Refs -> TrackType] /\ track'[reqId] = t
      /\ \A r \in Refs \ {reqId} : track'[r] = track[r]
  BY <1>1, <1>4, <1>7, <1>8 DEF TypeInv
<1>10. PICK m : m = [type |-> "TDSEND", local |-> t.local, ref |-> reqId,
                     tok |-> t.tok, vol |-> t.vol]
  OBVIOUS
<1>11. rtns' = Append(rtns, m)
  BY <1>2, <1>6, <1>8, <1>10 DEF RtnFromTrack, Locals
<1>12. m \in RtnType
  BY <1>2, <1>4, <1>5, <1>6, <1>10, EESAssumption DEF RtnType, AllBits, Toks, EESAssumption
<1>13. /\ m.type = "TDSEND" /\ m.local = ecmd.local /\ m.ref = reqId
       /\ m.tok = 0 /\ m.vol = Vol[ecmd.local]
  BY <1>6, <1>10
<1>14. UNCHANGED <<ver, ots, cancels, reg, cmds, up, seen, deaths, srv,
                   ntrade, dups, evq, creq, snap, raced>> /\ ecmd' = None
       /\ reqId' = reqId + 1
  BY DEF FillTrack, hvars, svars
<1> QED
  BY <1>2, <1>4, <1>5, <1>7, <1>9, <1>11, <1>12, <1>13, <1>14 DEF FillDoes

(* ... sends a cancel, ... *)
CancelDoes(c) ==
  /\ up = "up" /\ ecmd = None /\ cmds # <<>> /\ cmds' = Tail(cmds)
  /\ c = cmds[1] /\ c \in CmdType /\ c.cmd = "cancel" /\ 1 \in DOMAIN cmds
  /\ c.ref \in Refs /\ c.tok \in Toks /\ creq' = Append(creq, c.tok)
  /\ track[c.ref].sess = 1 /\ track' \in [Refs -> TrackType]
  /\ track[c.ref] \in TrackType
  /\ track'[c.ref] = WithBits(track[c.ref], {"CXLING"})
  /\ \A r \in Refs \ {c.ref} : track'[r] = track[r]
  /\ UNCHANGED <<ver, ots, cancels, reg, rtns, up, reqId, ecmd, seen, deaths,
                 srv, ntrade, dups, evq, snap, raced>>

LEMMA CancelEffect ==
  ASSUME TypeInv, TypeInv', CancelOrder
  PROVE  CancelDoes(cmds[1])
<1>1. NextCmd("cancel")
  BY DEF CancelOrder
<1>2. /\ up = "up" /\ ecmd = None /\ cmds # <<>> /\ cmds' = Tail(cmds)
      /\ Head(cmds) = cmds[1] /\ cmds[1] \in CmdType /\ cmds[1].cmd = "cancel"
      /\ 1 \in DOMAIN cmds
  BY <1>1, FirstCommand
<1>3. cmds[1].ref \in Refs /\ cmds[1].tok \in Toks
  BY <1>2 DEF CmdType
<1>4. /\ track[cmds[1].ref].sess # 0 /\ creq' = Append(creq, cmds[1].tok)
      /\ track' = [track EXCEPT ![cmds[1].ref].st = @ \cup {"CXLING"}]
  BY <1>2 DEF CancelOrder
<1>5. track' = [track EXCEPT ![cmds[1].ref] = WithBits(@, {"CXLING"})]
  BY <1>4 DEF WithBits
<1>6. track \in [Refs -> TrackType] /\ track' \in [Refs -> TrackType]
  BY DEF TypeInv
<1>7. track[cmds[1].ref] \in TrackType
  BY <1>3, <1>6
<1>8. track[cmds[1].ref].sess = 1
  BY <1>4, <1>7 DEF TrackType
<1>9. /\ track'[cmds[1].ref] = WithBits(track[cmds[1].ref], {"CXLING"})
      /\ \A r \in Refs \ {cmds[1].ref} : track'[r] = track[r]
  BY <1>3, <1>5, <1>6
<1>10. UNCHANGED <<ver, ots, cancels, reg, rtns, up, reqId, ecmd, seen, deaths,
                   srv, ntrade, dups, evq, snap, raced>>
  BY DEF CancelOrder, hvars, svars
<1> QED
  BY <1>2, <1>3, <1>4, <1>6, <1>7, <1>8, <1>9, <1>10 DEF CancelDoes

(* ... or has the answer to its query. *)
ListenDoes(m) ==
  /\ up = "query" /\ up' = "up" /\ ecmd = None
  /\ track' \in [Refs -> TrackType] /\ reqId' \in Nat
  /\ reqId' = 1 + Cardinality({r \in Refs : srv[r].st # "none"})
  /\ \A r \in Refs : track'[r] =
       IF snap[r].st = "none" THEN track[r]
       ELSE TrackRec(StatusOf(snap[r]), snap[r].vol, snap[r].filled,
                     track[r].local, r, 1)
  /\ m \in RtnType /\ m.type = "START" /\ rtns' = Append(rtns, m)
  /\ \A r \in Refs : snap'[r].st = "none"
  /\ UNCHANGED <<ver, ots, cancels, reg, cmds, ecmd, seen, deaths, srv, ntrade,
                 dups, evq, creq, raced>>

LEMMA ListenEffect ==
  ASSUME BaseInv, EESAssumption, TypeInv', Listening
  PROVE  \E m : ListenDoes(m)
<1>1. TypeInv /\ EntryInv
  BY DEF BaseInv
<1>2. up = "query" /\ up' = "up" /\ ecmd = None
  <2>1. PICK n \in 0 .. MaxOrders : Entered(n)
    BY <1>1 DEF EntryInv
  <2>2. up = "query" /\ up' = "up"
    BY DEF Listening
  <2>3. up # "up" => ecmd = None
    BY <2>1, Zenon DEF Entered
  <2> QED
    BY <2>2, <2>3
<1>3. track' \in [Refs -> TrackType] /\ track \in [Refs -> TrackType] /\ reqId' \in Nat
  <2>1. /\ track' \in [Refs -> TrackType] /\ track \in [Refs -> TrackType]
        /\ reqId' \in 1 .. MaxOrders + 1
    BY <1>1 DEF TypeInv
  <2> QED
    BY <2>1, EESAssumption DEF EESAssumption
<1>4. ASSUME NEW r \in Refs
      PROVE  track'[r] = IF snap[r].st = "none" THEN track[r]
                         ELSE TrackRec(StatusOf(snap[r]), snap[r].vol,
                                       snap[r].filled, track[r].local, r, 1)
  <2>1. track'[r] = IF snap[r].st = "none" THEN track[r]
                    ELSE FromQuery(track[r], r, snap[r])
    BY DEF Listening
  <2> QED
    BY <1>3, <2>1, QueryIs
<1>5. PICK m : m = [type |-> "START"]
  OBVIOUS
<1>6. m \in RtnType /\ m.type = "START" /\ rtns' = Append(rtns, m)
  BY <1>5 DEF RtnType, Listening
<1>7. \A r \in Refs : snap'[r].st = "none"
  BY DEF Listening, NoOrder
<1>8. /\ reqId' = 1 + Cardinality({r \in Refs : srv[r].st # "none"})
      /\ UNCHANGED <<ver, ots, cancels, reg, cmds, ecmd, seen, deaths, srv,
                     ntrade, dups, evq, creq, raced>>
  BY DEF Listening, hvars, svars
<1> QED
  BY <1>2, <1>3, <1>4, <1>6, <1>7, <1>8 DEF ListenDoes

-----------------------------------------------------------------------------
(* What the counter's steps leave alone, ... *)
LEMMA PushKeeps ==
  ASSUME Counter \/ Again \/ \E r \in Refs : Trade(r)
  PROVE  /\ UNCHANGED <<ver, ots, cancels, reg, cmds, rtns, up, reqId, ecmd, track,
                        seen, deaths, snap>>
         /\ up = "down" => evq' = evq
         /\ raced' = (raced \/ up = "query")
         /\ up = "up" => \E e : evq' = Append(evq, e)
<1>1. \E e : Push(e)
  BY DEF Counter, Judge, Cancel, Again, Trade
<1> QED
  BY <1>1 DEF Push, hvars, evars

(* ... and what they do to orders: they go on, and end for good. *)
Goes(old, new) ==
  \/ new = old
  \/ /\ old.st = "sent" /\ new.st \in {"accepted", "rejected"}
     /\ new.vol = old.vol /\ new.filled = old.filled
  \/ /\ old.st = "accepted" /\ new.st \in {"live", "mrejected"}
     /\ new.vol = old.vol /\ new.filled = old.filled
  \/ /\ old.st \in {"accepted", "live"} /\ new.st = "cxled"
     /\ new.vol = old.vol /\ new.filled = old.filled
  \/ /\ old.st = "live" /\ new.vol = old.vol /\ new.filled = old.filled + 1
     /\ new.st = IF new.filled = new.vol THEN "filled" ELSE "live"

LEMMA CounterOrders ==
  ASSUME TypeInv, Counter \/ Again \/ \E r \in Refs : Trade(r)
  PROVE  /\ \A r \in Refs : Goes(srv[r], srv'[r])
         /\ \A r \in Refs : srv'[r].st = "none" <=> srv[r].st = "none"
<1>1. srv \in [Refs -> SrvType]
  BY DEF TypeInv
<1>2. ASSUME NEW q \in Refs, Judge(q), NEW r \in Refs
      PROVE  Goes(srv[r], srv'[r])
  <2>1. PICK s \in {<<"sent", "accepted", "ACCEPT">>, <<"sent", "rejected", "REJECT">>,
                    <<"accepted", "live", "MARKET_ACCEPT">>,
                    <<"accepted", "mrejected", "MARKET_REJECT">>} :
          srv[q].st = s[1] /\ srv' = [srv EXCEPT ![q].st = s[2]]
    BY <1>2 DEF Judge
  <2> QED
    BY <1>1, <2>1 DEF Goes, SrvType
<1>3. ASSUME NEW q \in Refs, Trade(q), NEW r \in Refs
      PROVE  Goes(srv[r], srv'[r])
  <2>1. CASE r = q
    BY <1>1, <1>3, <2>1, TradedOrder DEF Goes
  <2>2. CASE r # q
    BY <1>1, <1>3, <2>2, TradedOrder DEF Goes
  <2> QED
    BY <2>1, <2>2
<1>4. ASSUME Cancel, NEW r \in Refs
      PROVE  Goes(srv[r], srv'[r])
  <2>1. \/ srv' = srv
        \/ \E q \in Refs : /\ srv[q].st \in {"accepted", "live"}
                           /\ srv' = [srv EXCEPT ![q].st = "cxled"]
    BY <1>4 DEF Cancel
  <2>2. ASSUME NEW q \in Refs, srv[q].st \in {"accepted", "live"},
               srv' = [srv EXCEPT ![q].st = "cxled"]
        PROVE  Goes(srv[r], srv'[r])
    BY <1>1, <2>2 DEF Goes, SrvType
  <2> QED
    BY <2>1, <2>2 DEF Goes
<1>5. Again => srv' = srv
  BY DEF Again
<1>6. \A r \in Refs : Goes(srv[r], srv'[r])
  BY <1>2, <1>3, <1>4, <1>5 DEF Goes, Counter
<1>7. ASSUME NEW r \in Refs
      PROVE  srv'[r].st = "none" <=> srv[r].st = "none"
  <2>1. Goes(srv[r], srv'[r])
    BY <1>6
  <2> QED
    BY <2>1 DEF Goes
<1> QED
  BY <1>6, <1>7

-----------------------------------------------------------------------------
(* What the counter does: it judges an order, trades it, reports a trade   *)
(* again, cancels an order or refuses to.                                  *)
Judged(e) ==
  /\ <<srv[e.ref].st, srv'[e.ref].st, e.kind>> \in
       {<<"sent", "accepted", "ACCEPT">>, <<"sent", "rejected", "REJECT">>,
        <<"accepted", "live", "MARKET_ACCEPT">>,
        <<"accepted", "mrejected", "MARKET_REJECT">>}
  /\ srv'[e.ref].vol = srv[e.ref].vol /\ srv'[e.ref].filled = srv[e.ref].filled
  /\ creq' = creq /\ ntrade' = ntrade
Traded(e) ==
  /\ e.kind = "EXECUTION" /\ e.id = ntrade + 1
  /\ srv[e.ref].st = "live" /\ srv'[e.ref].vol = srv[e.ref].vol
  /\ srv'[e.ref].filled = srv[e.ref].filled + 1
  /\ srv'[e.ref].st = IF srv'[e.ref].filled = srv[e.ref].vol THEN "filled" ELSE "live"
  /\ creq' = creq /\ ntrade' = ntrade + 1
Canceled(e) ==
  /\ e.kind = "CANCELED" /\ creq # <<>> /\ creq' = Tail(creq) /\ e.ref = creq[1]
  /\ srv[e.ref].st \in {"accepted", "live"} /\ srv'[e.ref].st = "cxled"
  /\ srv'[e.ref].vol = srv[e.ref].vol /\ srv'[e.ref].filled = srv[e.ref].filled
  /\ ntrade' = ntrade
Pushes(e) ==
  /\ e \in EventType /\ srv' \in [Refs -> SrvType]
  /\ evq' = IF up = "down" THEN evq ELSE Append(evq, e)
  /\ \/ /\ Judged(e) \/ Traded(e) \/ Canceled(e)
        /\ e.ref \in Refs /\ \A r \in Refs \ {e.ref} : srv'[r] = srv[r]
     \/ /\ e.kind = "EXECUTION" /\ \E k \in DOMAIN evq : e = evq[k]
        /\ srv' = srv /\ creq' = creq /\ ntrade' = ntrade
     \/ /\ e.kind = "CANCEL_REJECT" /\ creq # <<>> /\ creq' = Tail(creq)
        /\ e.tok = creq[1] /\ srv' = srv /\ ntrade' = ntrade
CounterDoes ==
  /\ UNCHANGED <<ver, ots, cancels, reg, cmds, rtns, up, reqId, ecmd, track,
                 seen, deaths, snap>>
  /\ raced' = (raced \/ up = "query")
  /\ \E e : Pushes(e)

LEMMA CounterEffect ==
  ASSUME TypeInv, TypeInv', Counter \/ Again \/ \E r \in Refs : Trade(r)
  PROVE  CounterDoes
<1>1. /\ UNCHANGED <<ver, ots, cancels, reg, cmds, rtns, up, reqId, ecmd, track,
                     seen, deaths, snap>>
      /\ raced' = (raced \/ up = "query")
  BY PushKeeps
<1>2. srv \in [Refs -> SrvType] /\ srv' \in [Refs -> SrvType] /\ ntrade \in Nat
      /\ evq \in Seq(EventType)
  BY DEF TypeInv
<1>3. SUFFICES \E e : Pushes(e)
  BY <1>1 DEF CounterDoes
<1>4. CASE \E r \in Refs : Judge(r)
  <2>1. PICK r \in Refs : Judge(r)
    BY <1>4
  <2>2. PICK s \in {<<"sent", "accepted", "ACCEPT">>, <<"sent", "rejected", "REJECT">>,
                    <<"accepted", "live", "MARKET_ACCEPT">>,
                    <<"accepted", "mrejected", "MARKET_REJECT">>} :
          /\ srv[r].st = s[1] /\ srv' = [srv EXCEPT ![r].st = s[2]]
          /\ Push([kind |-> s[3], ref |-> r])
    BY <2>1 DEF Judge
  <2>3. PICK e : e = [kind |-> s[3], ref |-> r]
    OBVIOUS
  <2>4. e \in EventType /\ Push(e) /\ e.ref = r /\ e.kind = s[3]
    BY <2>2, <2>3 DEF EventType
  <2>5. /\ srv'[r].st = s[2] /\ srv'[r].vol = srv[r].vol
        /\ srv'[r].filled = srv[r].filled /\ \A q \in Refs \ {r} : srv'[q] = srv[q]
    BY <1>2, <2>2 DEF SrvType
  <2>6. <<srv[r].st, srv'[r].st, e.kind>> \in
          {<<"sent", "accepted", "ACCEPT">>, <<"sent", "rejected", "REJECT">>,
           <<"accepted", "live", "MARKET_ACCEPT">>,
           <<"accepted", "mrejected", "MARKET_REJECT">>}
    BY <2>2, <2>4, <2>5
  <2>7. Judged(e)
    BY <2>1, <2>4, <2>5, <2>6 DEF Judged, Judge
  <2> QED
    BY <1>2, <2>4, <2>5, <2>7 DEF Pushes, Push
<1>5. CASE \E r \in Refs : Trade(r)
  <2>1. PICK r \in Refs : Trade(r)
    BY <1>5
  <2>2. PICK e : e = [kind |-> "EXECUTION", ref |-> r, id |-> ntrade + 1]
    OBVIOUS
  <2>3. e \in EventType /\ Push(e) /\ e.ref = r
    BY <1>2, <2>1, <2>2 DEF EventType, Trade
  <2>4. Traded(e)
    <3>1. ntrade' = ntrade + 1 /\ creq' = creq
      BY <2>1, Zenon DEF Trade
    <3>2. e.kind = "EXECUTION" /\ e.id = ntrade + 1 /\ e.ref = r
      BY <2>2
    <3>3. /\ srv[r].st = "live" /\ srv'[r].vol = srv[r].vol
          /\ srv'[r].filled = srv[r].filled + 1
          /\ srv'[r].st = IF srv[r].filled + 1 = srv[r].vol THEN "filled" ELSE "live"
      BY <1>2, <2>1, TradedOrder
    <3> QED
      BY <3>1, <3>2, <3>3 DEF Traded
  <2> QED
    BY <1>2, <2>1, <2>3, <2>4, TradedOrder DEF Pushes, Push
<1>6. CASE Again
  <2>1. PICK k \in 1 .. Len(evq) : evq[k].kind = "EXECUTION" /\ Push(evq[k])
    BY <1>6 DEF Again
  <2>2. evq[k] \in EventType /\ k \in DOMAIN evq
    BY <1>2
  <2> QED
    BY <1>2, <1>6, <2>1, <2>2 DEF Pushes, Push, Again
<1>7. CASE Cancel
  <2>1. creq \in Seq(Toks) /\ creq # <<>> /\ creq' = Tail(creq) /\ ntrade' = ntrade
    BY <1>7 DEF Cancel, TypeInv
  <2>2. Head(creq) \in Toks /\ Head(creq) = creq[1]
    BY <2>1, TailFacts
  <2>3. CASE /\ creq[1] \in Refs /\ srv[creq[1]].st \in {"accepted", "live"}
             /\ srv' = [srv EXCEPT ![creq[1]].st = "cxled"]
             /\ Push([kind |-> "CANCELED", ref |-> creq[1]])
    <3>1. PICK r : r = creq[1]
      OBVIOUS
    <3>2. PICK e : e = [kind |-> "CANCELED", ref |-> r]
      OBVIOUS
    <3>3. e \in EventType /\ Push(e) /\ e.ref = r /\ e.kind = "CANCELED"
      BY <2>3, <3>1, <3>2 DEF EventType
    <3>4. /\ srv'[r].st = "cxled" /\ srv'[r].vol = srv[r].vol
          /\ srv'[r].filled = srv[r].filled /\ \A q \in Refs \ {r} : srv'[q] = srv[q]
      BY <1>2, <2>3, <3>1 DEF SrvType
    <3>5. Canceled(e)
      BY <2>1, <2>3, <3>1, <3>3, <3>4 DEF Canceled
    <3> QED
      BY <1>2, <2>3, <3>1, <3>3, <3>4, <3>5 DEF Pushes, Push
  <2>4. CASE srv' = srv /\ Push([kind |-> "CANCEL_REJECT", tok |-> creq[1]])
    <3>1. PICK e : e = [kind |-> "CANCEL_REJECT", tok |-> creq[1]]
      OBVIOUS
    <3>2. e \in EventType /\ Push(e) /\ e.tok = creq[1] /\ e.kind = "CANCEL_REJECT"
      BY <2>2, <2>4, <3>1 DEF EventType
    <3> QED
      BY <1>2, <2>1, <2>4, <3>2 DEF Pushes, Push
  <2> QED
    BY <1>7, <2>2, <2>3, <2>4 DEF Cancel
<1> QED
  BY <1>4, <1>5, <1>6, <1>7 DEF Counter

-----------------------------------------------------------------------------
(* Every step, by what it does *)
DiesDoes ==
  /\ up # "down" /\ up' = "down" /\ ecmd' = None /\ ~reg' /\ cmds' = <<>>
  /\ evq' = <<>> /\ \A r \in Refs : seen'[r] = {}
  /\ deaths' = deaths + 1
  /\ UNCHANGED <<ver, ots, cancels, rtns, reqId, track, srv, ntrade, dups, creq,
                 snap, raced>>
LogonDoes ==
  /\ up = "down" /\ up' = "query" /\ snap' = srv /\ creq = <<>>
  /\ \A r \in Refs : srv[r].st # "sent"
  /\ UNCHANGED <<ver, ots, cancels, reg, cmds, rtns, reqId, ecmd, track, seen,
                 deaths, srv, ntrade, dups, evq, creq, raced>>
Idle ==
  UNCHANGED <<ver, ots, cancels, reg, cmds, rtns, up, reqId, ecmd, track, seen,
              deaths, srv, ntrade, dups, evq, creq, snap, raced>>
StepDoes ==
  \/ SendDoes \/ GetRtnDoes(rtns[1]) \/ \E i \in DOMAIN ots : DeleteDoes(i)
  \/ \E m : RefuseDoes(cmds[1], m) \/ FillDoes(ecmd.local, m) \/ ListenDoes(m)
  \/ EnterDoes(cmds[1]) \/ CancelDoes(cmds[1]) \/ DiesDoes \/ LogonDoes
  \/ CallbackDoes \/ CounterDoes \/ Idle

LEMMA StepEffect ==
  ASSUME BaseInv, TypeInv', [Next]_vars
  PROVE  StepDoes
<1>1. TypeInv /\ NameInv /\ EESAssumption
  BY EESAssumption DEF BaseInv
<1>2. CASE UNCHANGED vars
  BY <1>2 DEF vars, hvars, evars, svars, StepDoes, Idle
<1>3. CASE SendOrder \/ GetRtn \/ \E i \in DOMAIN ots : DeleteOrder(i)
  BY <1>1, <1>3, SendEffect, GetRtnEffect, DeleteEffect DEF StepDoes
<1>4. CASE Commands
  <2>1. CASE RefuseOrder \/ RefuseCancel
    BY <1>1, <2>1, RefuseEffect DEF StepDoes
  <2>2. CASE EnterOrder
    BY <1>1, <2>2, EnterEffect DEF StepDoes
  <2>3. CASE FillTrack
    BY <1>1, <2>3, FillEffect DEF StepDoes
  <2>4. CASE CancelOrder
    BY <1>1, <2>4, CancelEffect DEF StepDoes
  <2> QED
    BY <1>4, <2>1, <2>2, <2>3, <2>4 DEF Commands
<1>5. CASE EngineDies
  BY <1>5 DEF EngineDies, DiesDoes, hvars, svars, StepDoes
<1>6. CASE Logon
  BY <1>6 DEF Logon, LogonDoes, hvars, svars, StepDoes
<1>7. CASE Listening
  BY <1>1, <1>7, ListenEffect DEF StepDoes
<1>8. CASE Callbacks
  BY <1>8, CallbackEffect DEF StepDoes
<1>9. CASE Counter \/ Again \/ \E r \in Refs : Trade(r)
  BY <1>1, <1>9, CounterEffect DEF StepDoes
<1> QED
  BY <1>2, <1>3, <1>4, <1>5, <1>6, <1>7, <1>8, <1>9 DEF Next

-----------------------------------------------------------------------------
(* The orders still to be inserted, when the first command is taken ...    *)
LEMMA QueuedTail ==
  ASSUME TypeInv, NEW n, Queued(n), cmds # <<>>, cmds' = Tail(cmds),
         ecmd' = ecmd, ots' = ots
  PROVE  Queued(n)'
<1>1. cmds \in Seq(CmdType)
  BY DEF TypeInv
<1>2. \A k \in DOMAIN cmds' : cmds'[k] = cmds[k + 1] /\ k + 1 \in DOMAIN cmds
  BY <1>1, TailFacts
<1>3. DOMAIN cmds' = 1 .. Len(cmds) - 1 /\ Len(cmds) \in Nat
  BY <1>1, TailFacts
<1>4. ASSUME NEW j \in DOMAIN cmds', NEW k \in DOMAIN cmds', j < k
      PROVE  j + 1 < k + 1
  BY <1>3, <1>4
<1>5. \A k \in DOMAIN cmds' : cmds'[k].cmd = "insert" =>
        /\ n < cmds'[k].local /\ cmds'[k].local <= Len(ots')
        /\ ecmd' # None => ecmd'.local < cmds'[k].local
  BY <1>2, Zenon DEF Queued
<1>6. ASSUME NEW j \in DOMAIN cmds', NEW k \in DOMAIN cmds', j < k,
             cmds'[j].cmd = "insert", cmds'[k].cmd = "insert"
      PROVE  cmds'[j].local < cmds'[k].local
  <2>1. j + 1 < k + 1
    BY <1>4, <1>6
  <2>2. j + 1 \in DOMAIN cmds /\ k + 1 \in DOMAIN cmds
        /\ cmds[j + 1] = cmds'[j] /\ cmds[k + 1] = cmds'[k]
    BY <1>2
  <2> QED
    BY <1>6, <2>1, <2>2, Zenon DEF Queued
<1> QED
  BY <1>5, <1>6, Zenon DEF Queued

(* ... and when another one is written. *)
LEMMA QueuedWrite ==
  ASSUME TypeInv, NEW n \in 0 .. MaxOrders, Queued(n), NEW c \in CmdType, Write(c),
         ecmd' = ecmd, ecmd # None => ecmd.local <= Len(ots),
         n <= Len(ots), Len(ots) \in Nat,
         \/ c.cmd = "cancel" /\ Len(ots') = Len(ots)
         \/ c.cmd = "insert" /\ c.local = Len(ots) + 1 /\ Len(ots') = Len(ots) + 1
  PROVE  Queued(n)'
<1>1. cmds \in Seq(CmdType)
  BY DEF TypeInv
<1>2. \A k \in DOMAIN cmds : cmds[k].cmd = "insert" =>
        cmds[k].local \in Nat /\ n < cmds[k].local /\ cmds[k].local <= Len(ots)
  <2>1. \A k \in DOMAIN cmds : cmds[k] \in CmdType
    BY <1>1
  <2>2. \A d \in CmdType : d.local \in Nat
    BY DEF CmdType, Locals
  <2> QED
    BY <2>1, <2>2 DEF Queued
<1>3. CASE cmds' = cmds
  BY <1>2, <1>3 DEF Queued
<1>4. CASE cmds' = Append(cmds, c)
  <2>1. /\ DOMAIN cmds' = 1 .. Len(cmds) + 1 /\ DOMAIN cmds = 1 .. Len(cmds)
        /\ Len(cmds) \in Nat /\ cmds'[Len(cmds) + 1] = c
        /\ \A k \in DOMAIN cmds : cmds'[k] = cmds[k]
    BY <1>1, <1>4, AppendFacts
  <2>2. ASSUME NEW k \in DOMAIN cmds', cmds'[k].cmd = "insert"
        PROVE  /\ n < cmds'[k].local /\ cmds'[k].local <= Len(ots')
               /\ ecmd # None => ecmd.local < cmds'[k].local
    <3>1. CASE k \in DOMAIN cmds
      BY <1>2, <2>1, <2>2, <3>1 DEF Queued
    <3>2. CASE k = Len(cmds) + 1
      <4>1. ecmd # None => ecmd.local \in Nat
        BY DEF TypeInv, Locals
      <4> QED
        BY <2>1, <2>2, <3>2, <4>1
    <3> QED
      BY <2>1, <3>1, <3>2
  <2>3. ASSUME NEW j \in DOMAIN cmds', NEW k \in DOMAIN cmds', j < k,
               cmds'[j].cmd = "insert", cmds'[k].cmd = "insert"
        PROVE  cmds'[j].local < cmds'[k].local
    <3>1. j \in DOMAIN cmds
      BY <2>1, <2>3
    <3>2. CASE k \in DOMAIN cmds
      BY <2>1, <2>3, <3>1, <3>2 DEF Queued
    <3>3. CASE k = Len(cmds) + 1
      BY <1>2, <2>1, <2>3, <3>1, <3>3
    <3> QED
      BY <2>1, <3>2, <3>3
  <2> QED
    BY <2>2, <2>3 DEF Queued
<1> QED
  BY <1>3, <1>4 DEF Write

(* The references are given out in the order of the local ids. *)
LEMMA EntryStep ==
  ASSUME BaseInv, TypeInv', [Next]_vars
  PROVE  EntryInv'
<1>1. TypeInv /\ OwnInv /\ MaxOrders \in Nat
  BY EESAssumption DEF BaseInv
<1>2. PICK n \in 0 .. MaxOrders : Entered(n)
  BY DEF BaseInv, EntryInv
<1>3. /\ reqId \in Nat /\ Len(ots) \in Nat /\ Len(ots) <= MaxOrders
      /\ DOMAIN ots = 1 .. Len(ots) /\ reqId \in 1 .. MaxOrders + 1
      /\ ecmd # None => ecmd.local \in Nat
  BY <1>1 DEF TypeInv, Locals
<1>4. CASE SendOrder
  <2>1. PICK c : c = [cmd |-> "insert", local |-> Len(ots) + 1]
    OBVIOUS
  <2>2. /\ Len(ots') = Len(ots) + 1 /\ Len(ots) < MaxOrders /\ Write(c)
        /\ UNCHANGED <<srv, up, reqId, ecmd, evq, reg>>
    BY <1>1, <1>4, <2>1 DEF SendOrder, evars, svars, TypeInv
  <2>3. c \in CmdType
    BY <1>1, <1>3, <2>1, <2>2 DEF CmdType, Locals
  <2>4. Queued(n)'
    BY <1>1, <1>2, <1>3, <2>1, <2>2, <2>3, QueuedWrite DEF Entered
  <2>5. up # "up" => cmds' = <<>>
    BY <1>2, <2>2 DEF Entered, Write
  <2>6. Entered(n)'
    BY <1>2, <1>3, <2>2, <2>4, <2>5 DEF Entered
  <2> QED
    BY <2>6 DEF EntryInv
<1>5. CASE \E i \in DOMAIN ots : DeleteOrder(i)
  <2>1. PICK i \in DOMAIN ots : DeleteOrder(i)
    BY <1>5
  <2>2. PICK c : c = [cmd |-> "cancel", local |-> i, ref |-> ots[i].ref,
                      tok |-> ots[i].tok]
    OBVIOUS
  <2>3. /\ Len(ots') = Len(ots) /\ Write(c)
        /\ UNCHANGED <<srv, up, reqId, ecmd, evq, reg>>
    BY <1>1, <2>1, <2>2 DEF DeleteOrder, evars, svars, TypeInv
  <2>4. c \in CmdType
    <3>1. ots[i] \in OtType
      BY <1>1 DEF TypeInv
    <3>2. ots[i].ref \in Refs \cup {-1} /\ ots[i].tok \in Toks
      BY <3>1 DEF OtType
    <3>3. ots[i].ref >= 0 /\ i \in Locals
      BY <1>1, <1>3, <2>1 DEF DeleteOrder, Locals
    <3> QED
      BY <2>2, <3>2, <3>3 DEF CmdType
  <2>5. Queued(n)'
    BY <1>1, <1>2, <1>3, <2>2, <2>3, <2>4, QueuedWrite DEF Entered
  <2>6. up # "up" => cmds' = <<>>
    BY <1>2, <2>3 DEF Entered, Write
  <2>7. Entered(n)'
    BY <1>2, <1>3, <2>3, <2>5, <2>6 DEF Entered
  <2> QED
    BY <2>7 DEF EntryInv
<1>6. CASE GetRtn
  <2>1. /\ Len(ots') = Len(ots) /\ reg' \in {reg, reg \/ up = "up"}
        /\ UNCHANGED <<srv, up, reqId, ecmd, evq, cmds>>
    <3>1. Len(ots') = Len(ots)
      BY <1>1, <1>6 DEF GetRtn, TypeInv
    <3> QED
      BY <1>6, <3>1 DEF GetRtn, evars, svars
  <2>2. Entered(n)'
    BY <1>2, <2>1 DEF Entered, Queued
  <2> QED
    BY <2>2 DEF EntryInv
<1>7. CASE RefuseOrder \/ RefuseCancel \/ CancelOrder
  <2>1. \E kind : NextCmd(kind)
    BY <1>7 DEF RefuseOrder, RefuseCancel, CancelOrder
  <2>2. up = "up" /\ ecmd = None /\ cmds # <<>> /\ cmds' = Tail(cmds)
    BY <1>1, <2>1, FirstCommand
  <2>3. UNCHANGED <<ots, srv, up, reqId, ecmd, evq, reg>>
    BY <1>7 DEF RefuseOrder, RefuseCancel, CancelOrder, hvars, evars, svars
  <2>4. Queued(n)'
    BY <1>1, <1>2, <2>2, <2>3, QueuedTail DEF Entered
  <2>5. Entered(n)'
    BY <1>2, <2>2, <2>3, <2>4 DEF Entered
  <2> QED
    BY <2>5 DEF EntryInv
<1>8. CASE EnterOrder
  <2>1. NextCmd("insert")
    BY <1>8 DEF EnterOrder
  <2>2. /\ up = "up" /\ ecmd = None /\ cmds # <<>> /\ cmds' = Tail(cmds)
        /\ Head(cmds) = cmds[1] /\ cmds[1] \in CmdType /\ cmds[1].cmd = "insert"
        /\ 1 \in DOMAIN cmds /\ cmds \in Seq(CmdType)
    BY <1>1, <2>1, FirstCommand
  <2>3. /\ ecmd' = cmds[1] /\ UNCHANGED <<ots, up, reqId, evq, reg>>
        /\ srv' = [srv EXCEPT ![reqId] = [st |-> "sent", vol |-> Vol[ecmd'.local],
                                          filled |-> 0]]
    BY <1>8, <2>2 DEF EnterOrder, hvars
  <2>4. n < cmds[1].local /\ cmds[1].local <= Len(ots) /\ cmds[1].local \in Nat
    <3>1. cmds[1].local \in Nat
      BY <2>2 DEF CmdType, Locals
    <3> QED
      BY <1>2, <2>2, <3>1 DEF Entered, Queued
  <2>5. reqId = n + 1 /\ n + 1 \in 0 .. MaxOrders
    BY <1>1, <1>2, <1>3, <2>2, <2>4 DEF Entered
  <2>6. ecmd' # None
    BY <2>2, <2>3 DEF None
  <2>7. \A r \in Refs : srv'[r].st # "none" <=> r <= n + 1
    <3>1. \A r \in Refs : srv'[r].st # "none" <=> (r = reqId \/ srv[r].st # "none")
      BY <1>1, <2>3 DEF TypeInv
    <3> QED
      BY <1>1, <1>2, <2>5, <3>1 DEF Entered, Refs
  <2>8. Queued(n + 1)'
    <3>1. \A k \in DOMAIN cmds' : cmds'[k] = cmds[k + 1] /\ k + 1 \in DOMAIN cmds
      BY <2>2, TailFacts
    <3>2. DOMAIN cmds' = 1 .. Len(cmds) - 1 /\ Len(cmds) \in Nat
      BY <2>2, TailFacts
    <3>3. ASSUME NEW k \in DOMAIN cmds', cmds'[k].cmd = "insert"
          PROVE  /\ n + 1 < cmds'[k].local /\ cmds'[k].local <= Len(ots)
                 /\ cmds[1].local < cmds'[k].local
      <4>1. cmds[k + 1] \in CmdType /\ 1 < k + 1
        BY <2>2, <3>1, <3>2
      <4>2. cmds[k + 1].local \in Nat
        BY <4>1 DEF CmdType, Locals
      <4>3. cmds[1].local < cmds[k + 1].local /\ cmds[k + 1].local <= Len(ots)
        BY <1>2, <2>2, <3>1, <3>3, <4>1 DEF Entered, Queued
      <4> QED
        BY <2>4, <3>1, <4>2, <4>3
    <3>4. ASSUME NEW j \in DOMAIN cmds', NEW k \in DOMAIN cmds', j < k
          PROVE  j + 1 < k + 1
      BY <3>2, <3>4
    <3> QED
      BY <1>2, <2>3, <3>1, <3>3, <3>4, Zenon DEF Entered, Queued
  <2>9. Entered(n + 1)'
    BY <1>3, <2>2, <2>3, <2>4, <2>5, <2>6, <2>7, <2>8 DEF Entered
  <2> QED
    BY <2>5, <2>9 DEF EntryInv
<1>9. CASE FillTrack
  <2>1. /\ ecmd # None /\ ecmd' = None /\ reqId' = reqId + 1
        /\ UNCHANGED <<ots, srv, up, evq, reg, cmds>>
    BY <1>9 DEF FillTrack, hvars, svars
  <2>2. Entered(n)'
    BY <1>2, <2>1 DEF Entered, Queued
  <2> QED
    BY <2>2 DEF EntryInv
<1>10. CASE EngineDies
  <2>1. /\ up' = "down" /\ ecmd' = None /\ ~reg' /\ cmds' = <<>> /\ evq' = <<>>
        /\ UNCHANGED <<ots, srv, reqId>>
    BY <1>10 DEF EngineDies, hvars, svars
  <2>2. Entered(n)'
    <3>1. DOMAIN cmds' = {}
      BY <2>1
    <3>2. reqId <= n + 1
      BY <1>2, <1>3 DEF Entered, TypeInv
    <3> QED
      BY <1>2, <2>1, <3>1, <3>2 DEF Entered, Queued
  <2> QED
    BY <2>2 DEF EntryInv
<1>11. CASE Logon
  <2>1. up = "down" /\ up' = "query" /\ UNCHANGED <<ots, srv, reqId, ecmd, evq, reg, cmds>>
    BY <1>11 DEF Logon, hvars, svars
  <2>2. Entered(n)'
    BY <1>2, <2>1 DEF Entered, Queued
  <2> QED
    BY <2>2 DEF EntryInv
<1>12. CASE Listening
  <2>1. /\ up = "query" /\ up' = "up" /\ UNCHANGED <<ots, srv, ecmd, evq, reg, cmds>>
        /\ reqId' = n + 1
    BY <1>2, <1>12, EnteredCount, EESAssumption DEF Listening, hvars, svars
  <2>2. Entered(n)'
    BY <1>2, <2>1 DEF Entered, Queued
  <2> QED
    BY <2>2 DEF EntryInv
<1>13. CASE Callbacks
  <2>1. up # "down" /\ UNCHANGED <<ots, srv, up, reqId, ecmd, reg, cmds>>
    BY <1>13, CallbackEffect DEF CallbackDoes, hvars, svars
  <2>2. Entered(n)'
    BY <1>2, <2>1 DEF Entered, Queued
  <2> QED
    BY <2>2 DEF EntryInv
<1>14. CASE Counter \/ Again \/ \E r \in Refs : Trade(r)
  <2>1. /\ UNCHANGED <<ots, up, reqId, ecmd, reg, cmds>>
        /\ up = "down" => evq' = evq
    BY <1>14, PushKeeps
  <2>2. \A r \in Refs : srv'[r].st = "none" <=> srv[r].st = "none"
    BY <1>1, <1>14, CounterOrders
  <2>3. Entered(n)'
    BY <1>2, <2>1, <2>2 DEF Entered, Queued
  <2> QED
    BY <2>3 DEF EntryInv
<1>15. CASE UNCHANGED vars
  BY <1>2, <1>15 DEF vars, hvars, evars, svars, EntryInv, Entered, Queued
<1> QED
  BY <1>4, <1>5, <1>6, <1>7, <1>8, <1>9, <1>10, <1>11, <1>12, <1>13, <1>14, <1>15
     DEF Next, Commands

-----------------------------------------------------------------------------
(* The commands still to come are old ones, or the one of a new order.     *)
Coming ==
  \A k \in DOMAIN cmds' : cmds'[k].cmd = "insert" =>
    (\E j \in DOMAIN cmds : cmds'[k] = cmds[j]) \/ cmds'[k].local = Len(ots) + 1

LEMMA ComingTail ==
  ASSUME TypeInv, cmds # <<>>, cmds' = Tail(cmds)
  PROVE  /\ Coming
         /\ \A k \in DOMAIN cmds' : \E j \in DOMAIN cmds : cmds'[k] = cmds[j] /\ 1 < j
<1>1. cmds \in Seq(CmdType)
  BY DEF TypeInv
<1>2. /\ \A k \in DOMAIN cmds' : cmds'[k] = cmds[k + 1] /\ k + 1 \in DOMAIN cmds
      /\ DOMAIN cmds' = 1 .. Len(cmds) - 1 /\ Len(cmds) \in Nat
  BY <1>1, TailFacts
<1>3. \A k \in DOMAIN cmds' : 1 < k + 1
  BY <1>2
<1> QED
  BY <1>2, <1>3 DEF Coming

LEMMA ComingWrite ==
  ASSUME TypeInv, NEW c \in CmdType, Write(c),
         c.cmd = "insert" => c.local = Len(ots) + 1
  PROVE  /\ Coming
         /\ \A k \in DOMAIN cmds' :
              (k \in DOMAIN cmds /\ cmds'[k] = cmds[k]) \/ cmds'[k] = c
<1>1. cmds \in Seq(CmdType)
  BY DEF TypeInv
<1>2. CASE cmds' = cmds
  BY <1>2 DEF Coming
<1>3. CASE cmds' = Append(cmds, c)
  <2>1. /\ DOMAIN cmds' = 1 .. Len(cmds) + 1 /\ DOMAIN cmds = 1 .. Len(cmds)
        /\ Len(cmds) \in Nat /\ cmds'[Len(cmds) + 1] = c
        /\ \A k \in DOMAIN cmds : cmds'[k] = cmds[k]
    BY <1>1, <1>3, AppendFacts
  <2>2. \A k \in DOMAIN cmds' : k \in DOMAIN cmds \/ k = Len(cmds) + 1
    BY <2>1
  <2> QED
    BY <2>1, <2>2 DEF Coming
<1> QED
  BY <1>2, <1>3 DEF Write

(* A step that enters no order *)
OwnSteady ==
  /\ \A r \in Refs :
       /\ srv'[r].st = "none" => srv[r].st = "none"
       /\ srv[r].st = "none" => snap'[r].st = "none"
       /\ track'[r].local = track[r].local
       /\ track'[r].tok = IF track'[r].sess = 1 THEN r ELSE 0
       /\ srv[r].st = "none" \/ (ecmd' # None /\ r = reqId) =>
            track'[r] = track[r] /\ seen'[r] \subseteq seen[r]
  /\ ecmd' = None \/ (ecmd' = ecmd /\ reqId' = reqId)
  /\ Len(ots) <= Len(ots')
  /\ Coming

LEMMA LocalTypes ==
  ASSUME BaseInv
  PROVE  /\ Len(ots) \in Nat /\ DOMAIN ots = 1 .. Len(ots)
         /\ \A r \in Refs : track[r].local \in Nat /\ track[r] \in TrackType
                            /\ track[r].local <= Len(ots)
         /\ ecmd # None => ecmd.local \in Nat /\ 0 < ecmd.local
                           /\ ecmd.local <= Len(ots)
         /\ \A k \in DOMAIN cmds : cmds[k] \in CmdType /\ cmds[k].local \in Nat
                                   /\ 0 < cmds[k].local
         /\ \A k \in DOMAIN cmds : cmds[k].cmd = "insert" => cmds[k].local <= Len(ots)
<1>1. TypeInv /\ OwnInv /\ MaxOrders \in Nat
  BY EESAssumption DEF BaseInv, EESAssumption
<1>2. PICK n \in 0 .. MaxOrders : Entered(n)
  BY DEF BaseInv, EntryInv
<1>3. Len(ots) \in Nat /\ DOMAIN ots = 1 .. Len(ots)
  BY <1>1 DEF TypeInv
<1>4. \A r \in Refs : track[r] \in TrackType
  BY <1>1 DEF TypeInv
<1>5. \A r \in Refs : track[r].local \in Nat /\ track[r].local <= Len(ots)
  BY <1>1, <1>4 DEF TrackType, OwnInv
<1>6. ecmd # None => ecmd.local \in Nat /\ 0 < ecmd.local /\ ecmd.local <= Len(ots)
  BY <1>1, <1>2 DEF TypeInv, Locals, Entered
<1>7. \A k \in DOMAIN cmds : cmds[k] \in CmdType
  BY <1>1 DEF TypeInv
<1>8. \A c \in CmdType : c.local \in Nat /\ 0 < c.local
  BY <1>1 DEF CmdType, Locals
<1> QED
  BY <1>2, <1>3, <1>4, <1>5, <1>6, <1>7, <1>8 DEF Entered, Queued

LEMMA OwnSteadyKeeps ==
  ASSUME BaseInv, TypeInv', OwnSteady
  PROVE  OwnInv'
<1>1. OwnInv
  BY DEF BaseInv
<1>2. /\ Len(ots) \in Nat /\ Len(ots') \in Nat
      /\ \A r \in Refs : track[r].local \in Nat /\ track[r].local <= Len(ots)
  BY LocalTypes DEF TypeInv
<1>3. ASSUME NEW i \in Locals, Pending(i)'
      PROVE  Pending(i) \/ i = Len(ots) + 1
  <2>1. CASE ecmd' # None /\ ecmd'.local = i
    BY <2>1 DEF OwnSteady, Pending
  <2>2. CASE \E k \in DOMAIN cmds' : cmds'[k].cmd = "insert" /\ cmds'[k].local = i
    BY <2>2 DEF OwnSteady, Coming, Pending
  <2> QED
    BY <1>3, <2>1, <2>2 DEF Pending
<1>4. ASSUME NEW r \in Refs
      PROVE  /\ srv'[r].st = "none" =>
                  track'[r] = NoTrack /\ seen'[r] = {} /\ snap'[r].st = "none"
             /\ ecmd' # None /\ r = reqId' => track'[r] = NoTrack /\ seen'[r] = {}
             /\ track'[r].local <= Len(ots')
             /\ track'[r].tok = IF track'[r].sess = 1 THEN r ELSE 0
  <2>1. srv'[r].st = "none" =>
          track'[r] = NoTrack /\ seen'[r] = {} /\ snap'[r].st = "none"
    BY <1>1 DEF OwnSteady, OwnInv
  <2>2. ecmd' # None /\ r = reqId' => track'[r] = NoTrack /\ seen'[r] = {}
    BY <1>1 DEF OwnSteady, OwnInv
  <2>3. track'[r].local <= Len(ots')
    BY <1>2 DEF OwnSteady
  <2> QED
    BY <2>1, <2>2, <2>3 DEF OwnSteady
<1>5. ASSUME NEW q \in Refs, NEW r \in Refs, track'[q].local = track'[r].local
      PROVE  q = r \/ track'[q].local = 0
  BY <1>1, <1>5 DEF OwnSteady, OwnInv
<1>6. ecmd' # None => \A r \in Refs : track'[r].local < ecmd'.local
  BY <1>1 DEF OwnSteady, OwnInv
<1>7. ASSUME NEW k \in DOMAIN cmds', cmds'[k].cmd = "insert", NEW r \in Refs
      PROVE  track'[r].local < cmds'[k].local
  <2>1. track'[r].local = track[r].local
    BY DEF OwnSteady
  <2>2. CASE \E j \in DOMAIN cmds : cmds'[k] = cmds[j]
    BY <1>1, <1>7, <2>1, <2>2 DEF OwnInv
  <2>3. CASE cmds'[k].local = Len(ots) + 1
    BY <1>2, <2>1, <2>3
  <2> QED
    BY <1>7, <2>2, <2>3 DEF OwnSteady, Coming
<1>8. ASSUME NEW i \in Locals, Pending(i)', NEW r \in Refs
      PROVE  track'[r].local # i
  <2>1. track'[r].local = track[r].local /\ track[r].local # Len(ots) + 1
    BY <1>2 DEF OwnSteady
  <2> QED
    BY <1>1, <1>3, <1>8, <2>1 DEF OwnInv
<1> QED
  BY <1>4, <1>5, <1>6, <1>7, <1>8, Zenon DEF OwnInv

(* A callback reports on an order that has a track. *)
LEMMA CallbackTracks ==
  ASSUME BaseInv, CallbackDoes
  PROVE  /\ \/ Silent
            \/ \E r, type, v : Reports(r, type, v) /\ srv[r].st # "none"
         /\ \A r \in Refs : srv[r].st = "none" => seen'[r] = seen[r]
<1> DEFINE e == evq[1]
<1>1. TypeInv /\ OwnInv /\ NameInv
  BY DEF BaseInv
<1>2. e.kind # "CANCEL_REJECT" => e.ref \in Refs /\ srv[e.ref].st # "none"
  <2>1. 1 \in DOMAIN evq /\ evq # <<>>
    BY <1>1, TailFacts DEF TypeInv, CallbackDoes
  <2> QED
    BY <1>1, <2>1, FirstEvent DEF NameInv, EvqNamed
<1>3. \A r \in Refs : track[r].sess = 1 => srv[r].st # "none"
  BY <1>1 DEF OwnInv, NoTrack
<1>4. Silent \/ \E r, type, v : Reports(r, type, v) /\ srv[r].st # "none"
  <2>1. Handles(e)
    BY DEF CallbackDoes
  <2>2. CASE e.kind # "CANCEL_REJECT"
    BY <1>2, <2>1, <2>2 DEF Handles
  <2>3. CASE e.kind = "CANCEL_REJECT"
    <3>1. Silent \/ (Reports(e.tok, "CANCEL_REJECT", 0) /\ track[e.tok].sess = 1)
      BY <2>1, <2>3 DEF Handles
    <3> QED
      BY <1>3, <3>1 DEF Reports
  <2> QED
    BY <2>2, <2>3
<1>5. ASSUME NEW r \in Refs, srv[r].st = "none"
      PROVE  seen'[r] = seen[r]
  <2>1. seen' = seen \/ (e.kind = "EXECUTION"
                         /\ seen' = [seen EXCEPT ![e.ref] = @ \cup {e.id}])
    BY DEF CallbackDoes, Handles
  <2>2. seen \in [Refs -> SUBSET Nat]
    BY <1>1 DEF TypeInv
  <2> QED
    BY <1>2, <1>5, <2>1, <2>2
<1> QED
  BY <1>4, <1>5

LEMMA OwnCallback ==
  ASSUME BaseInv, CallbackDoes
  PROVE  OwnSteady
<1>1. TypeInv /\ OwnInv
  BY DEF BaseInv
<1>2. /\ ecmd' = None /\ UNCHANGED <<ots, cmds, srv, snap>>
  BY DEF CallbackDoes, hvars, svars
<1>3. ASSUME NEW r \in Refs
      PROVE  /\ track'[r].local = track[r].local
             /\ track'[r].tok = IF track'[r].sess = 1 THEN r ELSE 0
             /\ srv[r].st = "none" => track'[r] = track[r]
  <2>1. CASE Silent
    BY <1>1, <2>1 DEF Silent, OwnInv
  <2>2. CASE \E q, type, v : Reports(q, type, v) /\ srv[q].st # "none"
    <3>1. PICK q, type, v : Reports(q, type, v) /\ srv[q].st # "none"
      BY <2>2
    <3>2. q \in Refs /\ \A p \in Refs \ {q} : track'[p] = track[p]
      BY <1>1, <3>1, ReportsEffect
    <3>3. CASE r = q
      BY <3>1, <3>3 DEF Reports, Advances
    <3>4. CASE r # q
      BY <1>1, <3>2, <3>4 DEF OwnInv
    <3> QED
      BY <3>3, <3>4
  <2> QED
    BY <2>1, <2>2, CallbackTracks
<1>4. Coming /\ Len(ots) <= Len(ots')
  BY <1>1, <1>2 DEF Coming, TypeInv
<1>5. \A r \in Refs : srv[r].st = "none" => seen'[r] = seen[r] /\ snap[r].st = "none"
  BY <1>1, CallbackTracks DEF OwnInv
<1> QED
  BY <1>2, <1>3, <1>4, <1>5 DEF OwnSteady

LEMMA OwnStep ==
  ASSUME BaseInv, TypeInv', StepDoes
  PROVE  OwnInv'
<1>1. TypeInv /\ OwnInv /\ EESAssumption
  BY EESAssumption DEF BaseInv
<1>2. /\ Len(ots) \in Nat /\ Len(ots) <= Len(ots) /\ DOMAIN ots = 1 .. Len(ots)
      /\ \A r \in Refs : track[r].local \in Nat
  BY LocalTypes
<1>3. Len(ots) <= Len(ots) + 1
  BY <1>2
<1>4. UNCHANGED cmds => Coming
  BY DEF Coming
<1>5. CASE SendDoes
  <2>1. Coming
    BY <1>1, <1>5, ComingWrite DEF SendDoes
  <2> QED
    BY <1>1, <1>3, <1>5, <2>1, OwnSteadyKeeps DEF SendDoes, OwnSteady, OwnInv
<1>6. CASE \E i \in DOMAIN ots : DeleteDoes(i)
  <2>1. PICK i \in DOMAIN ots : DeleteDoes(i)
    BY <1>6
  <2>2. Coming
    BY <1>1, <2>1, ComingWrite DEF DeleteDoes
  <2> QED
    BY <1>1, <1>2, <2>1, <2>2, OwnSteadyKeeps DEF DeleteDoes, OwnSteady, OwnInv
<1>7. CASE GetRtnDoes(rtns[1])
  <2>1. Len(ots') = Len(ots)
    BY <1>7 DEF GetRtnDoes
  <2> QED
    BY <1>1, <1>2, <1>4, <1>7, <2>1, OwnSteadyKeeps DEF GetRtnDoes, OwnSteady, OwnInv
<1>8. CASE \E m : RefuseDoes(cmds[1], m)
  <2>1. PICK m : RefuseDoes(cmds[1], m)
    BY <1>8
  <2>2. Coming
    BY <1>1, <2>1, ComingTail DEF RefuseDoes
  <2> QED
    BY <1>1, <1>2, <2>1, <2>2, OwnSteadyKeeps DEF RefuseDoes, OwnSteady, OwnInv
<1>9. CASE CancelDoes(cmds[1])
  <2>1. Coming
    BY <1>1, <1>9, ComingTail DEF CancelDoes
  <2>2. \A r \in Refs : srv[r].st = "none" => track[r].sess # 1
    BY <1>1 DEF OwnInv, NoTrack
  <2>3. PICK c : c = cmds[1]
    OBVIOUS
  <2>4. /\ ecmd' = None /\ UNCHANGED <<ots, srv, snap, seen>>
        /\ c.ref \in Refs /\ srv[c.ref].st # "none"
        /\ \A r \in Refs \ {c.ref} : track'[r] = track[r]
    BY <1>9, <2>2, <2>3 DEF CancelDoes
  <2>5. /\ track'[c.ref].local = track[c.ref].local
        /\ track'[c.ref].tok = track[c.ref].tok
        /\ track'[c.ref].sess = track[c.ref].sess
    BY <1>9, <2>3, WithBitsRec DEF CancelDoes, TrackRec
  <2> QED
    BY <1>1, <1>2, <2>1, <2>4, <2>5, OwnSteadyKeeps DEF OwnSteady, OwnInv
<1>10. CASE DiesDoes
  <2>1. Coming
    BY <1>10 DEF DiesDoes, Coming
  <2> QED
    BY <1>1, <1>2, <1>10, <2>1, OwnSteadyKeeps DEF DiesDoes, OwnSteady, OwnInv
<1>11. CASE LogonDoes
  BY <1>1, <1>2, <1>4, <1>11, OwnSteadyKeeps DEF LogonDoes, OwnSteady, OwnInv
<1>12. CASE \E m : ListenDoes(m)
  <2>1. PICK m : ListenDoes(m)
    BY <1>12
  <2>2. /\ ecmd' = None /\ UNCHANGED <<ots, cmds, srv, seen>>
        /\ \A r \in Refs : snap'[r].st = "none"
    BY <2>1 DEF ListenDoes
  <2>3. ASSUME NEW r \in Refs
        PROVE  /\ track'[r].local = track[r].local
               /\ track'[r].tok = IF track'[r].sess = 1 THEN r ELSE 0
               /\ srv[r].st = "none" => track'[r] = track[r]
    <3>1. CASE snap[r].st = "none"
      BY <1>1, <2>1, <3>1 DEF ListenDoes, OwnInv
    <3>2. CASE snap[r].st # "none"
      <4>1. track'[r] = TrackRec(StatusOf(snap[r]), snap[r].vol, snap[r].filled,
                                 track[r].local, r, 1)
        BY <2>1, <3>2 DEF ListenDoes
      <4> QED
        BY <1>1, <3>2, <4>1 DEF OwnInv, TrackRec
    <3> QED
      BY <3>1, <3>2
  <2> QED
    BY <1>2, <1>4, <2>2, <2>3, OwnSteadyKeeps DEF OwnSteady
<1>13. CASE CallbackDoes
  BY <1>13, OwnCallback, OwnSteadyKeeps
<1>14. CASE CounterDoes
  <2>1. /\ UNCHANGED <<ots, cmds, reqId, ecmd, track, seen, snap>>
        /\ \A r \in Refs : srv'[r].st = "none" => srv[r].st = "none"
    <3>1. PICK e : Pushes(e)
      BY <1>14 DEF CounterDoes
    <3>2. \A r \in Refs : srv'[r].st = "none" => srv[r].st = "none"
      BY <3>1 DEF Pushes, Judged, Traded, Canceled
    <3> QED
      BY <1>14, <3>2 DEF CounterDoes
  <2> QED
    BY <1>1, <1>2, <1>4, <2>1, OwnSteadyKeeps DEF OwnSteady, OwnInv
<1>15. CASE Idle
  BY <1>1, <1>2, <1>4, <1>15, OwnSteadyKeeps DEF Idle, OwnSteady, OwnInv
<1>16. CASE EnterDoes(cmds[1])
  <2>1. PICK c : c = cmds[1]
    OBVIOUS
  <2>2. /\ ecmd = None /\ cmds # <<>> /\ cmds' = Tail(cmds) /\ 1 \in DOMAIN cmds
        /\ c.cmd = "insert" /\ ecmd' = c /\ reqId \in Refs /\ srv[reqId].st = "none"
        /\ \A r \in Refs \ {reqId} : srv'[r] = srv[r]
        /\ srv'[reqId].st = "sent"
        /\ UNCHANGED <<ots, track, seen, snap, reqId>>
    BY <1>16, <2>1 DEF EnterDoes
  <2>3. \A k \in DOMAIN cmds' : \E j \in DOMAIN cmds : cmds'[k] = cmds[j] /\ 1 < j
    BY <1>1, <2>2, ComingTail
  <2>4. \A i \in Locals : Pending(i)' => Pending(i)
    BY <2>1, <2>2, <2>3 DEF Pending
  <2>5. \A r \in Refs : track[r].local < c.local
    BY <1>1, <2>1, <2>2 DEF OwnInv
  <2>6. \A k \in DOMAIN cmds' : cmds'[k].cmd = "insert" =>
          \A r \in Refs : track[r].local < cmds'[k].local
    BY <1>1, <2>3 DEF OwnInv
  <2>7. ASSUME NEW r \in Refs
        PROVE  /\ srv'[r].st = "none" =>
                    track[r] = NoTrack /\ seen[r] = {} /\ snap[r].st = "none"
               /\ r = reqId => track[r] = NoTrack /\ seen[r] = {}
               /\ track[r].local <= Len(ots)
               /\ track[r].tok = IF track[r].sess = 1 THEN r ELSE 0
    BY <1>1, <2>2 DEF OwnInv
  <2> QED
    BY <1>1, <2>2, <2>4, <2>5, <2>6, <2>7 DEF OwnInv
<1>17. CASE \E m : FillDoes(ecmd.local, m)
  <2>1. PICK m, i : FillDoes(i, m) /\ i = ecmd.local
    BY <1>17
  <2>2. PICK q : q = reqId
    OBVIOUS
  <2>3. /\ ecmd # None /\ ecmd' = None /\ q \in Refs /\ i \in Locals
        /\ srv[q].st # "none" /\ track'[q] = TrackRec({"TDSEND"}, Vol[i], 0, i, 0, 0)
        /\ \A r \in Refs \ {q} : track'[r] = track[r]
        /\ UNCHANGED <<ots, cmds, seen, srv, snap>>
    BY <2>1, <2>2 DEF FillDoes
  <2>4. track'[q].local = i /\ track'[q].tok = 0 /\ track'[q].sess = 0
    BY <2>3 DEF TrackRec
  <2>5. i <= Len(ots) /\ \A k \in DOMAIN cmds : cmds[k].cmd = "insert" => i < cmds[k].local
    <3>1. PICK n \in 0 .. MaxOrders : Entered(n)
      BY DEF BaseInv, EntryInv
    <3> QED
      BY <2>1, <2>3, <3>1 DEF Entered, Queued
  <2>6. \A j \in Locals : Pending(j)' => Pending(j) /\ j # i
    <3>1. ASSUME NEW j \in Locals, Pending(j)'
          PROVE  Pending(j) /\ j # i
      <4>1. PICK k \in DOMAIN cmds : cmds[k].cmd = "insert" /\ cmds[k].local = j
        BY <2>3, <3>1 DEF Pending
      <4>2. i < j
        BY <2>5, <4>1
      <4> QED
        BY <2>3, <4>1, <4>2 DEF Pending, Locals
    <3> QED
      BY <3>1
  <2>7. \A r \in Refs : track[r].local < i
    BY <1>1, <2>1, <2>3 DEF OwnInv
  <2>8. i # 0 /\ \A r \in Refs : track[r].local # i
    BY <1>2, <2>3, <2>7 DEF Locals
  <2>9. ASSUME NEW r \in Refs
        PROVE  /\ srv[r].st = "none" =>
                    track'[r] = NoTrack /\ seen[r] = {} /\ snap[r].st = "none"
               /\ track'[r].local <= Len(ots)
               /\ track'[r].tok = IF track'[r].sess = 1 THEN r ELSE 0
    BY <1>1, <2>3, <2>4, <2>5 DEF OwnInv
  <2>10. ASSUME NEW p \in Refs, NEW r \in Refs, track'[p].local = track'[r].local
         PROVE  p = r \/ track'[p].local = 0
    <3>1. CASE p = q \/ r = q
      BY <2>3, <2>4, <2>8, <2>10, <3>1
    <3>2. CASE p # q /\ r # q
      BY <1>1, <2>3, <2>10, <3>2 DEF OwnInv
    <3> QED
      BY <3>1, <3>2
  <2>11. ASSUME NEW j \in Locals, Pending(j)', NEW r \in Refs
         PROVE  track'[r].local # j
    <3>1. Pending(j) /\ j # i
      BY <2>6, <2>11
    <3> QED
      BY <1>1, <2>3, <2>4, <3>1 DEF OwnInv
  <2>12. ASSUME NEW k \in DOMAIN cmds, cmds[k].cmd = "insert", NEW r \in Refs
         PROVE  track'[r].local < cmds[k].local
    BY <1>1, <2>3, <2>4, <2>5, <2>12 DEF OwnInv
  <2> QED
    BY <2>3, <2>9, <2>10, <2>11, <2>12 DEF OwnInv
<1> QED
  BY <1>5, <1>6, <1>7, <1>8, <1>9, <1>10, <1>11, <1>12, <1>13, <1>14, <1>15,
     <1>16, <1>17 DEF StepDoes

-----------------------------------------------------------------------------
(* What a step keeps of the names: a track that has an order keeps it, and *)
(* what was asked for stays so.                                            *)
Kept ==
  /\ \A r \in Refs : track[r].local # 0 => track'[r].local = track[r].local
  /\ \A i \in Locals : Lost(i) /\ i <= Len(ots) => Lost(i)'
  /\ Len(ots) <= Len(ots')
  /\ \A i \in DOMAIN ots : i \in DOMAIN ots' /\ ots[i].asked \subseteq ots'[i].asked

LEMMA KeptAsked ==
  ASSUME BaseInv, Kept, NEW t \in Refs, AskedFor(t)
  PROVE  AskedFor(t)'
<1>1. track[t].local # 0 /\ t \in ots[track[t].local].asked
  BY DEF AskedFor, Token
<1>2. track[t].local \in DOMAIN ots
  BY <1>1, LocalTypes
<1>3. track'[t].local = track[t].local
  BY <1>1 DEF Kept
<1>4. t \in ots'[track[t].local].asked
  BY <1>1, <1>2 DEF Kept
<1> QED
  BY <1>1, <1>3, <1>4 DEF AskedFor, Token

LEMMA KeptStep ==
  ASSUME BaseInv, TypeInv', StepDoes
  PROVE  Kept
<1>1. TypeInv /\ OwnInv /\ EESAssumption
  BY EESAssumption DEF BaseInv
<1>2. /\ Len(ots) \in Nat /\ Len(ots) <= Len(ots) /\ DOMAIN ots = 1 .. Len(ots)
      /\ Len(ots) <= Len(ots) + 1
  BY LocalTypes
<1>3. /\ Len(ots) <= Len(ots')
      /\ \A i \in DOMAIN ots : i \in DOMAIN ots' /\ ots[i].asked \subseteq ots'[i].asked
  <2>1. CASE ots' = ots
    BY <1>2, <2>1
  <2>2. CASE SendDoes
    BY <1>2, <2>2 DEF SendDoes
  <2>3. CASE GetRtnDoes(rtns[1]) /\ rtns[1].type # "START"
    <3>1. PICK m : m = rtns[1]
      OBVIOUS
    <3>2. /\ Len(ots') = Len(ots) /\ DOMAIN ots' = DOMAIN ots /\ m.local \in DOMAIN ots
          /\ ots'[m.local] = Updated(ots[m.local], m) /\ ots[m.local] \in OtType
          /\ \A j \in DOMAIN ots \ {m.local} : ots'[j] = ots[j]
          /\ m.type \in AllBits /\ m.vol \in Nat
      BY <2>3, <3>1 DEF GetRtnDoes
    <3>3. PICK n : n = ots[m.local].traded + IF m.type = "EXECUTION" THEN m.vol ELSE 0
      OBVIOUS
    <3>4. ots'[m.local].asked = ots[m.local].asked
      BY <3>2, <3>3, UpdatedIs DEF OtRec
    <3> QED
      BY <1>2, <3>2, <3>4
  <2>4. CASE \E i \in DOMAIN ots : DeleteDoes(i)
    <3>1. PICK i \in DOMAIN ots : DeleteDoes(i)
      BY <2>4
    <3>2. ots'[i].asked = ots[i].asked \cup {ots[i].tok}
      BY <3>1 DEF DeleteDoes, OtRec
    <3> QED
      BY <1>2, <3>1, <3>2 DEF DeleteDoes
  <2> QED
    BY <2>1, <2>2, <2>3, <2>4
       DEF StepDoes, GetRtnDoes, RefuseDoes, FillDoes, ListenDoes, EnterDoes,
           CancelDoes, DiesDoes, LogonDoes, CallbackDoes, CounterDoes, Idle, hvars
<1>4. CASE \E m : FillDoes(ecmd.local, m)
  <2>1. PICK m, i : FillDoes(i, m) /\ i = ecmd.local
    BY <1>4
  <2>2. /\ ecmd # None /\ ecmd' = None /\ reqId \in Refs /\ UNCHANGED <<ots, cmds>>
        /\ track'[reqId].local = i
        /\ \A r \in Refs \ {reqId} : track'[r] = track[r]
    BY <2>1 DEF FillDoes, TrackRec
  <2>3. track[reqId].local = 0
    BY <1>1, <2>2 DEF OwnInv, NoTrack
  <2>4. ASSUME NEW j \in Locals, Lost(j)
        PROVE  Lost(j)'
    <3>1. j # i
      BY <2>1, <2>2, <2>4 DEF Lost, Pending
    <3>2. ~Pending(j)'
      BY <2>2, <2>4 DEF Lost, Pending
    <3>3. \A r \in Refs : track'[r].local # j
      BY <2>2, <2>4, <3>1 DEF Lost
    <3> QED
      BY <3>2, <3>3 DEF Lost
  <2>5. \A r \in Refs : track[r].local # 0 => track'[r].local = track[r].local
    BY <2>2, <2>3
  <2> QED
    BY <1>3, <2>4, <2>5 DEF Kept
<1>5. ASSUME ~\E m : FillDoes(ecmd.local, m)
      PROVE  \A r \in Refs : track'[r].local = track[r].local
  <2>1. CASE track' = track
    BY <2>1
  <2>2. CASE CancelDoes(cmds[1])
    <3>1. PICK c : c = cmds[1]
      OBVIOUS
    <3>2. /\ c.ref \in Refs /\ \A r \in Refs \ {c.ref} : track'[r] = track[r]
          /\ track'[c.ref].local = track[c.ref].local
      BY <2>2, <3>1, WithBitsRec DEF CancelDoes, TrackRec
    <3> QED
      BY <3>2
  <2>3. CASE \E m : ListenDoes(m)
    <3>1. ASSUME NEW r \in Refs, snap[r].st # "none"
          PROVE  track'[r] = TrackRec(StatusOf(snap[r]), snap[r].vol, snap[r].filled,
                                      track[r].local, r, 1)
      BY <2>3, <3>1 DEF ListenDoes
    <3>2. \A r \in Refs : snap[r].st = "none" => track'[r] = track[r]
      BY <2>3 DEF ListenDoes
    <3>3. \A a, b, c, d, e, f : TrackRec(a, b, c, d, e, f).local = d
      BY DEF TrackRec
    <3>4. ASSUME NEW r \in Refs, snap[r].st # "none"
          PROVE  track'[r].local = track[r].local
      BY <3>1, <3>3, <3>4
    <3> QED
      BY <3>2, <3>4
  <2>4. CASE CallbackDoes
    BY <2>4, OwnCallback DEF OwnSteady
  <2> QED
    BY <1>5, <2>1, <2>2, <2>3, <2>4
       DEF StepDoes, SendDoes, DeleteDoes, GetRtnDoes, RefuseDoes, EnterDoes,
           DiesDoes, LogonDoes, CounterDoes, Idle
<1>6. CASE ~\E m : FillDoes(ecmd.local, m)
  <2>1. ((ecmd' = None \/ ecmd' = ecmd) /\ Coming) \/ EnterDoes(cmds[1])
    <3>1. CASE cmds' = cmds /\ (ecmd' = None \/ ecmd' = ecmd)
      BY <3>1 DEF Coming
    <3>2. CASE cmds # <<>> /\ cmds' = Tail(cmds) /\ (ecmd' = None \/ ecmd' = ecmd)
      BY <1>1, <3>2, ComingTail
    <3>3. CASE SendDoes
      BY <1>1, <3>3, ComingWrite DEF SendDoes
    <3>4. CASE \E i \in DOMAIN ots : DeleteDoes(i)
      BY <1>1, <3>4, ComingWrite DEF DeleteDoes
    <3>5. CASE DiesDoes
      BY <3>5 DEF DiesDoes, Coming
    <3> QED
      BY <1>6, <3>1, <3>2, <3>3, <3>4, <3>5
         DEF StepDoes, GetRtnDoes, RefuseDoes, ListenDoes, CancelDoes, LogonDoes,
             CallbackDoes, CounterDoes, Idle, hvars
  <2>2. ASSUME NEW i \in Locals, Lost(i), i <= Len(ots)
        PROVE  Lost(i)'
    <3>1. i # Len(ots) + 1
      BY <1>2, <2>2 DEF Locals
    <3>2. ~Pending(i)'
      <4>1. CASE (ecmd' = None \/ ecmd' = ecmd) /\ Coming
        BY <2>2, <3>1, <4>1 DEF Lost, Pending, Coming
      <4>2. CASE EnterDoes(cmds[1])
        <5>1. PICK c : c = cmds[1]
          OBVIOUS
        <5>2. /\ cmds # <<>> /\ cmds' = Tail(cmds) /\ ecmd' = c /\ c.cmd = "insert"
              /\ 1 \in DOMAIN cmds
          BY <4>2, <5>1 DEF EnterDoes
        <5>3. Coming
          BY <1>1, <5>2, ComingTail
        <5> QED
          BY <2>2, <3>1, <5>1, <5>2, <5>3 DEF Lost, Pending, Coming
      <4> QED
        BY <2>1, <4>1, <4>2
    <3>3. \A r \in Refs : track'[r].local # i
      BY <1>5, <1>6, <2>2 DEF Lost
    <3> QED
      BY <3>2, <3>3 DEF Lost
  <2> QED
    BY <1>3, <1>5, <1>6, <2>2 DEF Kept
<1> QED
  BY <1>4, <1>6

-----------------------------------------------------------------------------
(* Every element of one sequence is in the other. *)
Within(new, old) == \A k \in DOMAIN new : \E j \in DOMAIN old : new[k] = old[j]

LEMMA WithinTail ==
  ASSUME NEW S, NEW s \in Seq(S), s # <<>>
  PROVE  Within(Tail(s), s)
BY TailFacts DEF Within

LEMMA WithinAppend ==
  ASSUME NEW S, NEW s \in Seq(S), NEW e \in S, NEW k \in DOMAIN Append(s, e)
  PROVE  (k \in DOMAIN s /\ Append(s, e)[k] = s[k]) \/ Append(s, e)[k] = e
<1>1. /\ DOMAIN Append(s, e) = 1 .. Len(s) + 1 /\ DOMAIN s = 1 .. Len(s)
      /\ Len(s) \in Nat /\ Append(s, e)[Len(s) + 1] = e
      /\ \A j \in DOMAIN s : Append(s, e)[j] = s[j]
  BY AppendFacts
<1>2. k \in DOMAIN s \/ k = Len(s) + 1
  BY <1>1
<1> QED
  BY <1>1, <1>2

(* What a step keeps of each kind of name *)
LEMMA RtnKept ==
  ASSUME BaseInv, Kept, NEW m \in RtnType, RtnNamed(m)
  PROVE  RtnNamed(m)'
<1>1. CASE m.type = "START"
  BY <1>1 DEF RtnNamed
<1>2. CASE m.type # "START"
  <2>1. m.local \in Locals /\ m.ref \in Refs \cup {-1}
    BY <1>2 DEF RtnType
  <2>2. m.local <= Len(ots) /\ Len(ots) <= Len(ots') /\ Len(ots) \in Nat /\ Len(ots') \in Nat
    BY <1>2, LocalTypes DEF RtnNamed, Kept
  <2>3. m.local # 0 /\ m.local \in Nat
    BY <2>1 DEF Locals
  <2>4. m.ref # -1 => track'[m.ref].local = m.local
    BY <1>2, <2>1, <2>3 DEF RtnNamed, Kept
  <2>5. m.ref = -1 => Lost(m.local)'
    <3>1. ASSUME NEW i \in Locals, i = m.local, m.ref = -1
          PROVE  Lost(i)'
      BY <1>2, <2>2, <3>1 DEF RtnNamed, Kept
    <3> QED
      BY <2>1, <3>1
  <2>6. m.local <= Len(ots')
    BY <2>2, <2>3
  <2> QED
    BY <1>2, <2>4, <2>5, <2>6 DEF RtnNamed
<1> QED
  BY <1>1, <1>2

LEMMA CmdKept ==
  ASSUME BaseInv, Kept, NEW c \in CmdType, CmdNamed(c)
  PROVE  CmdNamed(c)'
<1>1. CASE c.cmd # "cancel"
  BY <1>1 DEF CmdNamed
<1>2. CASE c.cmd = "cancel"
  <2>1. c.local \in Locals /\ c.ref \in Refs /\ c.tok \in Toks
    BY <1>2 DEF CmdType
  <2>2. track[c.ref].local = c.local /\ c.local # 0
    BY <1>2, <2>1 DEF CmdNamed, Locals
  <2>3. track'[c.ref].local = c.local
    BY <2>1, <2>2 DEF Kept
  <2>4. c.tok > 0 => AskedFor(c.tok)'
    <3>1. ASSUME c.tok > 0
          PROVE  AskedFor(c.tok)'
      <4>1. PICK t : t = c.tok
        OBVIOUS
      <4>2. t \in Refs /\ AskedFor(t)
        BY <1>2, <2>1, <3>1, <4>1 DEF CmdNamed, Refs, Toks
      <4> QED
        BY <4>1, <4>2, KeptAsked
    <3> QED
      BY <3>1
  <2> QED
    BY <1>2, <2>3, <2>4 DEF CmdNamed
<1> QED
  BY <1>1, <1>2

LEMMA RtnsKept ==
  ASSUME BaseInv, Kept, RtnsNamed, Within(rtns', rtns)
  PROVE  RtnsNamed'
<1>1. \A j \in DOMAIN rtns : rtns[j] \in RtnType /\ RtnNamed(rtns[j])
  BY DEF BaseInv, TypeInv, RtnsNamed
<1>2. ASSUME NEW k \in DOMAIN rtns', NEW m, m = rtns'[k]
      PROVE  RtnNamed(m)'
  <2>1. m \in RtnType /\ RtnNamed(m)
    BY <1>1, <1>2 DEF Within
  <2> QED
    BY <2>1, RtnKept
<1> QED
  BY <1>2 DEF RtnsNamed, RtnNamed

LEMMA RtnsMore ==
  ASSUME BaseInv, Kept, RtnsNamed, NEW n \in RtnType, RtnNamed(n)',
         rtns' = Append(rtns, n)
  PROVE  RtnsNamed'
<1>1. \A j \in DOMAIN rtns : rtns[j] \in RtnType /\ RtnNamed(rtns[j])
  BY DEF BaseInv, TypeInv, RtnsNamed
<1>2. rtns \in Seq(RtnType)
  BY DEF BaseInv, TypeInv
<1>3. ASSUME NEW k \in DOMAIN rtns', NEW m, m = rtns'[k]
      PROVE  RtnNamed(m)'
  <2>1. CASE k \in DOMAIN rtns /\ m = rtns[k]
    <3>1. m \in RtnType /\ RtnNamed(m)
      BY <1>1, <2>1
    <3> QED
      BY <3>1, RtnKept
  <2>2. CASE m = n
    BY <2>2
  <2> QED
    BY <1>2, <1>3, <2>1, <2>2, WithinAppend
<1> QED
  BY <1>3 DEF RtnsNamed, RtnNamed

LEMMA CmdsKept ==
  ASSUME BaseInv, Kept, CmdsNamed, Within(cmds', cmds)
  PROVE  CmdsNamed'
<1>1. \A j \in DOMAIN cmds : cmds[j] \in CmdType /\ CmdNamed(cmds[j])
  BY DEF BaseInv, TypeInv, CmdsNamed
<1>2. ASSUME NEW k \in DOMAIN cmds', NEW c, c = cmds'[k]
      PROVE  CmdNamed(c)'
  <2>1. c \in CmdType /\ CmdNamed(c)
    BY <1>1, <1>2 DEF Within
  <2> QED
    BY <2>1, CmdKept
<1> QED
  BY <1>2 DEF CmdsNamed, CmdNamed

LEMMA CmdsMore ==
  ASSUME BaseInv, Kept, CmdsNamed, NEW d \in CmdType, CmdNamed(d)', Write(d)
  PROVE  CmdsNamed'
<1>1. \A j \in DOMAIN cmds : cmds[j] \in CmdType /\ CmdNamed(cmds[j])
  BY DEF BaseInv, TypeInv, CmdsNamed
<1>2. cmds \in Seq(CmdType)
  BY DEF BaseInv, TypeInv
<1>3. ASSUME NEW k \in DOMAIN cmds', NEW c, c = cmds'[k]
      PROVE  CmdNamed(c)'
  <2>1. (k \in DOMAIN cmds /\ c = cmds[k]) \/ c = d
    <3>1. CASE cmds' = cmds
      BY <1>3, <3>1
    <3>2. CASE cmds' = Append(cmds, d)
      BY <1>2, <1>3, <3>2, WithinAppend
    <3> QED
      BY <3>1, <3>2 DEF Write
  <2>2. CASE k \in DOMAIN cmds /\ c = cmds[k]
    <3>1. c \in CmdType /\ CmdNamed(c)
      BY <1>1, <2>2
    <3> QED
      BY <3>1, CmdKept
  <2>3. CASE c = d
    BY <2>3
  <2> QED
    BY <2>1, <2>2, <2>3
<1> QED
  BY <1>3 DEF CmdsNamed, CmdNamed

LEMMA OtKept ==
  ASSUME BaseInv, Kept, OtsNamed, NEW i \in DOMAIN ots
  PROVE  /\ ots[i].ref # -1 => track'[ots[i].ref].local = i
         /\ ots[i].tok \in {-1, 0, ots[i].ref}
         /\ \A t \in ots[i].asked : t > 0 => track'[t].local = i
<1>1. ots[i] \in OtType /\ i # 0
  BY DEF BaseInv, TypeInv
<1>2. ots[i].ref \in Refs \cup {-1} /\ ots[i].asked \subseteq Toks
  BY <1>1 DEF OtType
<1>3. \A t \in Toks : t > 0 => t \in Refs
  BY DEF Toks, Refs
<1> QED
  BY <1>1, <1>2, <1>3 DEF OtsNamed, Kept

LEMMA OtsKept ==
  ASSUME BaseInv, Kept, OtsNamed, ots' = ots
  PROVE  OtsNamed'
BY OtKept DEF OtsNamed

LEMMA CreqKept ==
  ASSUME BaseInv, Kept, CreqNamed, Within(creq', creq)
  PROVE  CreqNamed'
<1>1. ASSUME NEW k \in DOMAIN creq', NEW t, t = creq'[k], t > 0
      PROVE  AskedFor(t)'
  <2>1. AskedFor(t) /\ t \in Toks
    BY <1>1 DEF Within, CreqNamed, BaseInv, TypeInv
  <2>2. t \in Refs
    BY <1>1, <2>1 DEF Toks, Refs
  <2> QED
    BY <2>1, <2>2, KeptAsked
<1> QED
  BY <1>1 DEF CreqNamed, AskedFor

LEMMA SrvKept ==
  ASSUME BaseInv, Kept, SrvNamed,
         \A r \in Refs : srv'[r].st = "cxled" => srv[r].st = "cxled" \/ AskedFor(r)
  PROVE  SrvNamed'
BY KeptAsked DEF SrvNamed

LEMMA EvqKept ==
  ASSUME BaseInv, EvqNamed, Within(evq', evq),
         \A r \in Refs : srv'[r].st = "none" => srv[r].st = "none"
  PROVE  EvqNamed'
<1>1. \A j \in DOMAIN evq : evq[j] \in EventType
  BY DEF BaseInv, TypeInv
<1>2. \A e \in EventType : e.kind # "CANCEL_REJECT" => e.ref \in Refs
  BY DEF EventType
<1>3. ASSUME NEW k \in DOMAIN evq', evq'[k].kind # "CANCEL_REJECT"
      PROVE  srv'[evq'[k].ref].st # "none"
  <2>1. PICK j \in DOMAIN evq : evq'[k] = evq[j]
    BY DEF Within
  <2> QED
    BY <1>1, <1>2, <1>3, <2>1 DEF EvqNamed
<1> QED
  BY <1>3 DEF EvqNamed

(* The callbacks, ... *)
LEMMA NameCallback ==
  ASSUME BaseInv, Kept, CallbackDoes
  PROVE  NameInv'
<1>1. TypeInv /\ OwnInv /\ NameInv /\ OtsNamed /\ RtnsNamed /\ CmdsNamed
      /\ CreqNamed /\ SrvNamed /\ EvqNamed
  BY DEF BaseInv, NameInv
<1>2. evq # <<>> /\ evq' = Tail(evq) /\ UNCHANGED <<ots, cmds, creq, srv>>
  BY DEF CallbackDoes, hvars, svars
<1>3. OtsNamed' /\ CmdsNamed' /\ CreqNamed' /\ SrvNamed'
  BY <1>1, <1>2, OtsKept, CmdsKept, CreqKept, SrvKept DEF Within
<1>4. EvqNamed'
  BY <1>1, <1>2, EvqKept, WithinTail DEF TypeInv
<1>5. RtnsNamed'
  <2>1. CASE Silent
    BY <1>1, <2>1, RtnsKept DEF Silent, Within
  <2>2. CASE \E r, type, v : Reports(r, type, v)
    <3>1. PICK r, type, v : Reports(r, type, v)
      BY <2>2
    <3>2. CASE track[r].local = 0
      BY <1>1, <3>1, <3>2, ReportsEffect, RtnsKept DEF Within
    <3>3. CASE track[r].local # 0
      <4>1. PICK m \in RtnType : Report1(r, type, v, m) /\ rtns' = Append(rtns, m)
        BY <1>1, <3>1, <3>3, ReportsEffect
      <4>2. /\ m.type = type /\ m.local = track[r].local /\ m.ref = r
            /\ m.tok = track'[r].tok
        BY <4>1 DEF Report1
      <4>3. /\ r \in Refs /\ type \in ReportTypes /\ track'[r].tok \in {0, r}
            /\ track'[r].local = track[r].local
        BY <3>1 DEF Reports, Advances
      <4>4. track[r].local <= Len(ots') /\ r # -1 /\ type # "ERR"
        BY <1>2, <4>3, LocalTypes DEF Refs, ReportTypes
      <4>5. RtnNamed(m)'
        BY <4>2, <4>3, <4>4 DEF RtnNamed
      <4> QED
        BY <1>1, <4>1, <4>5, RtnsMore
    <3> QED
      BY <3>2, <3>3
  <2> QED
    BY <2>1, <2>2, CallbackTracks
<1> QED
  BY <1>3, <1>4, <1>5 DEF NameInv

(* ... the counter, ... *)
LEMMA NameCounter ==
  ASSUME BaseInv, Kept, CounterDoes
  PROVE  NameInv'
<1>1. TypeInv /\ OwnInv /\ NameInv /\ OtsNamed /\ RtnsNamed /\ CmdsNamed
      /\ CreqNamed /\ SrvNamed /\ EvqNamed
  BY DEF BaseInv, NameInv
<1>2. UNCHANGED <<ots, cmds, rtns, track>>
  BY DEF CounterDoes
<1>3. OtsNamed' /\ CmdsNamed' /\ RtnsNamed'
  BY <1>1, <1>2, OtsKept, CmdsKept, RtnsKept DEF Within
<1>4. PICK e : Pushes(e)
  BY DEF CounterDoes
<1>5. creq \in Seq(Toks) /\ evq \in Seq(EventType)
  BY <1>1 DEF TypeInv
<1>6. CreqNamed'
  <2>1. Within(creq', creq)
    <3>1. creq' = creq \/ (creq # <<>> /\ creq' = Tail(creq))
      BY <1>4 DEF Pushes, Judged, Traded, Canceled
    <3> QED
      BY <1>5, <3>1, WithinTail DEF Within
  <2> QED
    BY <1>1, <2>1, CreqKept
<1>7. SrvNamed'
  <2>1. ASSUME NEW r \in Refs, srv'[r].st = "cxled"
        PROVE  srv[r].st = "cxled" \/ AskedFor(r)
    <3>1. CASE Canceled(e) /\ r = e.ref
      <4>1. 1 \in DOMAIN creq /\ creq[1] = r
        BY <1>5, <3>1, TailFacts DEF Canceled
      <4>2. r > 0
        BY <2>1 DEF Refs
      <4> QED
        BY <1>1, <4>1, <4>2 DEF CreqNamed
    <3>2. CASE ~(Canceled(e) /\ r = e.ref)
      BY <1>4, <2>1, <3>2 DEF Pushes, Judged, Traded
    <3> QED
      BY <3>1, <3>2
  <2> QED
    BY <1>1, <2>1, SrvKept
<1>8. \A r \in Refs : srv'[r].st = "none" => srv[r].st = "none"
  BY <1>4 DEF Pushes, Judged, Traded, Canceled
<1>9. EvqNamed'
  <2>1. CASE evq' = evq
    BY <1>1, <1>8, <2>1, EvqKept DEF Within
  <2>2. CASE evq' = Append(evq, e)
    <3>1. e \in EventType
      BY <1>4 DEF Pushes
    <3>2. e.kind # "CANCEL_REJECT" => srv'[e.ref].st # "none"
      BY <1>1, <1>4 DEF Pushes, Judged, Traded, Canceled, EvqNamed
    <3>3. ASSUME NEW k \in DOMAIN evq', evq'[k].kind # "CANCEL_REJECT"
          PROVE  srv'[evq'[k].ref].st # "none"
      <4>1. CASE k \in DOMAIN evq /\ evq'[k] = evq[k]
        <5>1. evq[k] \in EventType
          BY <1>5, <4>1
        <5>2. evq[k].ref \in Refs
          BY <3>3, <4>1, <5>1 DEF EventType
        <5> QED
          BY <1>1, <1>8, <3>3, <4>1, <5>2 DEF EvqNamed
      <4>2. CASE evq'[k] = e
        BY <3>2, <3>3, <4>2
      <4> QED
        BY <1>5, <2>2, <3>1, <3>3, <4>1, <4>2, WithinAppend
    <3> QED
      BY <3>3 DEF EvqNamed
  <2> QED
    BY <1>4, <2>1, <2>2 DEF Pushes
<1> QED
  BY <1>3, <1>6, <1>7, <1>9 DEF NameInv

(* ... and the other steps *)
LEMMA NameStep ==
  ASSUME BaseInv, TypeInv', StepDoes
  PROVE  NameInv'
<1>1. TypeInv /\ OwnInv /\ NameInv /\ OtsNamed /\ RtnsNamed /\ CmdsNamed
      /\ CreqNamed /\ SrvNamed /\ EvqNamed
  BY DEF BaseInv, NameInv
<1>2. Kept
  BY KeptStep
<1>3. /\ ots' = ots => OtsNamed'
      /\ rtns' = rtns => RtnsNamed'
      /\ cmds' = cmds => CmdsNamed'
      /\ creq' = creq => CreqNamed'
      /\ srv' = srv => SrvNamed'
      /\ evq' = evq /\ srv' = srv => EvqNamed'
  BY <1>1, <1>2, OtsKept, RtnsKept, CmdsKept, CreqKept, SrvKept, EvqKept DEF Within
<1>4. cmds # <<>> /\ cmds' = Tail(cmds) => CmdsNamed'
  BY <1>1, <1>2, CmdsKept, WithinTail DEF TypeInv
<1>5. rtns # <<>> /\ rtns' = Tail(rtns) => RtnsNamed'
  BY <1>1, <1>2, RtnsKept, WithinTail DEF TypeInv
<1>6. /\ Len(ots) \in Nat /\ DOMAIN ots = 1 .. Len(ots)
      /\ \A r \in Refs : track[r].local \in Nat
  BY LocalTypes
<1>7. CASE SendDoes
  <2>1. UNCHANGED <<rtns, creq, srv, evq, track>>
    BY <1>7 DEF SendDoes
  <2>2. CmdsNamed'
    <3>1. PICK c \in CmdType : c.cmd = "insert" /\ Write(c)
      BY <1>7 DEF SendDoes
    <3>2. CmdNamed(c)'
      BY <3>1 DEF CmdNamed
    <3> QED
      BY <1>1, <1>2, <3>1, <3>2, CmdsMore
  <2>3. OtsNamed'
    <3>1. /\ DOMAIN ots' = 1 .. Len(ots) + 1
          /\ ots'[Len(ots) + 1].ref = -1 /\ ots'[Len(ots) + 1].tok = 0
          /\ ots'[Len(ots) + 1].asked = {}
          /\ \A j \in DOMAIN ots : ots'[j] = ots[j]
      BY <1>7 DEF SendDoes, OtRec
    <3>2. \A i \in DOMAIN ots' : i \in DOMAIN ots \/ i = Len(ots) + 1
      BY <1>6, <3>1
    <3> QED
      BY <1>1, <1>2, <3>1, <3>2, OtKept DEF OtsNamed
  <2> QED
    BY <1>3, <2>1, <2>2, <2>3 DEF NameInv
<1>8. CASE \E i \in DOMAIN ots : DeleteDoes(i)
  <2>1. PICK i \in DOMAIN ots : DeleteDoes(i)
    BY <1>8
  <2>2. UNCHANGED <<rtns, creq, srv, evq, track>>
    BY <2>1 DEF DeleteDoes
  <2>3. /\ ots'[i].ref = ots[i].ref /\ ots'[i].tok = ots[i].tok
        /\ ots'[i].asked = ots[i].asked \cup {ots[i].tok}
        /\ DOMAIN ots' = DOMAIN ots
        /\ \A j \in DOMAIN ots \ {i} : ots'[j] = ots[j]
        /\ ots[i].ref \in Refs /\ ots[i].tok \in Toks
    BY <2>1 DEF DeleteDoes, OtRec
  <2>4. /\ track[ots[i].ref].local = i /\ ots[i].tok \in {-1, 0, ots[i].ref}
        /\ ots[i].tok > 0 => ots[i].tok = ots[i].ref
    BY <1>1, <2>1, <2>3 DEF OtsNamed, Refs
  <2>5. OtsNamed'
    <3>1. ASSUME NEW j \in DOMAIN ots
          PROVE  /\ ots'[j].ref # -1 => track'[ots'[j].ref].local = j
                 /\ ots'[j].tok \in {-1, 0, ots'[j].ref}
                 /\ \A t \in ots'[j].asked : t > 0 => track'[t].local = j
      <4>1. CASE j = i
        BY <1>1, <1>2, <2>2, <2>3, <2>4, <3>1, <4>1, OtKept
      <4>2. CASE j # i
        BY <1>1, <1>2, <2>3, <3>1, <4>2, OtKept
      <4> QED
        BY <4>1, <4>2
    <3> QED
      BY <2>3, <3>1 DEF OtsNamed
  <2>6. CmdsNamed'
    <3>1. PICK c \in CmdType : /\ c.cmd = "cancel" /\ c.local = i /\ c.ref = ots[i].ref
                               /\ c.tok = ots[i].tok /\ Write(c)
      BY <2>1 DEF DeleteDoes
    <3>2. c.tok > 0 => AskedFor(c.tok)'
      <4>1. ASSUME c.tok > 0
            PROVE  AskedFor(c.tok)'
        <5>1. PICK t : t = c.tok
          OBVIOUS
        <5>2. track'[t].local = i /\ t \in ots'[i].asked /\ i # 0
          BY <1>6, <2>2, <2>3, <2>4, <3>1, <4>1, <5>1
        <5> QED
          BY <5>1, <5>2 DEF AskedFor, Token
      <4> QED
        BY <4>1
    <3>3. CmdNamed(c)'
      BY <2>2, <2>3, <2>4, <3>1, <3>2 DEF CmdNamed
    <3> QED
      BY <1>1, <1>2, <3>1, <3>3, CmdsMore
  <2> QED
    BY <1>3, <2>2, <2>5, <2>6 DEF NameInv
<1>9. CASE GetRtnDoes(rtns[1])
  <2>1. PICK m : m = rtns[1] /\ GetRtnDoes(m)
    BY <1>9
  <2>2. /\ UNCHANGED <<cmds, creq, srv, evq, track>> /\ rtns # <<>>
        /\ rtns' = Tail(rtns) /\ 1 \in DOMAIN rtns
    BY <2>1 DEF GetRtnDoes
  <2>3. OtsNamed'
    <3>1. CASE m.type = "START"
      BY <1>3, <2>1, <3>1 DEF GetRtnDoes
    <3>2. CASE m.type # "START"
      <4>1. PICK i : i = m.local
        OBVIOUS
      <4>2. /\ DOMAIN ots' = DOMAIN ots /\ i \in DOMAIN ots
            /\ ots'[i] = Updated(ots[i], m) /\ ots[i] \in OtType
            /\ \A j \in DOMAIN ots \ {i} : ots'[j] = ots[j]
            /\ m.type \in AllBits /\ m.vol \in Nat /\ m.ref \in Refs \cup {-1}
        BY <2>1, <3>2, <4>1 DEF GetRtnDoes
      <4>3. PICK n : n = ots[i].traded + IF m.type = "EXECUTION" THEN m.vol ELSE 0
        OBVIOUS
      <4>4. /\ ots'[i].ref = m.ref /\ ots'[i].tok = m.tok
            /\ ots'[i].asked = ots[i].asked
        BY <4>2, <4>3, UpdatedIs DEF OtRec
      <4>5. m.tok \in {-1, 0, m.ref} /\ (m.ref # -1 => track[m.ref].local = i)
        BY <1>1, <2>1, <2>2, <3>2, <4>1 DEF RtnsNamed, RtnNamed
      <4>6. ASSUME NEW j \in DOMAIN ots
            PROVE  /\ ots'[j].ref # -1 => track'[ots'[j].ref].local = j
                   /\ ots'[j].tok \in {-1, 0, ots'[j].ref}
                   /\ \A t \in ots'[j].asked : t > 0 => track'[t].local = j
        <5>1. CASE j = i
          BY <1>1, <1>2, <2>2, <4>4, <4>5, <4>6, <5>1, OtKept
        <5>2. CASE j # i
          BY <1>1, <1>2, <4>2, <4>6, <5>2, OtKept
        <5> QED
          BY <5>1, <5>2
      <4> QED
        BY <4>2, <4>6 DEF OtsNamed
    <3> QED
      BY <3>1, <3>2
  <2> QED
    BY <1>3, <1>5, <2>2, <2>3 DEF NameInv
<1>10. CASE \E m : RefuseDoes(cmds[1], m)
  <2>1. PICK c, m : c = cmds[1] /\ RefuseDoes(c, m)
    BY <1>10
  <2>2. /\ UNCHANGED <<ots, creq, srv, evq, track, ecmd>> /\ cmds # <<>> /\ ecmd = None
        /\ cmds' = Tail(cmds) /\ 1 \in DOMAIN cmds /\ rtns' = Append(rtns, m)
        /\ Refusal(c, m) /\ c \in CmdType
    BY <2>1 DEF RefuseDoes
  <2>3. RtnNamed(m)'
    <3>1. CASE c.cmd = "insert"
      <4>1. m.type = "ERR" /\ m.ref = -1 /\ m.tok = -1 /\ m.local = c.local
        BY <2>2, <3>1 DEF Refusal
      <4>2. c.local <= Len(ots) /\ c.local \in Locals
        BY <2>1, <2>2, <3>1, LocalTypes DEF CmdType
      <4>3. ASSUME NEW i \in Locals, i = c.local
            PROVE  Lost(i)'
        <5>1. \A r \in Refs : track[r].local # i
          BY <1>1, <1>6, <2>1, <2>2, <3>1, <4>3 DEF OwnInv, Locals
        <5>2. ~Pending(i)'
          <6>1. PICK n \in 0 .. MaxOrders : Entered(n)
            BY DEF BaseInv, EntryInv
          <6>2. ASSUME NEW k \in DOMAIN cmds', cmds'[k].cmd = "insert",
                       cmds'[k].local = i
                PROVE  FALSE
            <7>1. PICK j \in DOMAIN cmds : cmds'[k] = cmds[j] /\ 1 < j
              BY <1>1, <2>2, ComingTail
            <7>2. c.local < cmds[j].local
              BY <2>1, <2>2, <3>1, <6>1, <6>2, <7>1 DEF Entered, Queued
            <7> QED
              BY <4>2, <4>3, <6>2, <7>1, <7>2 DEF Locals
          <6> QED
            BY <2>2, <6>2 DEF Pending
        <5> QED
          BY <2>2, <5>1, <5>2 DEF Lost
      <4> QED
        BY <2>2, <4>1, <4>2, <4>3 DEF RtnNamed
    <3>2. CASE c.cmd = "cancel"
      <4>1. m.type = "CANCEL_REJECT" /\ m.ref = c.ref /\ m.tok = c.tok /\ m.local = c.local
        BY <2>2, <3>2 DEF Refusal
      <4>2. c.ref \in Refs /\ c.ref # -1
        BY <2>2, <3>2 DEF CmdType, Refs
      <4>3. track[c.ref].local = c.local /\ c.tok \in {-1, 0, c.ref}
        BY <1>1, <2>1, <2>2, <3>2 DEF CmdsNamed, CmdNamed
      <4>4. c.local <= Len(ots)
        BY <4>2, <4>3, LocalTypes
      <4> QED
        BY <2>2, <4>1, <4>2, <4>3, <4>4 DEF RtnNamed
    <3> QED
      BY <2>2, <3>1, <3>2 DEF CmdType
  <2>4. m \in RtnType
    BY <2>2 DEF Refusal
  <2>5. RtnsNamed'
    BY <1>1, <1>2, <2>2, <2>3, <2>4, RtnsMore
  <2> QED
    BY <1>3, <1>4, <2>2, <2>5 DEF NameInv
<1>11. CASE EnterDoes(cmds[1])
  <2>1. /\ UNCHANGED <<ots, rtns, creq, evq>> /\ cmds # <<>> /\ cmds' = Tail(cmds)
    BY <1>11 DEF EnterDoes
  <2>2. \A r \in Refs : /\ srv'[r].st = "none" => srv[r].st = "none"
                        /\ srv'[r].st = "cxled" => srv[r].st = "cxled"
    <3>1. PICK c : c = cmds[1]
      OBVIOUS
    <3> QED
      BY <1>11 DEF EnterDoes
  <2>3. SrvNamed'
    BY <1>1, <1>2, <2>2, SrvKept
  <2>4. EvqNamed'
    BY <1>1, <2>1, <2>2, EvqKept DEF Within
  <2> QED
    BY <1>3, <1>4, <2>1, <2>3, <2>4 DEF NameInv
<1>12. CASE \E m : FillDoes(ecmd.local, m)
  <2>1. PICK i, m : FillDoes(i, m) /\ i = ecmd.local
    BY <1>12
  <2>2. /\ UNCHANGED <<ots, cmds, creq, evq, srv>> /\ rtns' = Append(rtns, m)
        /\ m \in RtnType /\ m.type = "TDSEND" /\ m.local = i /\ m.ref = reqId
        /\ m.tok = 0 /\ track'[reqId].local = i /\ reqId \in Refs /\ ecmd # None
    BY <2>1 DEF FillDoes, TrackRec
  <2>3. i <= Len(ots) /\ reqId # -1
    BY <2>1, <2>2, LocalTypes DEF Refs
  <2>4. RtnNamed(m)'
    BY <2>2, <2>3 DEF RtnNamed
  <2>5. RtnsNamed'
    BY <1>1, <1>2, <2>2, <2>4, RtnsMore
  <2> QED
    BY <1>3, <2>2, <2>5 DEF NameInv
<1>13. CASE CancelDoes(cmds[1])
  <2>1. PICK c : c = cmds[1] /\ CancelDoes(c)
    BY <1>13
  <2>2. /\ UNCHANGED <<ots, rtns, evq, srv>> /\ cmds # <<>> /\ cmds' = Tail(cmds)
        /\ 1 \in DOMAIN cmds /\ c.cmd = "cancel" /\ creq' = Append(creq, c.tok)
        /\ c.tok \in Toks
    BY <2>1 DEF CancelDoes
  <2>3. c.tok > 0 => AskedFor(c.tok)
    BY <1>1, <2>1, <2>2 DEF CmdsNamed, CmdNamed
  <2>4. CreqNamed'
    <3>1. ASSUME NEW k \in DOMAIN creq', NEW t, t = creq'[k], t > 0
          PROVE  AskedFor(t)'
      <4>1. creq \in Seq(Toks)
        BY <1>1 DEF TypeInv
      <4>2. (k \in DOMAIN creq /\ t = creq[k]) \/ t = c.tok
        BY <2>2, <3>1, <4>1, WithinAppend
      <4>3. AskedFor(t) /\ t \in Toks
        BY <1>1, <2>2, <2>3, <3>1, <4>1, <4>2 DEF CreqNamed
      <4>4. t \in Refs
        BY <3>1, <4>3 DEF Toks, Refs
      <4> QED
        BY <1>2, <4>3, <4>4, KeptAsked
    <3> QED
      BY <3>1 DEF CreqNamed, AskedFor
  <2> QED
    BY <1>3, <1>4, <2>2, <2>4 DEF NameInv
<1>14. CASE DiesDoes
  <2>1. cmds' = <<>> /\ evq' = <<>> /\ UNCHANGED <<ots, rtns, creq, srv>>
    BY <1>14 DEF DiesDoes
  <2>2. CmdsNamed' /\ EvqNamed'
    BY <2>1 DEF CmdsNamed, EvqNamed
  <2> QED
    BY <1>3, <2>1, <2>2 DEF NameInv
<1>15. CASE LogonDoes
  <2>1. UNCHANGED <<ots, rtns, cmds, creq, srv, evq>>
    BY <1>15 DEF LogonDoes
  <2> QED
    BY <1>3, <2>1 DEF NameInv
<1>16. CASE \E m : ListenDoes(m)
  <2>1. PICK m : ListenDoes(m)
    BY <1>16
  <2>2. /\ UNCHANGED <<ots, cmds, creq, srv, evq>> /\ m \in RtnType
        /\ m.type = "START" /\ rtns' = Append(rtns, m)
    BY <2>1 DEF ListenDoes
  <2>3. RtnNamed(m)'
    BY <2>2 DEF RtnNamed
  <2>4. RtnsNamed'
    BY <1>1, <1>2, <2>2, <2>3, RtnsMore
  <2> QED
    BY <1>3, <2>2, <2>4 DEF NameInv
<1>17. CASE Idle
  <2>1. UNCHANGED <<ots, rtns, cmds, creq, srv, evq>>
    BY <1>17 DEF Idle
  <2> QED
    BY <1>3, <2>1 DEF NameInv
<1> QED
  BY <1>2, <1>7, <1>8, <1>9, <1>10, <1>11, <1>12, <1>13, <1>14, <1>15, <1>16,
     <1>17, NameCallback, NameCounter DEF StepDoes

-----------------------------------------------------------------------------
LEMMA BaseInit ==
  ASSUME Init
  PROVE  BaseInv
<1>1. TypeInv
  <2>1. NoTrack \in TrackType /\ NoOrder \in SrvType
    BY EESAssumption DEF NoTrack, NoOrder, TrackType, SrvType, EESAssumption
  <2>2. track \in [Refs -> TrackType] /\ srv \in [Refs -> SrvType]
        /\ snap \in [Refs -> SrvType] /\ seen \in [Refs -> SUBSET Nat]
    BY <2>1 DEF Init
  <2>3. 1 \in 1 .. MaxOrders + 1
    BY EESAssumption DEF EESAssumption
  <2>4. /\ ots \in Seq(OtType) /\ Len(ots) <= MaxOrders /\ cmds \in Seq(CmdType)
        /\ rtns \in Seq(RtnType) /\ evq \in Seq(EventType) /\ creq \in Seq(Toks)
    BY EESAssumption DEF Init, EESAssumption
  <2>5. /\ ver \in {1, 2} /\ cancels = 0 /\ reg = TRUE /\ up = "up" /\ reqId = 1
        /\ ecmd = None /\ raced = FALSE /\ ntrade = 0 /\ dups = 0 /\ deaths = 0
    BY DEF Init
  <2> QED
    BY <2>2, <2>3, <2>4, <2>5 DEF TypeInv
<1>2. EntryInv
  <2>1. \A r \in Refs : srv[r].st = "none" /\ ~(r <= 0)
    BY DEF Init, NoOrder, Refs
  <2>2. Entered(0)
    BY <2>1 DEF Init, Entered, Queued
  <2>3. 0 \in 0 .. MaxOrders
    BY EESAssumption DEF EESAssumption
  <2> QED
    BY <2>2, <2>3 DEF EntryInv
<1>3. OwnInv
  BY DEF Init, OwnInv, NoTrack, NoOrder, Pending, Locals
<1>4. NameInv
  BY DEF Init, NameInv, OtsNamed, RtnsNamed, CmdsNamed, CreqNamed, SrvNamed,
         EvqNamed, NoOrder
<1> QED
  BY <1>1, <1>2, <1>3, <1>4 DEF BaseInv

LEMMA BaseStep ==
  ASSUME BaseInv, [Next]_vars
  PROVE  BaseInv' /\ StepDoes
BY TypeStep, StepEffect, EntryStep, OwnStep, NameStep DEF BaseInv

LEMMA BaseAlways == Spec => []BaseInv
<1>1. BaseInv /\ [Next]_vars => BaseInv'
  BY BaseStep
<1> QED
  BY <1>1, BaseInit, PTL DEF Spec

(* Only an order that the strategy has asked to cancel is canceled: the    *)
(* references, tokens and local ids that the engine and the helper pass on *)
(* name one order, also after deaths of the engine.                        *)
THEOREM OnlyAskedCanceledAlways == Spec => []OnlyAskedCanceled
<1>1. BaseInv => OnlyAskedCanceled
  BY DEF BaseInv, NameInv, SrvNamed, AskedFor, OnlyAskedCanceled
<1> QED
  BY <1>1, BaseAlways, PTL

-----------------------------------------------------------------------------
(* The orders of the counter *)
LEMMA SrvStep ==
  ASSUME BaseInv, BaseInv', StepDoes, SrvInv
  PROVE  SrvInv'
<1>1. TypeInv /\ TypeInv' /\ EESAssumption
  BY EESAssumption DEF BaseInv
<1>2. CASE srv' = srv /\ (ecmd' = None \/ (ecmd' = ecmd /\ reqId' = reqId))
  BY <1>2 DEF SrvInv
<1>3. CASE EnterDoes(cmds[1])
  <2>1. PICK c : c = cmds[1] /\ EnterDoes(c)
    BY <1>3
  <2>2. /\ reqId \in Refs /\ reqId' = reqId /\ ecmd' = c /\ c.local \in Locals
        /\ srv'[reqId].st = "sent" /\ srv'[reqId].vol = Vol[c.local]
        /\ srv'[reqId].filled = 0 /\ \A r \in Refs \ {reqId} : srv'[r] = srv[r]
    BY <2>1 DEF EnterDoes
  <2>3. Vol[c.local] \in Nat \ {0}
    BY <1>1, <2>2 DEF EESAssumption, Locals
  <2> QED
    BY <2>2, <2>3 DEF SrvInv
<1>4. CASE CounterDoes
  <2>1. PICK e : Pushes(e)
    BY <1>4 DEF CounterDoes
  <2>2. UNCHANGED <<ecmd, reqId>> /\ srv \in [Refs -> SrvType]
    BY <1>1, <1>4 DEF CounterDoes, TypeInv
  <2>3. \A r \in Refs : srv[r].filled \in Nat /\ srv[r].vol \in Nat
    BY <2>2 DEF SrvType
  <2>4. ecmd # None => reqId \in Refs
    <3>1. PICK n \in 0 .. MaxOrders : Entered(n)
      BY DEF BaseInv, EntryInv
    <3> QED
      BY <1>1, <3>1 DEF Entered, TypeInv, Refs, EESAssumption
  <2>5. CASE srv' = srv
    BY <2>2, <2>5 DEF SrvInv
  <2>6. CASE e.ref \in Refs /\ \A r \in Refs \ {e.ref} : srv'[r] = srv[r]
    <3>1. PICK q : q = e.ref
      OBVIOUS
    <3>2. CASE Judged(e)
      <4>1. /\ srv'[q].vol = srv[q].vol /\ srv'[q].filled = srv[q].filled
            /\ <<srv[q].st, srv'[q].st>> \in
                 {<<"sent", "accepted">>, <<"sent", "rejected">>,
                  <<"accepted", "live">>, <<"accepted", "mrejected">>}
        BY <3>1, <3>2 DEF Judged
      <4> QED
        BY <2>2, <2>3, <2>4, <2>6, <3>1, <4>1 DEF SrvInv
    <3>3. CASE Traded(e)
      <4>1. /\ srv[q].st = "live" /\ srv'[q].vol = srv[q].vol
            /\ srv'[q].filled = srv[q].filled + 1
            /\ srv'[q].st = IF srv'[q].filled = srv[q].vol THEN "filled" ELSE "live"
        BY <3>1, <3>3 DEF Traded
      <4> QED
        BY <2>2, <2>3, <2>4, <2>6, <3>1, <4>1 DEF SrvInv
    <3>4. CASE Canceled(e)
      <4>1. /\ srv'[q].vol = srv[q].vol /\ srv'[q].filled = srv[q].filled
            /\ srv[q].st \in {"accepted", "live"} /\ srv'[q].st = "cxled"
        BY <3>1, <3>4 DEF Canceled
      <4> QED
        BY <2>2, <2>3, <2>4, <2>6, <3>1, <4>1 DEF SrvInv
    <3> QED
      BY <2>1, <2>5, <3>2, <3>3, <3>4 DEF Pushes
  <2> QED
    BY <2>1, <2>5, <2>6 DEF Pushes
<1> QED
  BY <1>2, <1>3, <1>4
     DEF StepDoes, SendDoes, GetRtnDoes, DeleteDoes, RefuseDoes, FillDoes,
         ListenDoes, CancelDoes, DiesDoes, LogonDoes, CallbackDoes, Idle, svars

(* The bits of a track *)
LEMMA StStep ==
  ASSUME BaseInv, BaseInv', StepDoes, StInv
  PROVE  StInv'
<1>1. TypeInv /\ TypeInv'
  BY DEF BaseInv
<1>2. CASE track' = track
  BY <1>2 DEF StInv
<1>3. CASE \E m : FillDoes(ecmd.local, m)
  <2>1. /\ reqId \in Refs /\ track'[reqId].st = {"TDSEND"}
        /\ \A r \in Refs \ {reqId} : track'[r] = track[r]
    BY <1>3 DEF FillDoes, TrackRec
  <2> QED
    BY <2>1 DEF StInv, Ending
<1>4. CASE CancelDoes(cmds[1])
  <2>1. PICK c : c = cmds[1] /\ CancelDoes(c)
    BY <1>4
  <2>2. /\ c.ref \in Refs /\ \A r \in Refs \ {c.ref} : track'[r] = track[r]
        /\ track'[c.ref].st = track[c.ref].st \cup {"CXLING"}
        /\ track'[c.ref].sess = track[c.ref].sess
    BY <2>1, WithBitsRec DEF CancelDoes, TrackRec
  <2> QED
    BY <2>2 DEF StInv, Ending
<1>5. CASE \E m : ListenDoes(m)
  <2>1. ASSUME NEW r \in Refs
        PROVE  /\ track'[r].st \cap Ending # {} => "CLOSED" \in track'[r].st
               /\ "ACCEPT" \in track'[r].st => track'[r].sess = 1
    <3>1. CASE snap[r].st = "none"
      <4>1. track'[r] = track[r]
        BY <1>5, <3>1 DEF ListenDoes
      <4> QED
        BY <4>1 DEF StInv
    <3>2. CASE snap[r].st # "none"
      <4>1. track'[r].st = StatusOf(snap[r]) /\ track'[r].sess = 1
        <5>1. track'[r] = TrackRec(StatusOf(snap[r]), snap[r].vol, snap[r].filled,
                                   track[r].local, r, 1)
          BY <1>5, <3>2 DEF ListenDoes
        <5> QED
          BY <5>1 DEF TrackRec
      <4>2. PICK o : o = snap[r]
        OBVIOUS
      <4>3. StatusOf(o) \cap Ending # {} => "CLOSED" \in StatusOf(o)
        BY DEF StatusOf, Ending, Bits
      <4> QED
        BY <4>1, <4>2, <4>3
    <3> QED
      BY <3>1, <3>2
  <2> QED
    BY <2>1 DEF StInv
<1>6. CASE CallbackDoes
  <2>1. CASE Silent
    BY <1>2, <2>1 DEF Silent
  <2>2. CASE \E r, type, v : Reports(r, type, v)
    <3>1. PICK r, type, v : Reports(r, type, v)
      BY <2>2
    <3>2. r \in Refs /\ \A q \in Refs \ {r} : track'[q] = track[q]
      BY <1>1, <3>1, ReportsEffect
    <3>3. /\ type \in ReportTypes
          /\ \/ track'[r].st = track[r].st \cup Bits(type)
             \/ track'[r].st = track[r].st \cup Bits(type) \cup {"CLOSED"}
          /\ track[r].sess = 1 \/ type = "ACCEPT" => track'[r].sess = 1
      BY <3>1 DEF Reports, Advances
    <3>4. /\ Bits(type) \cap Ending # {} => "CLOSED" \in Bits(type)
          /\ "ACCEPT" \in Bits(type) => type = "ACCEPT"
      BY <3>3 DEF Bits, Ending, ReportTypes
    <3>5. /\ track'[r].st \cap Ending # {} => "CLOSED" \in track'[r].st
          /\ "ACCEPT" \in track'[r].st => track'[r].sess = 1
      BY <3>2, <3>3, <3>4 DEF StInv
    <3> QED
      BY <3>2, <3>5 DEF StInv
  <2> QED
    BY <1>6, <2>1, <2>2, CallbackTracks
<1> QED
  BY <1>2, <1>3, <1>4, <1>5, <1>6
     DEF StepDoes, SendDoes, GetRtnDoes, DeleteDoes, RefuseDoes, EnterDoes,
         DiesDoes, LogonDoes, CounterDoes, Idle

(* The executions seen and under way *)
LEMMA SeenStep ==
  ASSUME BaseInv, BaseInv', StepDoes, SeenInv
  PROVE  SeenInv'
<1>1. TypeInv /\ TypeInv'
  BY DEF BaseInv
<1>2. CASE UNCHANGED <<seen, evq, ntrade>>
  BY <1>2 DEF SeenInv
<1>3. CASE DiesDoes
  BY <1>3 DEF DiesDoes, SeenInv
<1>4. evq \in Seq(EventType) /\ ntrade \in Nat
  BY <1>1 DEF TypeInv
<1>5. CASE CallbackDoes
  <2>1. evq # <<>> /\ evq' = Tail(evq) /\ ntrade' = ntrade
    BY <1>5 DEF CallbackDoes, svars
  <2>2. \A k \in DOMAIN evq' : evq'[k].kind = "EXECUTION" => evq'[k].id <= ntrade
    BY <1>4, <2>1, WithinTail DEF SeenInv, Within
  <2>3. PICK e : e = evq[1]
    OBVIOUS
  <2>4. /\ 1 \in DOMAIN evq
        /\ seen' = seen \/ (e.kind = "EXECUTION" /\ seen' = [seen EXCEPT ![e.ref] = @ \cup {e.id}])
    BY <1>4, <1>5, <2>1, <2>3, TailFacts DEF CallbackDoes, Handles
  <2>5. e.kind = "EXECUTION" => e.id <= ntrade
    BY <2>3, <2>4 DEF SeenInv
  <2>6. PICK q, x : q = e.ref /\ x = e.id
    OBVIOUS
  <2>7. seen \in [Refs -> SUBSET Nat]
    BY <1>1 DEF TypeInv
  <2>8. \A r \in Refs : \A y \in seen'[r] : y \in seen[r] \/ (e.kind = "EXECUTION" /\ y = x)
    BY <2>4, <2>6, <2>7
  <2> QED
    BY <2>1, <2>2, <2>5, <2>6, <2>8 DEF SeenInv
<1>6. CASE CounterDoes
  <2>1. PICK e : Pushes(e)
    BY <1>6 DEF CounterDoes
  <2>2. seen' = seen /\ (evq' = evq \/ evq' = Append(evq, e)) /\ e \in EventType
    BY <1>6, <2>1 DEF CounterDoes, Pushes
  <2>3. ntrade <= ntrade' /\ (e.kind = "EXECUTION" => e.id <= ntrade')
    BY <1>4, <2>1 DEF Pushes, Judged, Traded, Canceled, SeenInv
  <2>4. \A r \in Refs : \A x \in seen[r] : x <= ntrade'
    <3>1. seen \in [Refs -> SUBSET Nat] /\ ntrade' \in Nat
      BY <1>1 DEF TypeInv
    <3> QED
      BY <1>4, <2>3, <3>1 DEF SeenInv
  <2>5. \A k \in DOMAIN evq : evq[k].kind = "EXECUTION" => evq[k].id <= ntrade'
    <3>1. ntrade' \in Nat
      BY <1>1 DEF TypeInv
    <3>2. \A k \in DOMAIN evq : evq[k] \in EventType
      BY <1>4
    <3>3. \A d \in EventType : d.kind = "EXECUTION" => d.id \in Nat
      BY DEF EventType
    <3> QED
      BY <1>4, <2>3, <3>1, <3>2, <3>3 DEF SeenInv
  <2>6. \A k \in DOMAIN evq' : evq'[k].kind = "EXECUTION" => evq'[k].id <= ntrade'
    <3>1. CASE evq' = evq
      BY <2>5, <3>1
    <3>2. CASE evq' = Append(evq, e)
      BY <1>4, <2>2, <2>3, <2>5, <3>2, WithinAppend
    <3> QED
      BY <2>2, <3>1, <3>2
  <2> QED
    BY <2>2, <2>4, <2>6 DEF SeenInv
<1> QED
  BY <1>2, <1>3, <1>5, <1>6
     DEF StepDoes, SendDoes, GetRtnDoes, DeleteDoes, RefuseDoes, EnterDoes,
         FillDoes, ListenDoes, CancelDoes, LogonDoes, Idle

-----------------------------------------------------------------------------
(* The executions that events tell: of the first event and the others, and *)
(* of one more event.                                                      *)
IsTrade(e, r) == e.kind = "EXECUTION" /\ e.ref = r

LEMMA IdsTail ==
  ASSUME NEW q \in Seq(EventType), q # <<>>, NEW r
  PROVE  Ids(q, r) = Ids(Tail(q), r)
                       \cup (IF IsTrade(q[1], r) THEN {q[1].id} ELSE {})
<1> DEFINE t == Tail(q)
<1>1. /\ DOMAIN q = 1 .. Len(q) /\ Len(q) \in Nat /\ 1 \in DOMAIN q
      /\ DOMAIN t = 1 .. Len(q) - 1
      /\ \A k \in DOMAIN t : t[k] = q[k + 1] /\ k + 1 \in DOMAIN q
  BY TailFacts
<1>2. ASSUME NEW x \in Ids(q, r)
      PROVE  x \in Ids(t, r) \/ (IsTrade(q[1], r) /\ x = q[1].id)
  <2>1. PICK k \in DOMAIN q : q[k].kind = "EXECUTION" /\ q[k].ref = r /\ x = q[k].id
    BY DEF Ids
  <2>2. CASE k = 1
    BY <2>1, <2>2 DEF IsTrade
  <2>3. CASE k # 1
    <3>1. PICK j : j = k - 1
      OBVIOUS
    <3>2. j \in DOMAIN t /\ t[j] = q[k]
      BY <1>1, <2>1, <2>3, <3>1
    <3> QED
      BY <2>1, <3>2 DEF Ids
  <2> QED
    BY <2>2, <2>3
<1>3. ASSUME NEW x \in Ids(t, r)
      PROVE  x \in Ids(q, r)
  <2>1. PICK k \in DOMAIN t : t[k].kind = "EXECUTION" /\ t[k].ref = r /\ x = t[k].id
    BY DEF Ids
  <2> QED
    BY <1>1, <2>1 DEF Ids
<1>4. IsTrade(q[1], r) => q[1].id \in Ids(q, r)
  BY <1>1 DEF Ids, IsTrade
<1> QED
  BY <1>2, <1>3, <1>4

LEMMA IdsAppend ==
  ASSUME NEW q \in Seq(EventType), NEW e \in EventType, NEW r
  PROVE  Ids(Append(q, e), r) = Ids(q, r) \cup (IF IsTrade(e, r) THEN {e.id} ELSE {})
<1> DEFINE t == Append(q, e)
<1>1. /\ DOMAIN t = 1 .. Len(q) + 1 /\ DOMAIN q = 1 .. Len(q) /\ Len(q) \in Nat
      /\ t[Len(q) + 1] = e /\ \A k \in DOMAIN q : t[k] = q[k]
  BY AppendFacts
<1>2. ASSUME NEW x \in Ids(t, r)
      PROVE  x \in Ids(q, r) \/ (IsTrade(e, r) /\ x = e.id)
  <2>1. PICK k \in DOMAIN t : t[k].kind = "EXECUTION" /\ t[k].ref = r /\ x = t[k].id
    BY DEF Ids
  <2>2. k \in DOMAIN q \/ k = Len(q) + 1
    BY <1>1
  <2> QED
    BY <1>1, <2>1, <2>2 DEF Ids, IsTrade
<1>3. ASSUME NEW x \in Ids(q, r)
      PROVE  x \in Ids(t, r)
  <2>1. PICK k \in DOMAIN q : q[k].kind = "EXECUTION" /\ q[k].ref = r /\ x = q[k].id
    BY DEF Ids
  <2>2. k \in DOMAIN t /\ t[k] = q[k]
    BY <1>1
  <2> QED
    BY <2>1, <2>2 DEF Ids
<1>4. IsTrade(e, r) => e.id \in Ids(t, r)
  <2>1. Len(q) + 1 \in DOMAIN t
    BY <1>1
  <2> QED
    BY <1>1, <2>1 DEF Ids, IsTrade
<1> QED
  BY <1>2, <1>3, <1>4

(* There are finitely many, all old. *)
LEMMA NewFinite ==
  ASSUME TypeInv, SeenInv, NEW r \in Refs
  PROVE  /\ IsFiniteSet(New(r)) /\ Cardinality(New(r)) \in Nat
         /\ ntrade + 1 \notin Ids(evq, r) /\ ntrade + 1 \notin seen[r]
         /\ ntrade \in Nat
<1>1. evq \in Seq(EventType) /\ ntrade \in Nat /\ seen[r] \subseteq Nat
  BY DEF TypeInv
<1>2. \A e \in EventType : e.kind = "EXECUTION" => e.id \in Nat
  BY DEF EventType
<1>3. \A k \in DOMAIN evq : evq[k].kind = "EXECUTION" =>
        evq[k].id \in Nat /\ evq[k].id <= ntrade
  BY <1>1, <1>2 DEF SeenInv
<1>4. ASSUME NEW x \in Ids(evq, r)
      PROVE  x \in 0 .. ntrade
  <2>1. PICK k \in DOMAIN evq : evq[k].kind = "EXECUTION" /\ x = evq[k].id
    BY DEF Ids
  <2> QED
    BY <1>1, <1>3, <2>1
<1>5. IsFiniteSet(0 .. ntrade)
  <2>1. 0 \in Int /\ ntrade \in Int
    BY <1>1
  <2> QED
    BY <2>1, FS_Interval, Zenon
<1>6. New(r) \subseteq 0 .. ntrade
  BY <1>4 DEF New
<1>7. IsFiniteSet(New(r))
  BY <1>5, <1>6, FS_Subset
<1>8. ntrade + 1 \notin 0 .. ntrade /\ ntrade + 1 \notin seen[r]
  BY <1>1 DEF SeenInv
<1> QED
  BY <1>1, <1>4, <1>7, <1>8, FS_CardinalityType

(* Where the first event stays in what follows it *)
LEMMA TailPlaces ==
  ASSUME NEW S, NEW q \in Seq(S), q # <<>>, NEW k \in DOMAIN q
  PROVE  k = 1 \/ (k - 1 \in DOMAIN Tail(q) /\ Tail(q)[k - 1] = q[k])
<1>1. /\ DOMAIN q = 1 .. Len(q) /\ Len(q) \in Nat /\ DOMAIN Tail(q) = 1 .. Len(q) - 1
      /\ \A j \in DOMAIN Tail(q) : Tail(q)[j] = q[j + 1]
  BY TailFacts
<1>2. CASE k # 1
  <2>1. k - 1 \in DOMAIN Tail(q) /\ (k - 1) + 1 = k
    BY <1>1, <1>2
  <2> QED
    BY <1>1, <2>1
<1> QED
  BY <1>2

(* An event that was due and is not any more was the first one. *)
LEMMA DueTail ==
  ASSUME TypeInv, evq # <<>>, evq' = Tail(evq), NEW r, NEW kinds, Due(r, kinds)
  PROVE  Due(r, kinds)' \/ (evq[1].kind \in kinds /\ evq[1].ref = r)
<1>1. evq \in Seq(EventType)
  BY DEF TypeInv
<1>2. PICK k \in DOMAIN evq : evq[k].kind \in kinds /\ evq[k].ref = r
  BY DEF Due
<1>3. k = 1 \/ (k - 1 \in DOMAIN evq' /\ evq'[k - 1] = evq[k])
  BY <1>1, <1>2, TailPlaces
<1> QED
  BY <1>2, <1>3 DEF Due

LEMMA DueAppend ==
  ASSUME TypeInv, NEW e \in EventType, evq' = Append(evq, e), NEW r, NEW kinds
  PROVE  /\ Due(r, kinds) => Due(r, kinds)'
         /\ e.kind \in kinds /\ e.ref = r => Due(r, kinds)'
<1>1. /\ DOMAIN evq' = 1 .. Len(evq) + 1 /\ DOMAIN evq = 1 .. Len(evq)
      /\ Len(evq) \in Nat /\ evq'[Len(evq) + 1] = e
      /\ \A k \in DOMAIN evq : evq'[k] = evq[k]
  BY AppendFacts DEF TypeInv
<1>2. Len(evq) + 1 \in DOMAIN evq' /\ \A k \in DOMAIN evq : k \in DOMAIN evq'
  BY <1>1
<1> QED
  BY <1>1, <1>2 DEF Due

-----------------------------------------------------------------------------
(* The query is answered: every order is told as it is. *)
LEMMA StatusClosed ==
  ASSUME NEW o \in SrvType, o.st = "mrejected" => o.filled = 0
  PROVE  "CLOSED" \in StatusOf(o) <=>
           o.st \in {"rejected", "mrejected", "cxled"} \/ o.filled >= o.vol
<1>1. /\ "CLOSED" \in Bits("REJECT") /\ "CLOSED" \in Bits("MARKET_REJECT")
      /\ "CLOSED" \in Bits("CANCELED")
  BY DEF Bits
<1>2. CASE o.st \in {"rejected", "mrejected", "cxled"} \/ o.filled >= o.vol
  <2>1. CASE o.st = "mrejected"
    BY <1>1, <2>1 DEF StatusOf
  <2>2. CASE o.st \in {"rejected", "cxled"} \/ o.filled >= o.vol
    BY <1>1, <2>2 DEF StatusOf
  <2> QED
    BY <1>2, <2>1, <2>2
<1>3. CASE ~(o.st \in {"rejected", "mrejected", "cxled"} \/ o.filled >= o.vol)
  BY <1>3 DEF StatusOf
<1> QED
  BY <1>2, <1>3

LEMMA FollowListen ==
  ASSUME BaseInv, TrackInv, NEW m, ListenDoes(m), BaseInv', ~raced
  PROVE  EventInv' /\ \A r \in Refs : Reported(r)'
<1>1. TypeInv /\ TypeInv' /\ OwnInv
  BY DEF BaseInv
<1>2. /\ snap = srv /\ evq = <<>> /\ evq' = evq /\ srv' = srv /\ ecmd' = ecmd
      /\ ecmd = None /\ seen' = seen
  BY DEF ListenDoes, TrackInv, FollowInv
<1>3. EventInv'
  BY <1>2 DEF EventInv
<1>4. ASSUME NEW r \in Refs
      PROVE  Reported(r)'
  <2>1. Ids(evq, r) = {}
    BY <1>2 DEF Ids
  <2>2. New(r)' = {} /\ Cardinality({}) = 0
    BY <1>2, <2>1, FS_EmptySet DEF New
  <2>3. srv[r] \in SrvType /\ srv[r].filled \in Nat /\ srv[r].vol \in Nat
    BY <1>1 DEF TypeInv, SrvType
  <2>4. CASE srv[r].st = "none"
    <3>1. track'[r] = NoTrack
      BY <1>1, <1>2, <2>4 DEF ListenDoes, OwnInv
    <3>2. srv[r].filled = 0
      BY <2>4 DEF TrackInv, SrvInv
    <3> QED
      BY <1>2, <2>2, <2>4, <3>1, <3>2 DEF Reported, NoTrack, HasTrack
  <2>5. CASE srv[r].st # "none"
    <3>1. PICK o : o = srv[r]
      OBVIOUS
    <3>2. track'[r] = TrackRec(StatusOf(o), o.vol, o.filled, track[r].local, r, 1)
      BY <1>2, <2>5, <3>1 DEF ListenDoes
    <3>3. /\ track'[r].traded = o.filled /\ track'[r].sess = 1
          /\ track'[r].vol = o.vol /\ track'[r].st = StatusOf(o)
      BY <3>2 DEF TrackRec
    <3>4. "CLOSED" \in StatusOf(o) <=>
            o.st \in {"rejected", "mrejected", "cxled"} \/ o.filled >= o.vol
      BY <2>3, <3>1, StatusClosed DEF TrackInv, SrvInv
    <3>5. o.filled >= o.vol => o.st = "filled"
      <4>1. /\ o.st \in {"none", "sent", "accepted", "rejected", "mrejected"} => o.filled = 0
            /\ o.st # "none" => o.vol > 0
            /\ o.st \in {"live", "cxled"} => o.filled < o.vol
        BY <3>1 DEF TrackInv, SrvInv
      <4>2. o.st \in {"none", "sent", "accepted", "rejected", "mrejected", "live",
                      "cxled", "filled"} /\ o.filled \in Nat /\ o.vol \in Nat
        BY <2>3, <3>1 DEF SrvType, Done
      <4> QED
        BY <2>5, <3>1, <4>1, <4>2
    <3>6. o.filled + 0 = o.filled
      BY <2>3, <3>1
    <3> QED
      BY <1>2, <2>2, <3>1, <3>3, <3>4, <3>5, <3>6 DEF Reported, Done
  <2> QED
    BY <2>4, <2>5
<1> QED
  BY <1>3, <1>4

(* An order that is traded to its end is filled. *)
LEMMA FilledUp ==
  ASSUME TypeInv, SrvInv, NEW r \in Refs, srv[r].st # "none", srv[r].filled >= srv[r].vol
  PROVE  srv[r].st = "filled"
<1>1. srv[r] \in SrvType
  BY DEF TypeInv
<1>2. srv[r].st \in {"none", "sent", "accepted", "rejected", "mrejected", "live",
                     "cxled", "filled"} /\ srv[r].filled \in Nat /\ srv[r].vol \in Nat
  BY <1>1 DEF SrvType, Done
<1> QED
  BY <1>2 DEF SrvInv

(* The callbacks: an acceptance gives the token, ... *)
LEMMA AcceptGives ==
  ASSUME BaseInv, TrackInv, CallbackDoes, evq[1].kind = "ACCEPT"
  PROVE  track'[evq[1].ref].sess = 1
<1> DEFINE e == evq[1]
<1>1. Handles(e) /\ e.ref \in Refs
  BY FirstEvent DEF CallbackDoes, BaseInv
<1>2. Reports(e.ref, "ACCEPT", 0) \/ (Silent /\ Test(track[e.ref].st, "ACCEPT"))
  BY <1>1 DEF Handles, MarketTypes
<1>3. CASE Reports(e.ref, "ACCEPT", 0)
  BY <1>3 DEF Reports, Advances
<1>4. CASE Silent /\ Test(track[e.ref].st, "ACCEPT")
  BY <1>1, <1>4 DEF Silent, Test, Bits, TrackInv, StInv
<1> QED
  BY <1>2, <1>3, <1>4

(* ... and no token is lost; ... *)
LEMMA TokenStays ==
  ASSUME BaseInv, CallbackDoes, NEW r \in Refs, track[r].sess = 1
  PROVE  track'[r].sess = 1
<1>1. CASE Silent
  BY <1>1 DEF Silent
<1>2. CASE \E q, type, v : Reports(q, type, v)
  <2>1. PICK q, type, v : Reports(q, type, v)
    BY <1>2
  <2>2. q \in Refs /\ \A p \in Refs \ {q} : track'[p] = track[p]
    BY <2>1, ReportsEffect DEF BaseInv
  <2>3. track[q].sess = 1 => track'[q].sess = 1
    BY <2>1 DEF Reports, Advances
  <2> QED
    BY <2>2, <2>3
<1> QED
  BY <1>1, <1>2, CallbackTracks

(* ... an end closes the track, ... *)
LEMMA EndingCloses ==
  ASSUME BaseInv, TrackInv, CallbackDoes, EventInv, up = "up", evq[1].kind \in Ending
  PROVE  "CLOSED" \in track'[evq[1].ref].st
<1> DEFINE e == evq[1]
<1>1. Handles(e) /\ e.ref \in Refs /\ ecmd = None
  BY FirstEvent DEF CallbackDoes, BaseInv, Ending
<1>2. "CLOSED" \in Bits(e.kind) /\ Bits(e.kind) = {e.kind, "CLOSED"}
  BY DEF Ending, Bits
<1>3. CASE Reports(e.ref, e.kind, 0)
  BY <1>2, <1>3 DEF Reports, Advances
<1>4. CASE Silent /\ Test(track[e.ref].st, e.kind)
  BY <1>1, <1>2, <1>4 DEF Silent, Test, TrackInv, StInv, Ending
<1>5. ~(e.kind \in MarketTypes /\ ~(track[e.ref].sess = 1 /\ e.ref < reqId))
  <2>1. ASSUME e.kind \in MarketTypes
        PROVE  track[e.ref].sess = 1 /\ e.ref < reqId
    <3>1. DOMAIN evq = 1 .. Len(evq) /\ 1 \in DOMAIN evq
      BY TailFacts DEF BaseInv, TypeInv, CallbackDoes
    <3>2. track[e.ref].sess = 1
      BY <2>1, <3>1 DEF EventInv, MarketTypes
    <3>3. srv[e.ref].st # "none"
      BY <2>1, <3>1 DEF BaseInv, NameInv, EvqNamed, MarketTypes
    <3>4. PICK n \in 0 .. MaxOrders : Entered(n)
      BY DEF BaseInv, EntryInv
    <3>5. e.ref <= n /\ reqId = n + 1
      BY <1>1, <3>3, <3>4 DEF Entered
    <3> QED
      BY <1>1, <3>2, <3>5 DEF Refs
  <2> QED
    BY <2>1
<1> QED
  BY <1>1, <1>3, <1>4, <1>5 DEF Handles, Ending

(* ... and a trade not seen before counts once. *)
LEMMA NewAfter ==
  ASSUME BaseInv, TrackInv, CallbackDoes, NEW r \in Refs
  PROVE  /\ New(r)' = New(r) \/ IsTrade(evq[1], r)
         /\ IsTrade(evq[1], r) /\ evq[1].id \in seen[r] => New(r)' = New(r)
         /\ IsTrade(evq[1], r) /\ evq[1].id \notin seen[r] =>
              Cardinality(New(r)) = Cardinality(New(r)') + 1
         /\ Cardinality(New(r)') \in Nat
<1> DEFINE e == evq[1]
<1>1. /\ evq \in Seq(EventType) /\ evq # <<>> /\ evq' = Tail(evq) /\ Handles(e)
      /\ seen \in [Refs -> SUBSET Nat] /\ TypeInv /\ SeenInv
  BY DEF CallbackDoes, BaseInv, TypeInv, TrackInv
<1>2. Ids(evq, r) = Ids(Tail(evq), r) \cup (IF IsTrade(e, r) THEN {e.id} ELSE {})
  BY <1>1, IdsTail
<1>0. Cardinality(New(r)) \in Nat
  BY <1>1, NewFinite
<1>3. CASE ~IsTrade(e, r)
  <2>1. seen'[r] = seen[r]
    <3>1. seen' = seen \/ (e.kind = "EXECUTION"
                           /\ seen' = [seen EXCEPT ![e.ref] = @ \cup {e.id}])
      BY <1>1 DEF Handles
    <3> QED
      BY <1>1, <1>3, <3>1 DEF IsTrade
  <2>2. Ids(evq', r) = Ids(evq, r)
    BY <1>1, <1>2, <1>3
  <2> QED
    BY <1>0, <1>3, <2>1, <2>2 DEF New
<1>4. CASE IsTrade(e, r) /\ e.id \in seen[r]
  <2>1. seen' = seen
    BY <1>1, <1>4 DEF Handles, IsTrade
  <2> QED
    BY <1>0, <1>1, <1>2, <1>4, <2>1 DEF New
<1>5. CASE IsTrade(e, r) /\ e.id \notin seen[r]
  <2>1. seen'[r] = seen[r] \cup {e.id}
    BY <1>1, <1>5 DEF Handles, IsTrade
  <2>2. New(r)' = New(r) \ {e.id} /\ e.id \in New(r)
    BY <1>1, <1>2, <1>5, <2>1 DEF New
  <2>3. IsFiniteSet(New(r)) /\ Cardinality(New(r)) \in Nat
    BY <1>1, NewFinite
  <2>4. PICK N, x : N = New(r) /\ x = e.id
    OBVIOUS
  <2>5. x \in N /\ IsFiniteSet(N) /\ Cardinality(N) \in Nat
    BY <2>2, <2>3, <2>4
  <2>6. Cardinality(N \ {x}) = Cardinality(N) - 1 /\ IsFiniteSet(N \ {x})
    BY <2>5, FS_RemoveElement
  <2>7. Cardinality(N \ {x}) \in Nat
    BY <2>6, FS_CardinalityType
  <2>8. New(r)' = N \ {x}
    BY <2>2, <2>4
  <2>9. /\ Cardinality(New(r)) = Cardinality(New(r)') + 1
        /\ Cardinality(New(r)') \in Nat
    BY <2>4, <2>5, <2>6, <2>7, <2>8
  <2> QED
    BY <1>5, <2>9
<1> QED
  BY <1>3, <1>4, <1>5

LEMMA FollowCallback ==
  ASSUME BaseInv, TrackInv, CallbackDoes, BaseInv', EventInv, up = "up",
         NEW r \in Refs, Reported(r)
  PROVE  Reported(r)'
<1> DEFINE e == evq[1]
<1>1. TypeInv /\ TypeInv' /\ SrvInv /\ StInv /\ SeenInv /\ SeenInv'
  <2>1. SeenInv'
    BY SeenStep DEF TrackInv, StepDoes
  <2> QED
    BY <2>1 DEF BaseInv, TrackInv
<1>2. /\ evq \in Seq(EventType) /\ evq # <<>> /\ evq' = Tail(evq) /\ Handles(e)
      /\ UNCHANGED <<srv, reqId, ecmd>> /\ ecmd = None /\ e.kind \in ReportTypes
      /\ e.kind # "CANCEL_REJECT" => e.ref \in Refs
  BY <1>1, FirstEvent DEF CallbackDoes, TypeInv, svars
<1>3. /\ srv[r] \in SrvType /\ track[r] \in TrackType /\ track'[r] \in TrackType
      /\ srv[r].filled \in Nat /\ srv[r].vol \in Nat /\ track[r].traded \in Nat
      /\ track[r].vol \in Nat
  BY <1>1 DEF TypeInv, SrvType, TrackType
<1>4. /\ Cardinality(New(r)) \in Nat /\ Cardinality(New(r)') \in Nat
  <2>1. Cardinality(New(r)) \in Nat
    BY <1>1, NewFinite
  <2> QED
    BY <2>1, NewAfter
<1>5. /\ track'[r].vol = track[r].vol /\ track[r].st \subseteq track'[r].st
      /\ \/ /\ track'[r].traded = track[r].traded
            /\ Cardinality(New(r)') = Cardinality(New(r))
         \/ /\ track'[r].traded = track[r].traded + 1
            /\ Cardinality(New(r)) = Cardinality(New(r)') + 1
            /\ track'[r].traded >= track[r].vol => "CLOSED" \in track'[r].st
      /\ "CLOSED" \in track'[r].st =>
           \/ "CLOSED" \in track[r].st \/ (e.kind \in Ending /\ e.ref = r)
           \/ track'[r].traded >= track[r].vol
  <2>1. CASE ~IsTrade(e, r) /\ track'[r] = track[r]
    BY <2>1, NewAfter
  <2>2. CASE /\ ~IsTrade(e, r) /\ Reports(r, e.kind, 0)
             /\ e.kind # "CANCEL_REJECT" => e.ref = r
    <3>1. /\ track'[r].vol = track[r].vol /\ track'[r].traded = track[r].traded + 0
          /\ track'[r].st = track[r].st \cup Bits(e.kind)
      BY <1>3, <2>2 DEF Reports, Advances
    <3>2. "CLOSED" \in Bits(e.kind) => e.kind \in Ending
      BY <1>2 DEF Bits, Ending, ReportTypes
    <3>3. e.kind \in Ending => e.kind # "CANCEL_REJECT"
      BY DEF Ending
    <3> QED
      BY <1>3, <2>2, <3>1, <3>2, <3>3, NewAfter
  <2>3. CASE IsTrade(e, r) /\ e.id \in seen[r]
    <3>1. Silent
      BY <1>2, <2>3 DEF Handles, IsTrade
    <3>2. track'[r] = track[r]
      BY <3>1 DEF Silent
    <3>3. New(r)' = New(r)
      BY <2>3, NewAfter
    <3> QED
      BY <3>2, <3>3
  <2>4. CASE IsTrade(e, r) /\ e.id \notin seen[r]
    <3>1. Reports(r, "EXECUTION", 1)
      BY <1>2, <2>4 DEF Handles, IsTrade
    <3>2. /\ track'[r].vol = track[r].vol /\ track'[r].traded = track[r].traded + 1
          /\ track'[r].st = track[r].st \cup {"EXECUTION"}
               \cup (IF track'[r].traded >= track[r].vol THEN {"CLOSED"} ELSE {})
      BY <1>3, <3>1 DEF Reports, Advances, Bits
    <3>3. Cardinality(New(r)) = Cardinality(New(r)') + 1
      BY <2>4, NewAfter
    <3> QED
      BY <3>2, <3>3
  <2>5. ASSUME Silent
        PROVE  track'[r] = track[r]
    BY <2>5 DEF Silent
  <2>6. ASSUME NEW q, NEW type, NEW v, Reports(q, type, v), q # r
        PROVE  track'[r] = track[r]
    BY <1>1, <2>6, ReportsEffect
  <2>7. CASE e.kind \notin {"EXECUTION", "CANCEL_REJECT"}
    <3>1. Reports(e.ref, e.kind, 0) \/ Silent
      BY <1>2, <2>7 DEF Handles
    <3>2. ~IsTrade(e, r)
      BY <2>7 DEF IsTrade
    <3> QED
      BY <2>1, <2>2, <2>5, <2>6, <3>1, <3>2
  <2>8. CASE e.kind = "CANCEL_REJECT"
    <3>1. Reports(e.tok, "CANCEL_REJECT", 0) \/ Silent
      BY <1>2, <2>8 DEF Handles
    <3>2. ~IsTrade(e, r)
      BY <2>8 DEF IsTrade
    <3> QED
      BY <2>1, <2>2, <2>5, <2>6, <2>8, <3>1, <3>2
  <2>9. CASE e.kind = "EXECUTION" /\ e.ref # r
    <3>1. Silent \/ Reports(e.ref, "EXECUTION", 1)
      BY <1>2, <2>9 DEF Handles
    <3>2. ~IsTrade(e, r)
      BY <2>9 DEF IsTrade
    <3> QED
      BY <2>1, <2>5, <2>6, <2>9, <3>1, <3>2
  <2> QED
    BY <2>3, <2>4, <2>7, <2>8, <2>9 DEF IsTrade
<1>6. track'[r].traded + Cardinality(New(r)') = srv[r].filled
  <2>1. track[r].traded + Cardinality(New(r)) = srv[r].filled
    BY DEF Reported
  <2>2. track'[r].traded \in Nat
    BY <1>3 DEF TrackType
  <2> QED
    BY <1>3, <1>4, <1>5, <2>1, <2>2
<1>7. /\ HasTrack(r)' = HasTrack(r)
      /\ HasTrack(r) => track'[r].vol = srv[r].vol
      /\ HasTrack(r) /\ track'[r].traded >= track'[r].vol => "CLOSED" \in track'[r].st
  <2>1. HasTrack(r)' = HasTrack(r)
    BY <1>2 DEF HasTrack
  <2> QED
    BY <1>5, <2>1 DEF Reported
<1>8. "CLOSED" \in track'[r].st => srv[r].st \in Done
  <2>1. CASE "CLOSED" \in track[r].st
    BY <2>1 DEF Reported
  <2>2. CASE e.kind \in Ending /\ e.ref = r
    <3>1. 1 \in DOMAIN evq
      BY <1>2, TailFacts
    <3> QED
      BY <2>2, <3>1 DEF EventInv, Ending, Done
  <2>3. CASE track'[r].traded >= track[r].vol
    <3>1. CASE srv[r].st = "none"
      <4>1. track[r] = NoTrack
        BY <3>1 DEF BaseInv, OwnInv
      <4>2. track'[r] = NoTrack
        BY <1>1, <1>2, <3>1 DEF BaseInv, OwnInv
      <4> QED
        BY <4>2 DEF NoTrack
    <3>2. CASE srv[r].st # "none"
      <4>1. HasTrack(r) /\ track[r].vol = srv[r].vol
        BY <1>2, <3>2 DEF HasTrack, Reported
      <4>2. track'[r].traded \in Nat
        BY <1>3 DEF TrackType
      <4>3. srv[r].filled >= srv[r].vol
        BY <1>3, <1>4, <1>6, <2>3, <4>1, <4>2
      <4> QED
        BY <1>1, <3>2, <4>3, FilledUp DEF Done
    <3> QED
      BY <3>1, <3>2
  <2> QED
    BY <1>5, <2>1, <2>2, <2>3
<1>9. srv[r].st \in {"rejected", "mrejected", "cxled"} =>
        "CLOSED" \in track'[r].st \/ Due(r, Ending)'
  <2>1. CASE "CLOSED" \in track[r].st
    BY <1>5, <2>1
  <2>2. CASE Due(r, Ending)
    <3>1. Due(r, Ending)' \/ (e.kind \in Ending /\ e.ref = r)
      BY <1>1, <1>2, <2>2, DueTail
    <3> QED
      BY <3>1, EndingCloses
  <2> QED
    BY <2>1, <2>2 DEF Reported
<1>10. srv[r].st \notin {"none", "sent", "rejected"} =>
         track'[r].sess = 1 \/ Due(r, {"ACCEPT"})'
  <2>1. CASE track[r].sess = 1
    BY <2>1, TokenStays
  <2>2. CASE Due(r, {"ACCEPT"})
    <3>1. Due(r, {"ACCEPT"})' \/ (e.kind = "ACCEPT" /\ e.ref = r)
      BY <1>1, <1>2, <2>2, DueTail
    <3> QED
      BY <3>1, AcceptGives
  <2> QED
    BY <2>1, <2>2 DEF Reported
<1> QED
  BY <1>2, <1>6, <1>7, <1>8, <1>9, <1>10 DEF Reported

LEMMA EventCallback ==
  ASSUME BaseInv, TrackInv, CallbackDoes, EventInv
  PROVE  EventInv'
<1>1. /\ evq \in Seq(EventType) /\ evq # <<>> /\ evq' = Tail(evq) /\ srv' = srv
  BY DEF CallbackDoes, BaseInv, TypeInv, svars
<1>2. /\ DOMAIN evq = 1 .. Len(evq) /\ Len(evq) \in Nat
      /\ DOMAIN evq' = 1 .. Len(evq) - 1
      /\ \A k \in DOMAIN evq' : evq'[k] = evq[k + 1] /\ k + 1 \in DOMAIN evq
  BY <1>1, TailFacts
<1>3. ASSUME NEW k \in DOMAIN evq', evq'[k].kind \in {"MARKET_ACCEPT", "MARKET_REJECT"}
      PROVE  \/ track'[evq'[k].ref].sess = 1
             \/ \E j \in DOMAIN evq' :
                  j < k /\ evq'[j].kind = "ACCEPT" /\ evq'[j].ref = evq'[k].ref
  <2>1. PICK n, r : n = k + 1 /\ r = evq[n].ref
    OBVIOUS
  <2>2. n \in DOMAIN evq /\ evq'[k] = evq[n]
    BY <1>2, <2>1
  <2>3. r \in Refs
    <3>1. evq[n] \in EventType
      BY <1>1, <2>2
    <3> QED
      BY <1>3, <2>1, <2>2, <3>1 DEF EventType
  <2>4. CASE track[r].sess = 1
    BY <2>1, <2>2, <2>3, <2>4, TokenStays
  <2>5. CASE \E j \in DOMAIN evq : j < n /\ evq[j].kind = "ACCEPT" /\ evq[j].ref = r
    <3>1. PICK j \in DOMAIN evq : j < n /\ evq[j].kind = "ACCEPT" /\ evq[j].ref = r
      BY <2>5
    <3>2. CASE j = 1
      BY <2>1, <2>2, <3>1, <3>2, AcceptGives
    <3>3. CASE j # 1
      <4>1. j - 1 \in DOMAIN evq' /\ evq'[j - 1] = evq[j]
        BY <1>1, <3>1, <3>3, TailPlaces
      <4>2. j - 1 < k
        BY <1>2, <2>1, <3>1
      <4> QED
        BY <2>1, <2>2, <3>1, <4>1, <4>2
    <3> QED
      BY <3>2, <3>3
  <2> QED
    BY <1>3, <2>1, <2>2, <2>4, <2>5 DEF EventInv
<1>4. ASSUME NEW k \in DOMAIN evq'
      PROVE  /\ evq'[k].kind = "REJECT" => srv'[evq'[k].ref].st = "rejected"
             /\ evq'[k].kind = "MARKET_REJECT" => srv'[evq'[k].ref].st = "mrejected"
             /\ evq'[k].kind = "CANCELED" => srv'[evq'[k].ref].st = "cxled"
  BY <1>1, <1>2 DEF EventInv
<1> QED
  BY <1>3, <1>4 DEF EventInv

-----------------------------------------------------------------------------
(* The counter: an order that is over stays so, ... *)
LEMMA DoneStays ==
  ASSUME NEW e, Pushes(e), NEW r \in Refs
  PROVE  /\ srv[r].st \in Done => srv'[r] = srv[r]
         /\ srv'[r].vol = srv[r].vol /\ (srv'[r].st = "none" <=> srv[r].st = "none")
<1>1. CASE srv'[r] = srv[r]
  BY <1>1
<1>2. CASE e.ref = r /\ (Judged(e) \/ Traded(e) \/ Canceled(e))
  BY <1>2 DEF Judged, Traded, Canceled, Done
<1> QED
  BY <1>1, <1>2 DEF Pushes

(* ... and of what it does an event is under way. *)
LEMMA CounterTells ==
  ASSUME NEW e, Pushes(e), NEW r \in Refs
  PROVE  /\ srv'[r].st \in {"rejected", "mrejected", "cxled"} =>
              \/ srv[r].st = srv'[r].st
              \/ e.kind \in Ending /\ e.ref = r
         /\ srv'[r].st \notin {"none", "sent", "rejected"} =>
              \/ srv[r].st \notin {"none", "sent", "rejected"}
              \/ e.kind = "ACCEPT" /\ e.ref = r
         /\ \/ IsTrade(e, r) /\ e.id = ntrade + 1 /\ srv'[r].filled = srv[r].filled + 1
            \/ /\ srv'[r].filled = srv[r].filled
               /\ IsTrade(e, r) => e.id \in Ids(evq, r)
<1>1. CASE srv'[r] = srv[r] /\ (IsTrade(e, r) => e.id \in Ids(evq, r))
  BY <1>1
<1>2. CASE e.ref = r /\ Judged(e)
  BY <1>2 DEF Judged, Ending, IsTrade
<1>3. CASE e.ref = r /\ Traded(e)
  <2>1. srv'[r].st \in {"live", "filled"}
    BY <1>3 DEF Traded
  <2> QED
    BY <1>3, <2>1 DEF Traded, Ending, IsTrade
<1>4. CASE e.ref = r /\ Canceled(e)
  BY <1>4 DEF Canceled, Ending, IsTrade
<1>5. CASE e.ref # r /\ srv'[r] = srv[r]
  BY <1>1, <1>5 DEF IsTrade
<1>6. CASE e.kind = "EXECUTION" /\ (\E k \in DOMAIN evq : e = evq[k]) /\ srv' = srv
  BY <1>1, <1>6 DEF IsTrade, Ids
<1>7. CASE e.kind = "CANCEL_REJECT" /\ srv' = srv
  BY <1>1, <1>7 DEF IsTrade
<1> QED
  BY <1>2, <1>3, <1>4, <1>5, <1>6, <1>7 DEF Pushes

(* What is new of an order's executions after one more event *)
LEMMA NewMore ==
  ASSUME TypeInv, SeenInv, NEW e \in EventType, evq' = Append(evq, e), seen' = seen,
         NEW r \in Refs
  PROVE  /\ ~IsTrade(e, r) \/ e.id \in Ids(evq, r) => New(r)' = New(r)
         /\ IsTrade(e, r) /\ e.id = ntrade + 1 =>
              Cardinality(New(r)') = Cardinality(New(r)) + 1
<1>1. evq \in Seq(EventType)
  BY DEF TypeInv
<1>2. Ids(evq', r) = Ids(evq, r) \cup (IF IsTrade(e, r) THEN {e.id} ELSE {})
  BY <1>1, IdsAppend
<1>3. CASE ~IsTrade(e, r) \/ e.id \in Ids(evq, r)
  <2>1. Ids(evq', r) = Ids(evq, r)
    BY <1>2, <1>3
  <2>2. New(r)' = New(r)
    BY <2>1 DEF New
  <2> QED
    BY <1>3, <2>2, NewFinite
<1>4. CASE IsTrade(e, r) /\ e.id = ntrade + 1
  <2>1. PICK N, x : N = New(r) /\ x = e.id
    OBVIOUS
  <2>2. /\ IsFiniteSet(N) /\ Cardinality(N) \in Nat /\ x \notin Ids(evq, r)
        /\ x \notin seen[r]
    BY <1>4, <2>1, NewFinite
  <2>3. x \notin N /\ New(r)' = N \cup {x}
    BY <1>2, <1>4, <2>1, <2>2 DEF New
  <2>4. Cardinality(N \cup {x}) = Cardinality(N) + 1
    BY <2>2, <2>3, FS_AddElement
  <2>5. Cardinality(New(r)') = Cardinality(New(r)) + 1
    BY <2>1, <2>3, <2>4
  <2> QED
    BY <1>4, <2>2, <2>1, <2>5
<1> QED
  BY <1>3, <1>4

LEMMA FollowCounter ==
  ASSUME BaseInv, TrackInv, CounterDoes, BaseInv', up = "up", EventInv,
         \A r \in Refs : Reported(r)
  PROVE  EventInv' /\ \A r \in Refs : Reported(r)'
<1>1. TypeInv /\ TypeInv' /\ SeenInv /\ evq \in Seq(EventType)
  BY DEF BaseInv, TrackInv, TypeInv
<1>2. PICK e : Pushes(e)
  BY DEF CounterDoes
<1>3. /\ UNCHANGED <<up, reqId, ecmd, track, seen>> /\ e \in EventType
      /\ evq' = Append(evq, e)
  BY <1>2 DEF CounterDoes, Pushes
<1>4. /\ DOMAIN evq' = 1 .. Len(evq) + 1 /\ DOMAIN evq = 1 .. Len(evq)
      /\ Len(evq) \in Nat /\ evq'[Len(evq) + 1] = e
      /\ \A k \in DOMAIN evq : evq'[k] = evq[k]
  BY <1>1, <1>3, AppendFacts
<1>5. ASSUME NEW k \in DOMAIN evq
      PROVE  /\ evq'[k].kind = "REJECT" => srv'[evq'[k].ref].st = "rejected"
             /\ evq'[k].kind = "MARKET_REJECT" => srv'[evq'[k].ref].st = "mrejected"
             /\ evq'[k].kind = "CANCELED" => srv'[evq'[k].ref].st = "cxled"
             /\ evq'[k].kind \in {"MARKET_ACCEPT", "MARKET_REJECT"} =>
                  \/ track'[evq'[k].ref].sess = 1
                  \/ \E j \in DOMAIN evq' :
                       j < k /\ evq'[j].kind = "ACCEPT" /\ evq'[j].ref = evq'[k].ref
  <2>1. PICK d, r : d = evq[k] /\ r = d.ref
    OBVIOUS
  <2>2. d \in EventType /\ evq'[k] = d
    BY <1>1, <1>4, <2>1
  <2>3. d.kind \notin {"CANCEL_REJECT"} => r \in Refs
    BY <2>1, <2>2 DEF EventType
  <2>4. d.kind \notin {"CANCEL_REJECT"} /\ srv[r].st \in Done => srv'[r] = srv[r]
    BY <1>2, <2>3, DoneStays
  <2>5. /\ d.kind = "REJECT" => srv[r].st = "rejected"
        /\ d.kind = "MARKET_REJECT" => srv[r].st = "mrejected"
        /\ d.kind = "CANCELED" => srv[r].st = "cxled"
    BY <2>1 DEF EventInv
  <2>6. d.kind \in {"MARKET_ACCEPT", "MARKET_REJECT"} =>
          \/ track[r].sess = 1
          \/ \E j \in DOMAIN evq : j < k /\ evq[j].kind = "ACCEPT" /\ evq[j].ref = r
    BY <2>1 DEF EventInv
  <2>7. d.kind \in {"MARKET_ACCEPT", "MARKET_REJECT"} =>
          \/ track'[r].sess = 1
          \/ \E j \in DOMAIN evq' : j < k /\ evq'[j].kind = "ACCEPT" /\ evq'[j].ref = r
    BY <1>3, <1>4, <2>6
  <2> QED
    BY <2>1, <2>2, <2>4, <2>5, <2>7 DEF Done
<1>6. /\ e.kind = "REJECT" => srv'[e.ref].st = "rejected"
      /\ e.kind = "MARKET_REJECT" => srv'[e.ref].st = "mrejected"
      /\ e.kind = "CANCELED" => srv'[e.ref].st = "cxled"
      /\ e.kind \in {"MARKET_ACCEPT", "MARKET_REJECT"} =>
           e.ref \in Refs /\ srv[e.ref].st = "accepted"
  BY <1>2 DEF Pushes, Judged, Traded, Canceled
<1>7. e.kind \in {"MARKET_ACCEPT", "MARKET_REJECT"} =>
        \/ track'[e.ref].sess = 1
        \/ \E j \in DOMAIN evq' :
             j < Len(evq) + 1 /\ evq'[j].kind = "ACCEPT" /\ evq'[j].ref = e.ref
  <2>1. ASSUME e.kind \in {"MARKET_ACCEPT", "MARKET_REJECT"}
        PROVE  track[e.ref].sess = 1 \/ Due(e.ref, {"ACCEPT"})
    BY <1>6, <2>1 DEF Reported
  <2>2. ASSUME Due(e.ref, {"ACCEPT"})
        PROVE  \E j \in DOMAIN evq' :
                 j < Len(evq) + 1 /\ evq'[j].kind = "ACCEPT" /\ evq'[j].ref = e.ref
    BY <1>4, <2>2 DEF Due
  <2> QED
    BY <1>3, <2>1, <2>2
<1>8. EventInv'
  <2>1. \A k \in DOMAIN evq' : k \in DOMAIN evq \/ k = Len(evq) + 1
    BY <1>4
  <2> QED
    BY <1>4, <1>5, <1>6, <1>7, <2>1 DEF EventInv
<1>9. ASSUME NEW r \in Refs
      PROVE  Reported(r)'
  <2>1. /\ track[r] \in TrackType /\ srv[r] \in SrvType /\ srv'[r] \in SrvType
    BY <1>1 DEF TypeInv
  <2>2. /\ track[r].traded \in Nat /\ srv[r].filled \in Nat /\ srv'[r].filled \in Nat
        /\ Cardinality(New(r)) \in Nat
    BY <1>1, <2>1, NewFinite DEF TrackType, SrvType
  <2>3. track'[r].traded + Cardinality(New(r)') = srv'[r].filled
    <3>1. track[r].traded + Cardinality(New(r)) = srv[r].filled
      BY DEF Reported
    <3>2. CASE IsTrade(e, r) /\ e.id = ntrade + 1 /\ srv'[r].filled = srv[r].filled + 1
      <4>1. Cardinality(New(r)') = Cardinality(New(r)) + 1
        BY <1>1, <1>3, <3>2, NewMore
      <4>2. PICK c, t, f : /\ c = Cardinality(New(r)) /\ t = track[r].traded
                          /\ f = srv[r].filled
        OBVIOUS
      <4>3. t + (c + 1) = f + 1
        BY <2>2, <3>1, <4>2
      <4>4. track'[r].traded = t /\ Cardinality(New(r)') = c + 1 /\ srv'[r].filled = f + 1
        BY <1>3, <3>2, <4>1, <4>2
      <4> QED
        BY <4>3, <4>4, Zenon
    <3>3. CASE /\ srv'[r].filled = srv[r].filled
               /\ IsTrade(e, r) => e.id \in Ids(evq, r)
      <4>1. New(r)' = New(r)
        BY <1>1, <1>3, <3>3, NewMore
      <4> QED
        BY <1>3, <3>1, <3>3, <4>1
    <3> QED
      BY <1>2, <3>2, <3>3, CounterTells
  <2>4. "CLOSED" \in track'[r].st => srv'[r].st \in Done
    BY <1>2, <1>3, DoneStays DEF Reported
  <2>5. srv'[r].st \in {"rejected", "mrejected", "cxled"} =>
          "CLOSED" \in track'[r].st \/ Due(r, Ending)'
    <3>1. /\ Due(r, Ending) => Due(r, Ending)'
          /\ e.kind \in Ending /\ e.ref = r => Due(r, Ending)'
      BY <1>1, <1>3, DueAppend
    <3>2. srv[r].st \in {"rejected", "mrejected", "cxled"} =>
            "CLOSED" \in track[r].st \/ Due(r, Ending)
      BY DEF Reported
    <3>3. srv'[r].st \in {"rejected", "mrejected", "cxled"} =>
            srv[r].st = srv'[r].st \/ (e.kind \in Ending /\ e.ref = r)
      BY <1>2, CounterTells
    <3> QED
      BY <1>3, <3>1, <3>2, <3>3
  <2>6. srv'[r].st \notin {"none", "sent", "rejected"} =>
          track'[r].sess = 1 \/ Due(r, {"ACCEPT"})'
    <3>1. /\ Due(r, {"ACCEPT"}) => Due(r, {"ACCEPT"})'
          /\ e.kind \in {"ACCEPT"} /\ e.ref = r => Due(r, {"ACCEPT"})'
      BY <1>1, <1>3, DueAppend
    <3>2. srv[r].st \notin {"none", "sent", "rejected"} =>
            track[r].sess = 1 \/ Due(r, {"ACCEPT"})
      BY DEF Reported
    <3>3. srv'[r].st \notin {"none", "sent", "rejected"} =>
            srv[r].st \notin {"none", "sent", "rejected"} \/ (e.kind = "ACCEPT" /\ e.ref = r)
      BY <1>2, CounterTells
    <3> QED
      BY <1>3, <3>1, <3>2, <3>3
  <2>7. HasTrack(r)' = HasTrack(r) /\ srv'[r].vol = srv[r].vol
    BY <1>2, <1>3, DoneStays DEF HasTrack
  <2> QED
    BY <1>3, <2>3, <2>4, <2>5, <2>6, <2>7 DEF Reported
<1> QED
  BY <1>8, <1>9

-----------------------------------------------------------------------------
(* The commands of the engine *)
LEMMA FollowEnter ==
  ASSUME BaseInv, TrackInv, EnterDoes(cmds[1]), EventInv, \A r \in Refs : Reported(r)
  PROVE  EventInv' /\ \A r \in Refs : Reported(r)'
<1>1. /\ ecmd = None /\ ecmd' # None /\ reqId \in Refs /\ reqId' = reqId
      /\ srv[reqId].st = "none" /\ srv'[reqId].st = "sent" /\ srv'[reqId].filled = 0
      /\ \A r \in Refs \ {reqId} : srv'[r] = srv[r]
      /\ UNCHANGED <<track, seen, evq>>
  BY DEF EnterDoes
<1>2. track[reqId] = NoTrack /\ srv[reqId].filled = 0
  BY <1>1 DEF BaseInv, OwnInv, TrackInv, SrvInv
<1>3. EventInv'
  <2>1. ASSUME NEW k \in DOMAIN evq, evq[k].kind # "CANCEL_REJECT"
        PROVE  srv'[evq[k].ref] = srv[evq[k].ref]
    <3>1. evq[k].ref \in Refs
      <4>1. evq[k] \in EventType
        BY DEF BaseInv, TypeInv
      <4> QED
        BY <2>1, <4>1 DEF EventType
    <3>2. srv[evq[k].ref].st # "none"
      BY <2>1 DEF BaseInv, NameInv, EvqNamed
    <3> QED
      BY <1>1, <3>1, <3>2
  <2> QED
    BY <1>1, <2>1 DEF EventInv
<1>4. ASSUME NEW r \in Refs
      PROVE  Reported(r)'
  <2>1. /\ New(r)' = New(r) /\ Due(r, Ending)' = Due(r, Ending)
        /\ Due(r, {"ACCEPT"})' = Due(r, {"ACCEPT"})
    BY <1>1 DEF New, Due
  <2>2. CASE r = reqId
    <3>1. track[r].traded + Cardinality(New(r)) = 0
      BY <1>2, <2>2 DEF Reported
    <3> QED
      BY <1>1, <1>2, <2>1, <2>2, <3>1 DEF Reported, HasTrack, NoTrack
  <2>3. CASE r # reqId
    <3>1. HasTrack(r)' = HasTrack(r) /\ srv'[r] = srv[r]
      BY <1>1, <2>3 DEF HasTrack
    <3> QED
      BY <1>1, <2>1, <3>1 DEF Reported
  <2> QED
    BY <2>2, <2>3
<1> QED
  BY <1>3, <1>4

LEMMA FollowFill ==
  ASSUME BaseInv, TrackInv, NEW m, FillDoes(ecmd.local, m), EventInv,
         \A r \in Refs : Reported(r)
  PROVE  EventInv' /\ \A r \in Refs : Reported(r)'
<1>1. /\ ecmd # None /\ ecmd' = None /\ reqId \in Refs /\ srv[reqId].st # "none"
      /\ track'[reqId] = TrackRec({"TDSEND"}, Vol[ecmd.local], 0, ecmd.local, 0, 0)
      /\ \A r \in Refs \ {reqId} : track'[r] = track[r]
      /\ Vol[ecmd.local] \in Nat \ {0} /\ UNCHANGED <<srv, seen, evq>>
  BY DEF FillDoes
<1>2. /\ track[reqId] = NoTrack /\ track[reqId].sess = 0 /\ track[reqId].traded = 0
      /\ track[reqId].st = {} /\ srv[reqId].vol = Vol[ecmd.local]
  BY <1>1 DEF BaseInv, OwnInv, TrackInv, SrvInv, NoTrack
<1>3. /\ track'[reqId].sess = 0 /\ track'[reqId].traded = 0
      /\ track'[reqId].st = {"TDSEND"} /\ track'[reqId].vol = Vol[ecmd.local]
  BY <1>1 DEF TrackRec
<1>4. \A r \in Refs : track'[r].sess = track[r].sess
  BY <1>1, <1>2, <1>3
<1>5. EventInv'
  <2>1. \A k \in DOMAIN evq : evq[k].kind \in {"MARKET_ACCEPT", "MARKET_REJECT"} =>
          evq[k].ref \in Refs
    <3>1. \A k \in DOMAIN evq : evq[k] \in EventType
      BY DEF BaseInv, TypeInv
    <3> QED
      BY <3>1 DEF EventType
  <2> QED
    BY <1>1, <1>4, <2>1 DEF EventInv
<1>6. ASSUME NEW r \in Refs
      PROVE  Reported(r)'
  <2>1. /\ New(r)' = New(r) /\ Due(r, Ending)' = Due(r, Ending)
        /\ Due(r, {"ACCEPT"})' = Due(r, {"ACCEPT"})
    BY <1>1 DEF New, Due
  <2>2. CASE r = reqId
    <3>1. ~(0 >= Vol[ecmd.local])
      BY <1>1
    <3> QED
      BY <1>1, <1>2, <1>3, <2>1, <2>2, <3>1 DEF Reported, HasTrack
  <2>3. CASE r # reqId
    <3>1. HasTrack(r)' = HasTrack(r) /\ track'[r] = track[r]
      BY <1>1, <2>3 DEF HasTrack
    <3> QED
      BY <1>1, <2>1, <3>1 DEF Reported
  <2> QED
    BY <2>2, <2>3
<1> QED
  BY <1>5, <1>6

LEMMA FollowCancel ==
  ASSUME BaseInv, CancelDoes(cmds[1]), EventInv, \A r \in Refs : Reported(r)
  PROVE  EventInv' /\ \A r \in Refs : Reported(r)'
<1>1. PICK q : q = cmds[1].ref
  OBVIOUS
<1>2. /\ q \in Refs /\ track[q] \in TrackType
      /\ track'[q] = WithBits(track[q], {"CXLING"})
      /\ \A r \in Refs \ {q} : track'[r] = track[r]
      /\ UNCHANGED <<srv, seen, evq, ecmd, reqId>>
  BY <1>1 DEF CancelDoes
<1>3. track'[q] = TrackRec(track[q].st \cup {"CXLING"}, track[q].vol, track[q].traded,
                           track[q].local, track[q].tok, track[q].sess)
  BY <1>2, WithBitsRec
<1>4. \A r \in Refs :
        /\ track'[r].sess = track[r].sess /\ track'[r].traded = track[r].traded
        /\ track'[r].vol = track[r].vol
        /\ "CLOSED" \in track'[r].st <=> "CLOSED" \in track[r].st
  BY <1>2, <1>3 DEF TrackRec
<1>5. EventInv'
  <2>1. \A k \in DOMAIN evq : evq[k].kind \in {"MARKET_ACCEPT", "MARKET_REJECT"} =>
          evq[k].ref \in Refs
    <3>1. \A k \in DOMAIN evq : evq[k] \in EventType
      BY DEF BaseInv, TypeInv
    <3> QED
      BY <3>1 DEF EventType
  <2> QED
    BY <1>2, <1>4, <2>1 DEF EventInv
<1>6. ASSUME NEW r \in Refs
      PROVE  Reported(r)'
  <2>1. /\ New(r)' = New(r) /\ Due(r, Ending)' = Due(r, Ending)
        /\ Due(r, {"ACCEPT"})' = Due(r, {"ACCEPT"}) /\ HasTrack(r)' = HasTrack(r)
    BY <1>2 DEF New, Due, HasTrack
  <2> QED
    BY <1>2, <1>4, <2>1 DEF Reported
<1> QED
  BY <1>5, <1>6

-----------------------------------------------------------------------------
(* The tracks follow the counter. *)
LEMMA FollowStep ==
  ASSUME BaseInv, BaseInv', StepDoes, TrackInv
  PROVE  FollowInv'
<1>1. FollowInv
  BY DEF TrackInv
<1>2. CASE UNCHANGED <<up, reqId, ecmd, track, seen, srv, evq, raced, snap>>
  <2>1. \A r \in Refs : Reported(r)' = Reported(r)
    <3>1. ASSUME NEW r \in Refs
          PROVE  Reported(r)' = Reported(r)
      <4>1. /\ New(r)' = New(r) /\ Due(r, Ending)' = Due(r, Ending)
            /\ Due(r, {"ACCEPT"})' = Due(r, {"ACCEPT"}) /\ HasTrack(r)' = HasTrack(r)
        BY <1>2 DEF New, Due, HasTrack
      <4> QED
        BY <1>2, <4>1 DEF Reported
    <3> QED
      BY <3>1
  <2>2. EventInv' = EventInv
    BY <1>2 DEF EventInv
  <2> QED
    BY <1>1, <1>2, <2>1, <2>2 DEF FollowInv
<1>3. CASE DiesDoes
  BY <1>3 DEF DiesDoes, FollowInv
<1>4. CASE LogonDoes
  <2>1. evq = <<>>
    BY <1>4 DEF LogonDoes, BaseInv, EntryInv, Entered
  <2> QED
    BY <1>4, <2>1 DEF LogonDoes, FollowInv
<1>5. CASE \E m : ListenDoes(m)
  <2>1. PICK m : ListenDoes(m)
    BY <1>5
  <2>2. up' = "up" /\ raced' = raced
    BY <2>1 DEF ListenDoes
  <2>3. ~raced => EventInv' /\ \A r \in Refs : Reported(r)'
    BY <2>1, FollowListen
  <2> QED
    BY <2>2, <2>3 DEF FollowInv
<1>6. CASE CounterDoes
  <2>1. up' = up /\ raced' = (raced \/ up = "query")
    BY <1>6 DEF CounterDoes
  <2>2. CASE up = "up" /\ ~raced
    <3>1. EventInv' /\ \A r \in Refs : Reported(r)'
      BY <1>1, <1>6, <2>2, FollowCounter DEF FollowInv
    <3> QED
      BY <2>1, <2>2, <3>1 DEF FollowInv
  <2> QED
    BY <2>1, <2>2 DEF FollowInv
<1>7. CASE CallbackDoes
  <2>1. up' = up /\ raced' = raced /\ evq # <<>>
    BY <1>7 DEF CallbackDoes
  <2>2. CASE up = "up" /\ ~raced
    <3>1. EventInv /\ \A r \in Refs : Reported(r)
      BY <1>1, <2>2 DEF FollowInv
    <3>2. EventInv'
      BY <1>7, <3>1, EventCallback
    <3>3. \A r \in Refs : Reported(r)'
      BY <1>7, <2>2, <3>1, FollowCallback
    <3> QED
      BY <2>1, <2>2, <3>2, <3>3 DEF FollowInv
  <2> QED
    BY <1>1, <2>1, <2>2 DEF FollowInv
<1>8. CASE EnterDoes(cmds[1]) \/ CancelDoes(cmds[1]) \/ \E m : FillDoes(ecmd.local, m)
  <2>1. up = "up" /\ up' = up /\ raced' = raced
    BY <1>8 DEF EnterDoes, CancelDoes, FillDoes
  <2>2. CASE ~raced
    <3>1. EventInv /\ \A r \in Refs : Reported(r)
      BY <1>1, <2>1, <2>2 DEF FollowInv
    <3>2. EventInv' /\ \A r \in Refs : Reported(r)'
      BY <1>8, <3>1, FollowEnter, FollowCancel, FollowFill
    <3> QED
      BY <2>1, <2>2, <3>2 DEF FollowInv
  <2> QED
    BY <2>1, <2>2 DEF FollowInv
<1> QED
  BY <1>2, <1>3, <1>4, <1>5, <1>6, <1>7, <1>8
     DEF StepDoes, SendDoes, GetRtnDoes, DeleteDoes, RefuseDoes, Idle

LEMMA TrackInit == Init => TrackInv
<1> SUFFICES ASSUME Init PROVE TrackInv
  OBVIOUS
<1>1. /\ srv = [r \in Refs |-> NoOrder] /\ track = [r \in Refs |-> NoTrack]
      /\ seen = [r \in Refs |-> {}] /\ evq = <<>> /\ ecmd = None /\ up = "up"
      /\ ntrade = 0
  BY DEF Init
<1>2. /\ \A r \in Refs : /\ srv[r].st = "none" /\ srv[r].filled = 0
                         /\ track[r].st = {} /\ track[r].traded = 0
                         /\ track[r].sess = 0 /\ seen[r] = {}
      /\ DOMAIN evq = {}
  BY <1>1 DEF NoOrder, NoTrack
<1>3. SrvInv /\ StInv /\ SeenInv /\ EventInv
  BY <1>1, <1>2 DEF SrvInv, StInv, SeenInv, EventInv
<1>4. \A r \in Refs : New(r) = {}
  BY <1>2 DEF New, Ids
<1>5. ASSUME NEW r \in Refs
      PROVE  Reported(r)
  <2>1. Cardinality(New(r)) = 0
    BY <1>4, FS_EmptySet
  <2>2. ~HasTrack(r)
    BY <1>2 DEF HasTrack
  <2> QED
    BY <1>2, <2>1, <2>2 DEF Reported
<1> QED
  BY <1>1, <1>3, <1>5 DEF TrackInv, FollowInv

LEMMA TrackAlways == Spec => []TrackInv
<1>1. Init => TrackInv
  BY TrackInit
<1>2. BaseInv /\ TrackInv /\ [Next]_vars => TrackInv'
  <2>1. BaseInv /\ [Next]_vars => BaseInv' /\ StepDoes
    BY BaseStep
  <2>2. BaseInv /\ BaseInv' /\ StepDoes /\ TrackInv => TrackInv'
    BY SrvStep, StStep, SeenStep, FollowStep DEF TrackInv
  <2> QED
    BY <2>1, <2>2
<1> QED
  BY <1>1, <1>2, BaseAlways, PTL DEF Spec

(* Once the callbacks have run, a track says what the counter knows of its *)
(* order.                                                                  *)
LEMMA TracksFollow ==
  ASSUME BaseInv, TrackInv
  PROVE  TrackFollows
<1> SUFFICES ASSUME Quiet, NEW r \in Refs, srv[r].st \notin {"none", "sent"}
             PROVE  /\ track[r].traded = srv[r].filled
                    /\ ("CLOSED" \in track[r].st) = (srv[r].st \in Done)
                    /\ srv[r].st # "rejected" =>
                         track[r].tok = Token(r) /\ track[r].sess = 1
  BY DEF TrackFollows
<1>1. up = "up" /\ ecmd = None /\ evq = <<>> /\ ~raced
  BY DEF Quiet
<1>2. Reported(r) /\ track[r] \in TrackType /\ srv[r] \in SrvType
  BY <1>1 DEF TrackInv, FollowInv, BaseInv, TypeInv
<1>3. New(r) = {} /\ ~Due(r, Ending) /\ ~Due(r, {"ACCEPT"})
  BY <1>1 DEF New, Ids, Due
<1>4. track[r].traded = srv[r].filled
  <2>1. track[r].traded \in Nat /\ Cardinality({}) = 0
    BY <1>2, FS_EmptySet DEF TrackType
  <2> QED
    BY <1>2, <1>3, <2>1 DEF Reported
<1>5. srv[r].st \in Done => "CLOSED" \in track[r].st
  <2>1. CASE srv[r].st = "filled"
    <3>1. /\ srv[r].filled = srv[r].vol /\ track[r].vol = srv[r].vol /\ HasTrack(r)
          /\ srv[r].vol \in Nat
      BY <1>1, <1>2, <2>1 DEF TrackInv, SrvInv, HasTrack, Reported, SrvType
    <3> QED
      BY <1>2, <1>4, <3>1 DEF Reported
  <2> QED
    BY <1>2, <1>3, <2>1 DEF Reported, Done
<1> QED
  BY <1>2, <1>3, <1>4, <1>5 DEF Reported, BaseInv, OwnInv, Token

(* TrackFollows, for every number of orders, duplicates and deaths: the    *)
(* callbacks and the query of the orders (OnOrderExecution, OnOrderCxled,  *)
(* OnQueryTradeOrder) lose nothing and count nothing twice.                *)
THEOREM TrackFollowsAlways == Spec => []TrackFollows
<1>1. BaseInv /\ TrackInv => TrackFollows
  BY TracksFollow
<1> QED
  BY <1>1, BaseAlways, TrackAlways, PTL

-----------------------------------------------------------------------------
(* The returns under way: the volume of the first one, of one more, and    *)
(* none when none is about the order.                                      *)
LEMMA RtnTypes ==
  ASSUME TypeInv, NEW r
  PROVE  /\ DOMAIN RtnVol(r) = 1 .. Len(rtns) /\ Len(rtns) \in Nat
         /\ \A k \in DOMAIN rtns : rtns[k] \in RtnType
         /\ \A k \in 1 .. Len(rtns) : RtnVol(r)[k] \in Nat
<1>1. rtns \in Seq(RtnType)
  BY DEF TypeInv
<1>2. \A m \in RtnType : MsgVol(m, r) \in Nat
  BY DEF RtnType, MsgVol
<1> QED
  BY <1>1, <1>2 DEF RtnVol

LEMMA RtnTake ==
  ASSUME TypeInv, NEW r, rtns # <<>>, rtns' = Tail(rtns)
  PROVE  RtnSum(r) = MsgVol(rtns[1], r) + RtnSum(r)' /\ RtnSum(r)' \in Nat
<1>1. rtns \in Seq(RtnType)
  BY DEF TypeInv
<1>2. PICK n \in Nat : Len(rtns) = n + 1
  <2>1. Len(rtns) \in Nat \ {0}
    BY <1>1, TailFacts
  <2>2. Len(rtns) - 1 \in Nat /\ Len(rtns) = (Len(rtns) - 1) + 1
    BY <2>1
  <2> QED
    BY <2>2
<1>3. /\ DOMAIN rtns = 1 .. n + 1 /\ DOMAIN rtns' = 1 .. n /\ 1 \in DOMAIN rtns
      /\ \A k \in 1 .. n : rtns'[k] = rtns[k + 1] /\ k + 1 \in DOMAIN rtns
  <2>1. DOMAIN Tail(rtns) = 1 .. Len(rtns) - 1 /\ DOMAIN rtns = 1 .. Len(rtns)
        /\ 1 \in DOMAIN rtns
    BY <1>1, TailFacts
  <2>2. DOMAIN rtns' = 1 .. n
    BY <1>2, <2>1
  <2>3. \A k \in DOMAIN rtns' : rtns'[k] = rtns[k + 1] /\ k + 1 \in DOMAIN rtns
    BY <1>1, TailFacts
  <2> QED
    BY <1>2, <2>1, <2>2, <2>3
<1>4. PICK f, g : f = RtnVol(r) /\ g = RtnVol(r)'
  OBVIOUS
<1>5. DOMAIN f = 1 .. n + 1 /\ \A k \in 1 .. n + 1 : f[k] \in Nat
  BY <1>2, <1>4, RtnTypes
<1>6. DOMAIN g = 1 .. n
  BY <1>3, <1>4 DEF RtnVol
<1>7. \A k \in 1 .. n : g[k] = f[k + 1]
  <2> TAKE k \in 1 .. n
  <2>1. f[k + 1] = MsgVol(rtns[k + 1], r)
    BY <1>3, <1>4 DEF RtnVol
  <2>2. g[k] = MsgVol(rtns'[k], r)
    BY <1>3, <1>4 DEF RtnVol, MsgVol
  <2> QED
    BY <1>3, <2>1, <2>2
<1>8. SumFunction(f) = f[1] + SumFunction(g)
  <2>1. \A k \in 1 .. n + 1 : f[k] \in Int
    BY <1>5
  <2> QED
    BY ZenonT(60), <1>5, <1>6, <1>7, <2>1, SumTail
<1>9. \A k \in 1 .. n : g[k] \in Nat
  BY <1>5, <1>7
<1>10. SumFunction(g) \in Nat
  BY <1>6, <1>9, SumSeqNat
<1>11. f[1] = MsgVol(rtns[1], r)
  BY <1>3, <1>4 DEF RtnVol
<1> QED
  BY <1>4, <1>8, <1>10, <1>11 DEF RtnSum

LEMMA RtnWrite ==
  ASSUME TypeInv, NEW r, NEW m \in RtnType, rtns' = Append(rtns, m)
  PROVE  RtnSum(r)' = RtnSum(r) + MsgVol(m, r) /\ RtnSum(r) \in Nat
<1>1. rtns \in Seq(RtnType)
  BY DEF TypeInv
<1>2. PICK n \in Nat : Len(rtns) = n
  BY <1>1
<1>3. /\ DOMAIN rtns = 1 .. n /\ DOMAIN rtns' = 1 .. n + 1 /\ rtns'[n + 1] = m
      /\ \A k \in 1 .. n : rtns'[k] = rtns[k]
  BY <1>1, <1>2, AppendFacts
<1>4. PICK f, g : f = RtnVol(r) /\ g = RtnVol(r)'
  OBVIOUS
<1>5. DOMAIN f = 1 .. n /\ \A k \in 1 .. n : f[k] \in Nat
  BY <1>2, <1>4, RtnTypes
<1>6. DOMAIN g = 1 .. n + 1
  BY <1>3, <1>4 DEF RtnVol
<1>7. \A k \in 1 .. n : g[k] = f[k] /\ k \in 1 .. n + 1
  BY <1>3, <1>4 DEF RtnVol, MsgVol
<1>8. g[n + 1] = MsgVol(m, r) /\ MsgVol(m, r) \in Int
  BY <1>3, <1>4 DEF RtnVol, MsgVol, RtnType
<1>9. \A k \in 1 .. n + 1 : g[k] \in Int
  BY <1>5, <1>7, <1>8
<1>10. SumFunction(g) = SumFunction(f) + g[n + 1]
  BY <1>5, <1>6, <1>7, <1>9, SumMore
<1>11. SumFunction(f) \in Nat
  BY <1>5, SumSeqNat
<1> QED
  BY <1>4, <1>8, <1>10, <1>11 DEF RtnSum

LEMMA RtnNone ==
  ASSUME TypeInv, NEW r, \A k \in DOMAIN rtns : rtns[k].type # "START" => rtns[k].ref # r
  PROVE  RtnSum(r) = 0
<1>1. \A k \in DOMAIN rtns : MsgVol(rtns[k], r) = 0
  BY DEF MsgVol
<1>2. PICK n \in Nat : Len(rtns) = n
  BY RtnTypes
<1>3. DOMAIN rtns = 1 .. n
  BY <1>2 DEF TypeInv
<1>4. PICK f : f = RtnVol(r)
  OBVIOUS
<1>5. DOMAIN f = 1 .. n /\ \A k \in 1 .. n : f[k] = 0
  BY <1>1, <1>3, <1>4 DEF RtnVol
<1>6. IsFiniteSet(1 .. n)
  <2>1. 1 \in Int /\ n \in Int
    BY <1>2
  <2> QED
    BY <2>1, FS_Interval, Zenon
<1>7. SumFunctionOnSet(f, 1 .. n) = 0
  BY <1>5, <1>6, SumZero
<1> QED
  BY <1>4, <1>5, <1>7 DEF RtnSum, SumFunction

LEMMA RtnSumNat ==
  ASSUME TypeInv, NEW r
  PROVE  RtnSum(r) \in Nat
<1>1. PICK n \in Nat : Len(rtns) = n
  BY RtnTypes
<1>2. PICK f : f = RtnVol(r)
  OBVIOUS
<1>3. DOMAIN f = 1 .. n /\ \A k \in 1 .. n : f[k] \in Nat
  BY <1>1, <1>2, RtnTypes
<1> QED
  BY <1>2, <1>3, SumSeqNat DEF RtnSum

(* What is told of an order, after one more return and without the first.  *)
LEMMA ToldWrite ==
  ASSUME TypeInv, NEW r, NEW types, NEW m \in RtnType, rtns' = Append(rtns, m)
  PROVE  Told(r, types)' <=> Told(r, types) \/ (m.type \in types /\ m.ref = r)
<1>1. /\ DOMAIN rtns' = 1 .. Len(rtns) + 1 /\ DOMAIN rtns = 1 .. Len(rtns)
      /\ Len(rtns) \in Nat /\ rtns'[Len(rtns) + 1] = m
      /\ \A k \in DOMAIN rtns : rtns'[k] = rtns[k]
  BY AppendFacts DEF TypeInv
<1>2. /\ Len(rtns) + 1 \in DOMAIN rtns' /\ \A k \in DOMAIN rtns : k \in DOMAIN rtns'
      /\ \A k \in DOMAIN rtns' : k \in DOMAIN rtns \/ k = Len(rtns) + 1
  BY <1>1
<1> QED
  BY <1>1, <1>2 DEF Told

LEMMA ToldTake ==
  ASSUME TypeInv, NEW r, NEW types, rtns # <<>>, rtns' = Tail(rtns)
  PROVE  Told(r, types) <=> Told(r, types)' \/ (rtns[1].type \in types /\ rtns[1].ref = r)
<1>1. rtns \in Seq(RtnType)
  BY DEF TypeInv
<1>2. ASSUME Told(r, types)
      PROVE  Told(r, types)' \/ (rtns[1].type \in types /\ rtns[1].ref = r)
  <2>1. PICK k \in DOMAIN rtns : rtns[k].type \in types /\ rtns[k].ref = r
    BY <1>2 DEF Told
  <2>2. k = 1 \/ (k - 1 \in DOMAIN rtns' /\ rtns'[k - 1] = rtns[k])
    BY <1>1, <2>1, TailPlaces
  <2> QED
    BY <2>1, <2>2 DEF Told
<1>3. /\ 1 \in DOMAIN rtns
      /\ \A k \in DOMAIN rtns' : rtns'[k] = rtns[k + 1] /\ k + 1 \in DOMAIN rtns
  BY <1>1, TailFacts
<1>4. ASSUME Told(r, types)'
      PROVE  Told(r, types)
  BY <1>3, <1>4 DEF Told
<1> QED
  BY <1>2, <1>3, <1>4 DEF Told

-----------------------------------------------------------------------------
(* A step that leaves alone what matters of an order, its track and its    *)
(* returns                                                                 *)
SameTrack(r) ==
  /\ track'[r].local = track[r].local /\ track'[r].vol = track[r].vol
  /\ track'[r].traded = track[r].traded
  /\ "CLOSED" \in track'[r].st <=> "CLOSED" \in track[r].st
SameOt(i) ==
  /\ ots'[i].traded = ots[i].traded /\ ots'[i].ref = ots[i].ref
  /\ "CLOSED" \in ots'[i].st <=> "CLOSED" \in ots[i].st
SameRtns(r) ==
  /\ RtnSum(r)' = RtnSum(r) /\ (Told(r, AllBits) => Told(r, AllBits)')
  /\ Told(r, ClosingTypes)' <=> Told(r, ClosingTypes)

LEMMA FollowedKept ==
  ASSUME NEW r \in Refs, Followed(r), SameTrack(r), SameOt(track[r].local), SameRtns(r)
  PROVE  Followed(r)'
<1>1. PICK i : i = track[r].local
  OBVIOUS
<1>2. /\ i # 0 /\ track[r].vol = Vol[i]
      /\ track[r].traded >= track[r].vol => "CLOSED" \in track[r].st
      /\ ots[i].ref = r \/ Told(r, AllBits)
      /\ ots[i].traded + RtnSum(r) = track[r].traded
      /\ "CLOSED" \in ots[i].st \/ Told(r, ClosingTypes) => "CLOSED" \in track[r].st
      /\ "CLOSED" \in track[r].st => \/ "CLOSED" \in ots[i].st
                                     \/ Told(r, ClosingTypes)
                                     \/ track[r].traded >= track[r].vol
  BY <1>1 DEF Followed
<1>3. track'[r].local = i /\ SameOt(i)
  BY <1>1 DEF SameTrack
<1>4. /\ track'[r].traded >= track'[r].vol => "CLOSED" \in track'[r].st
      /\ ots'[i].ref = r \/ Told(r, AllBits)'
      /\ ots'[i].traded + RtnSum(r)' = track'[r].traded
      /\ "CLOSED" \in ots'[i].st \/ Told(r, ClosingTypes)' => "CLOSED" \in track'[r].st
      /\ "CLOSED" \in track'[r].st => \/ "CLOSED" \in ots'[i].st
                                      \/ Told(r, ClosingTypes)'
                                      \/ track'[r].traded >= track'[r].vol
  BY <1>2, <1>3 DEF SameTrack, SameOt, SameRtns
<1> QED
  BY <1>2, <1>3, <1>4 DEF Followed, SameTrack

LEMMA SameRtnsStay ==
  ASSUME rtns' = rtns, NEW r
  PROVE  SameRtns(r)
BY DEF SameRtns, RtnSum, RtnVol, Told

LEMMA SameRtnsWrite ==
  ASSUME TypeInv, NEW r, NEW m \in RtnType, rtns' = Append(rtns, m),
         m.type # "START" => m.ref # r \/ m.type \in {"ERR", "CANCEL_REJECT"}
  PROVE  SameRtns(r)
<1>1. RtnSum(r)' = RtnSum(r) + MsgVol(m, r) /\ RtnSum(r) \in Nat
  BY RtnWrite
<1>2. MsgVol(m, r) = 0
  BY DEF MsgVol
<1>3. Told(r, AllBits)' <=> Told(r, AllBits) \/ (m.type \in AllBits /\ m.ref = r)
  BY ToldWrite
<1>4. Told(r, ClosingTypes)' <=> Told(r, ClosingTypes) \/ (m.type \in ClosingTypes /\ m.ref = r)
  BY ToldWrite
<1>5. m.type \in ClosingTypes => m.type \notin {"START", "ERR", "CANCEL_REJECT"}
  BY DEF ClosingTypes, Ending
<1> QED
  BY <1>1, <1>2, <1>3, <1>4, <1>5 DEF SameRtns

(* An order of the helper of which only what does not matter changes       *)
LEMMA SoundKept ==
  ASSUME NEW i \in Locals, OtSound(i), SameOt(i), Pending(i)' => Pending(i),
         (\A r \in Refs : track'[r].local # i) => \A r \in Refs : track[r].local # i
  PROVE  OtSound(i)'
BY DEF OtSound, SameOt

(* The order of a track is one of the helper's. *)
LEMMA TrackLocal ==
  ASSUME BaseInv, NEW r \in Refs, track[r].local # 0
  PROVE  track[r].local \in DOMAIN ots /\ track[r].local \in Locals
<1>1. track[r] \in TrackType /\ ots \in Seq(OtType)
  BY DEF BaseInv, TypeInv
<1>2. track[r].local \in 1 .. MaxOrders /\ track[r].local <= Len(ots)
  BY <1>1 DEF TrackType, BaseInv, OwnInv
<1> QED
  BY <1>1, <1>2 DEF Locals

(* The orders of the helper have local ids. *)
LEMMA OtsLocal ==
  ASSUME TypeInv, NEW i \in DOMAIN ots
  PROVE  i \in Locals
<1>1. ots \in Seq(OtType) /\ Len(ots) <= MaxOrders /\ MaxOrders \in Nat
  BY EESAssumption DEF TypeInv, EESAssumption
<1>2. DOMAIN ots = 1 .. Len(ots) /\ Len(ots) \in Nat
  BY <1>1
<1> QED
  BY <1>1, <1>2 DEF Locals

-----------------------------------------------------------------------------
(* The helper reads a return. *)
LEMMA HelperGetRtn ==
  ASSUME BaseInv, BaseInv', HelperInv, deaths = 0, GetRtnDoes(rtns[1])
  PROVE  /\ \A r \in Refs : HasTrack(r)' => Followed(r)'
         /\ \A i \in DOMAIN ots' : OtSound(i)'
<1>1. PICK m : m = rtns[1]
  OBVIOUS
<1>2. TypeInv /\ TypeInv' /\ OwnInv /\ m.type # "START" /\ RtnNamed(m)
  BY <1>1 DEF BaseInv, HelperInv, GetRtnDoes, NameInv, RtnsNamed
<1>3. PICK i : i = m.local
  OBVIOUS
<1>4. /\ rtns # <<>> /\ rtns' = Tail(rtns) /\ m \in RtnType
      /\ UNCHANGED <<track, srv, ecmd, reqId, cmds>>
      /\ m.type \in AllBits /\ i \in DOMAIN ots /\ m.ref \in Refs \cup {-1}
      /\ m.vol \in Nat /\ i \in Locals /\ DOMAIN ots' = DOMAIN ots
      /\ ots'[i] = Updated(ots[i], m) /\ ots[i] \in OtType
      /\ \A j \in DOMAIN ots \ {i} : ots'[j] = ots[j]
  BY <1>1, <1>2, <1>3 DEF GetRtnDoes
<1>5. PICK n : n = ots[i].traded + IF m.type = "EXECUTION" THEN m.vol ELSE 0
  OBVIOUS
<1>6. /\ ots'[i].traded = n /\ ots'[i].ref = m.ref
      /\ ots'[i].st = ots[i].st \cup Bits(m.type)
                        \cup (IF n >= Vol[i] THEN {"CLOSED"} ELSE {})
  BY <1>3, <1>4, <1>5, UpdatedIs DEF OtRec
<1>7. /\ m.ref # -1 => track[m.ref].local = i
      /\ m.ref = -1 <=> m.type = "ERR"
      /\ m.ref = -1 => (\A r \in Refs : track[r].local # i) /\ ~Pending(i)
  BY <1>2, <1>3, <1>4 DEF RtnNamed, Lost
<1>8. "CLOSED" \in Bits(m.type) <=> m.type \in ClosingTypes \/ m.type = "ERR"
  BY <1>4 DEF Bits, ClosingTypes, Ending, AllBits
<1>9. ASSUME NEW r \in Refs, HasTrack(r)'
      PROVE  Followed(r)'
  <2>1. HasTrack(r) /\ Followed(r)
    BY <1>4, <1>9 DEF HasTrack, HelperInv
  <2>2. /\ RtnSum(r) = MsgVol(m, r) + RtnSum(r)' /\ RtnSum(r)' \in Nat
        /\ RtnSum(r) \in Nat
    BY <1>1, <1>2, <1>4, RtnTake, RtnSumNat
  <2>3. /\ Told(r, AllBits) <=> Told(r, AllBits)' \/ (m.type \in AllBits /\ m.ref = r)
        /\ Told(r, ClosingTypes) <=>
             Told(r, ClosingTypes)' \/ (m.type \in ClosingTypes /\ m.ref = r)
    BY <1>1, <1>2, <1>4, ToldTake
  <2>4. CASE track[r].local # i
    <3>1. m.ref # r
      <4>1. r # -1
        BY EESAssumption DEF Refs
      <4> QED
        BY <1>7, <2>4, <4>1
    <3>2. MsgVol(m, r) = 0
      BY <3>1 DEF MsgVol
    <3>3. SameRtns(r)
      BY <2>2, <2>3, <3>1, <3>2 DEF SameRtns
    <3>4. SameOt(track[r].local) /\ SameTrack(r)
      <4>1. track[r].local \in DOMAIN ots
        BY <2>1, TrackLocal DEF Followed
      <4> QED
        BY <1>4, <2>4, <4>1 DEF SameOt, SameTrack
    <3> QED
      BY <2>1, <3>3, <3>4, FollowedKept
  <2>5. CASE track[r].local = i
    <3>1. m.ref = r
      <4>1. m.ref # -1
        BY <1>7, <2>5
      <4>2. m.ref \in Refs /\ track[m.ref].local = track[r].local
        BY <1>4, <1>7, <2>5, <4>1
      <4> QED
        BY <1>2, <2>1, <4>2 DEF OwnInv, Followed
    <3>2. MsgVol(m, r) = IF m.type = "EXECUTION" THEN m.vol ELSE 0
      BY <3>1 DEF MsgVol
    <3>3. /\ ots[i].traded \in Nat /\ n \in Nat /\ track[r].traded \in Nat
          /\ track[r].vol \in Nat /\ n = ots[i].traded + MsgVol(m, r)
          /\ MsgVol(m, r) \in Nat
      <4>1. track[r] \in TrackType
        BY <1>2 DEF TypeInv
      <4> QED
        BY <1>4, <1>5, <3>2, <4>1 DEF OtType, TrackType
    <3>4. /\ track[r].vol = Vol[i] /\ i # 0
          /\ ots[i].traded + RtnSum(r) = track[r].traded
          /\ track[r].traded >= track[r].vol => "CLOSED" \in track[r].st
          /\ "CLOSED" \in ots[i].st \/ Told(r, ClosingTypes) => "CLOSED" \in track[r].st
          /\ "CLOSED" \in track[r].st => \/ "CLOSED" \in ots[i].st
                                         \/ Told(r, ClosingTypes)
                                         \/ track[r].traded >= track[r].vol
      BY <2>1, <2>5 DEF Followed
    <3>5. n + RtnSum(r)' = track[r].traded
      BY <2>2, <3>3, <3>4
    <3>6. n >= Vol[i] => track[r].traded >= track[r].vol
      BY <2>2, <3>3, <3>4, <3>5
    <3>7. m.type # "ERR"
      BY <1>7, <2>5
    <3>8. "CLOSED" \in ots'[i].st <=>
            "CLOSED" \in ots[i].st \/ m.type \in ClosingTypes \/ n >= Vol[i]
      BY <1>6, <1>8, <3>7
    <3>9. /\ "CLOSED" \in ots'[i].st \/ Told(r, ClosingTypes)' => "CLOSED" \in track[r].st
          /\ "CLOSED" \in track[r].st => \/ "CLOSED" \in ots'[i].st
                                         \/ Told(r, ClosingTypes)'
                                         \/ track[r].traded >= track[r].vol
      BY <2>3, <3>1, <3>4, <3>6, <3>8
    <3>10. /\ track'[r] = track[r] /\ track'[r].local = i
           /\ ots'[i].traded + RtnSum(r)' = track[r].traded /\ ots'[i].ref = r
      BY <1>4, <1>6, <2>5, <3>1, <3>5
    <3> QED
      BY <3>4, <3>9, <3>10 DEF Followed
  <2> QED
    BY <2>4, <2>5
<1>10. ASSUME NEW j \in DOMAIN ots'
       PROVE  OtSound(j)'
  <2>1. OtSound(j) /\ (Pending(j)' => Pending(j)) /\ j \in Locals
    <3>1. j \in DOMAIN ots
      BY <1>4
    <3>2. j \in Locals
      BY <1>2, <3>1, OtsLocal
    <3> QED
      BY <1>4, <3>1, <3>2 DEF HelperInv, Pending
  <2>2. CASE j # i
    <3>1. SameOt(j)
      BY <1>4, <2>2 DEF SameOt
    <3> QED
      BY <1>4, <2>1, <3>1, SoundKept
  <2>3. CASE j = i
    <3>1. ots'[i].traded >= Vol[i] => "CLOSED" \in ots'[i].st
      BY <1>6
    <3>2. (\A r \in Refs : track[r].local # i) => m.ref = -1
      BY <1>4, <1>7
    <3>3. (\A r \in Refs : track[r].local # i) => ots'[i].traded = 0
      <4>1. ots[i].traded \in Nat
        BY <1>4 DEF OtType
      <4> QED
        BY <1>5, <1>6, <1>7, <2>1, <2>3, <3>2, <4>1 DEF OtSound
    <3>4. ~Pending(i)
      <4>1. Pending(i) => \A r \in Refs : track[r].local # i
        BY <1>2, <1>4 DEF OwnInv
      <4> QED
        BY <1>7, <3>2, <4>1
    <3> QED
      BY <1>4, <2>1, <2>3, <3>1, <3>3, <3>4 DEF OtSound
  <2> QED
    BY <2>2, <2>3
<1> QED
  BY <1>9, <1>10

(* A callback reports what it does to a track. *)
LEMMA HelperCallback ==
  ASSUME BaseInv, BaseInv', HelperInv, deaths = 0, CallbackDoes
  PROVE  /\ \A r \in Refs : HasTrack(r)' => Followed(r)'
         /\ \A i \in DOMAIN ots' : OtSound(i)'
<1>1. TypeInv /\ TypeInv' /\ OwnInv
  BY DEF BaseInv
<1>2. UNCHANGED <<ots, cmds, ecmd, reqId, srv>>
  BY DEF CallbackDoes, hvars, svars
<1>3. \A i \in DOMAIN ots : SameOt(i) /\ i \in Locals
  BY <1>1, <1>2, OtsLocal DEF SameOt
<1>4. \A r \in Refs : track'[r].local = track[r].local
  <2>1. CASE Silent
    BY <2>1 DEF Silent
  <2>2. CASE \E q, type, v : Reports(q, type, v)
    <3>1. PICK q, type, v : Reports(q, type, v)
      BY <2>2
    <3>2. q \in Refs /\ \A p \in Refs \ {q} : track'[p] = track[p]
      BY <1>1, <3>1, ReportsEffect
    <3>3. track'[q].local = track[q].local
      BY <3>1 DEF Reports, Advances
    <3> QED
      BY <3>2, <3>3
  <2> QED
    BY <2>1, <2>2, CallbackTracks
<1>5. ASSUME NEW i \in DOMAIN ots'
      PROVE  OtSound(i)'
  <2>1. i \in DOMAIN ots /\ OtSound(i)
    BY <1>2 DEF HelperInv
  <2>2. Pending(i)' = Pending(i)
    BY <1>2 DEF Pending
  <2> QED
    BY <1>3, <1>4, <2>1, <2>2, SoundKept
<1>6. ASSUME NEW r \in Refs, HasTrack(r)'
      PROVE  Followed(r)'
  <2>1. HasTrack(r) /\ Followed(r)
    BY <1>2, <1>6 DEF HasTrack, HelperInv
  <2>2. track[r].local # 0 /\ SameOt(track[r].local)
    <3>1. track[r].local # 0
      BY <2>1 DEF Followed
    <3> QED
      BY <1>3, <3>1, TrackLocal
  <2>3. CASE Silent
    <3>1. SameTrack(r) /\ SameRtns(r)
      BY <2>3, SameRtnsStay DEF Silent, SameTrack
    <3> QED
      BY <2>1, <2>2, <3>1, FollowedKept
  <2>4. CASE \E q, type, v : Reports(q, type, v)
    <3>1. PICK q, type, v : Reports(q, type, v)
      BY <2>4
    <3>2. /\ q \in Refs /\ \A p \in Refs \ {q} : track'[p] = track[p]
          /\ track[q].local = 0 => rtns' = rtns
          /\ track[q].local # 0 =>
               \E m \in RtnType : Report1(q, type, v, m) /\ rtns' = Append(rtns, m)
      BY <1>1, <3>1, ReportsEffect
    <3>3. CASE q # r
      <4>1. SameTrack(r)
        BY <3>2, <3>3 DEF SameTrack
      <4>2. SameRtns(r)
        <5>1. CASE rtns' = rtns
          BY <5>1, SameRtnsStay
        <5>2. CASE track[q].local # 0
          <6>1. PICK m \in RtnType : Report1(q, type, v, m) /\ rtns' = Append(rtns, m)
            BY <3>2, <5>2
          <6>2. m.ref = q
            BY <6>1 DEF Report1
          <6> QED
            BY <1>1, <3>3, <6>1, <6>2, SameRtnsWrite
        <5> QED
          BY <3>2, <5>1, <5>2
      <4> QED
        BY <2>1, <2>2, <4>1, <4>2, FollowedKept
    <3>4. CASE q = r
      <4>1. PICK m \in RtnType : Report1(r, type, v, m) /\ rtns' = Append(rtns, m)
        BY <2>2, <3>2, <3>4
      <4>2. m.ref = r /\ m.type = type /\ m.vol = v
        BY <4>1 DEF Report1
      <4>3. /\ type \in ReportTypes /\ v = IF type = "EXECUTION" THEN 1 ELSE 0
            /\ track'[r].local = track[r].local /\ track'[r].vol = track[r].vol
            /\ track'[r].traded = track[r].traded + v
            /\ track'[r].st = track[r].st \cup Bits(type)
                 \cup (IF v > 0 /\ track'[r].traded >= track[r].vol
                       THEN {"CLOSED"} ELSE {})
        BY <3>1, <3>4 DEF Reports, Advances
      <4>4. RtnSum(r)' = RtnSum(r) + v /\ RtnSum(r) \in Nat
        <5>1. MsgVol(m, r) = v
          BY <4>2, <4>3 DEF MsgVol
        <5> QED
          BY <1>1, <4>1, <5>1, RtnWrite
      <4>5. /\ Told(r, AllBits)' <=> Told(r, AllBits) \/ (m.type \in AllBits /\ m.ref = r)
            /\ Told(r, ClosingTypes)' <=>
                 Told(r, ClosingTypes) \/ (m.type \in ClosingTypes /\ m.ref = r)
        BY <1>1, <4>1, ToldWrite
      <4>6. /\ "CLOSED" \in Bits(type) <=> type \in ClosingTypes
            /\ type \in AllBits
        BY <4>3 DEF Bits, ClosingTypes, Ending, ReportTypes, AllBits
      <4>7. PICK i : i = track[r].local
        OBVIOUS
      <4>8. /\ i # 0 /\ track[r].vol = Vol[i]
            /\ track[r].traded >= track[r].vol => "CLOSED" \in track[r].st
            /\ ots[i].traded + RtnSum(r) = track[r].traded
            /\ "CLOSED" \in ots[i].st \/ Told(r, ClosingTypes) => "CLOSED" \in track[r].st
            /\ "CLOSED" \in track[r].st => \/ "CLOSED" \in ots[i].st
                                           \/ Told(r, ClosingTypes)
                                           \/ track[r].traded >= track[r].vol
        BY <2>1, <4>7 DEF Followed
      <4>9. /\ track[r].traded \in Nat /\ track[r].vol \in Nat /\ v \in {0, 1}
            /\ ots[i].traded \in Nat
        <5>1. track[r] \in TrackType /\ i \in DOMAIN ots
          BY <1>1, <2>2, <4>7, TrackLocal DEF TypeInv
        <5>2. ots[i] \in OtType
          BY <1>1, <5>1 DEF TypeInv
        <5> QED
          BY <4>3, <5>1, <5>2 DEF TrackType, OtType
      <4>10. ots[i].traded + RtnSum(r)' = track'[r].traded
        BY <4>3, <4>4, <4>8, <4>9
      <4>11. track'[r].traded >= track[r].vol =>
               (v > 0 \/ track[r].traded >= track[r].vol)
        BY <4>3, <4>9
      <4>12. track[r].traded >= track[r].vol => track'[r].traded >= track[r].vol
        BY <4>3, <4>9
      <4>13. "CLOSED" \in track'[r].st <=>
               \/ "CLOSED" \in track[r].st \/ type \in ClosingTypes
               \/ (v > 0 /\ track'[r].traded >= track[r].vol)
        BY <4>3, <4>6
      <4>14. /\ track'[r].traded >= track'[r].vol => "CLOSED" \in track'[r].st
             /\ "CLOSED" \in ots'[i].st \/ Told(r, ClosingTypes)' =>
                  "CLOSED" \in track'[r].st
             /\ "CLOSED" \in track'[r].st => \/ "CLOSED" \in ots'[i].st
                                             \/ Told(r, ClosingTypes)'
                                             \/ track'[r].traded >= track'[r].vol
             /\ Told(r, AllBits)'
        BY <1>2, <4>2, <4>3, <4>5, <4>6, <4>8, <4>11, <4>12, <4>13
      <4>15. /\ track'[r].local = i /\ track'[r].vol = Vol[i]
             /\ ots'[i].traded + RtnSum(r)' = track'[r].traded
        BY <1>2, <4>3, <4>7, <4>8, <4>10
      <4> QED
        BY <4>8, <4>14, <4>15 DEF Followed
    <3> QED
      BY <3>3, <3>4
  <2> QED
    BY <2>3, <2>4, CallbackTracks
<1> QED
  BY <1>5, <1>6

(* The track of an order is filled, and the helper told. *)
LEMMA HelperFill ==
  ASSUME BaseInv, BaseInv', HelperInv, deaths = 0, NEW m, FillDoes(ecmd.local, m)
  PROVE  /\ \A r \in Refs : HasTrack(r)' => Followed(r)'
         /\ \A i \in DOMAIN ots' : OtSound(i)'
<1>1. TypeInv /\ TypeInv' /\ OwnInv /\ RtnsNamed
  BY DEF BaseInv, NameInv
<1>2. PICK i, q : i = ecmd.local /\ q = reqId
  OBVIOUS
<1>3. /\ ecmd # None /\ i \in Locals /\ ecmd' = None /\ q \in Refs
      /\ track'[q] = TrackRec({"TDSEND"}, Vol[i], 0, i, 0, 0) /\ Vol[i] \in Nat \ {0}
      /\ \A r \in Refs \ {q} : track'[r] = track[r]
      /\ m \in RtnType /\ m.type = "TDSEND" /\ m.ref = q /\ rtns' = Append(rtns, m)
      /\ UNCHANGED <<ots, cmds, srv>>
  BY <1>2 DEF FillDoes
<1>4. /\ track'[q].vol = Vol[i] /\ track'[q].traded = 0 /\ track'[q].local = i
      /\ track'[q].st = {"TDSEND"}
  BY <1>3 DEF TrackRec
<1>5. /\ track[q] = NoTrack /\ track[q].local = 0 /\ Pending(i)
      /\ \A r \in Refs : track[r].local # i
  <2>1. track[q] = NoTrack /\ Pending(i)
    BY <1>1, <1>2, <1>3 DEF OwnInv, Pending
  <2> QED
    BY <1>1, <1>3, <2>1 DEF OwnInv, NoTrack
<1>6. i # 0 /\ 0 \notin Locals /\ i \in DOMAIN ots
  <2>1. PICK n \in 0 .. MaxOrders : Entered(n)
    BY DEF BaseInv, EntryInv
  <2>2. i <= Len(ots) /\ ots \in Seq(OtType)
    BY <1>1, <1>2, <1>3, <2>1 DEF Entered, TypeInv
  <2> QED
    BY <1>3, <2>2 DEF Locals
<1>7. \A j \in DOMAIN ots : SameOt(j) /\ j \in Locals
  BY <1>1, <1>3, OtsLocal DEF SameOt
<1>8. ASSUME NEW j \in DOMAIN ots'
      PROVE  OtSound(j)'
  <2>1. OtSound(j) /\ j \in DOMAIN ots
    BY <1>3 DEF HelperInv
  <2>2. Pending(j)' => Pending(j)
    BY <1>3 DEF Pending
  <2>3. (\A r \in Refs : track'[r].local # j) => \A r \in Refs : track[r].local # j
    BY <1>3, <1>5, <1>6, <1>7, <2>1
  <2> QED
    BY <1>7, <2>1, <2>2, <2>3, SoundKept
<1>9. \A k \in DOMAIN rtns : rtns[k].type # "START" => rtns[k].ref # q
  <2>1. SUFFICES ASSUME NEW k \in DOMAIN rtns, rtns[k].type # "START", rtns[k].ref = q
                 PROVE  FALSE
    OBVIOUS
  <2>2. q # -1
    BY <1>3, EESAssumption DEF Refs
  <2>3. track[q].local = rtns[k].local
    BY <1>1, <2>1, <2>2 DEF RtnsNamed, RtnNamed
  <2>4. rtns[k] \in RtnType
    BY <1>1 DEF TypeInv
  <2>5. rtns[k].local \in Locals
    BY <2>1, <2>4 DEF RtnType
  <2> QED
    BY <1>5, <1>6, <2>3, <2>5
<1>10. ASSUME NEW r \in Refs, HasTrack(r)'
       PROVE  Followed(r)'
  <2>1. CASE r # q
    <3>1. HasTrack(r) /\ Followed(r)
      BY <1>2, <1>3, <1>10, <2>1 DEF HasTrack, HelperInv
    <3>2. SameTrack(r)
      BY <1>3, <2>1 DEF SameTrack
    <3>3. SameOt(track[r].local)
      <4>1. track[r].local # 0
        BY <3>1 DEF Followed
      <4> QED
        BY <1>7, <4>1, TrackLocal
    <3>4. SameRtns(r)
      BY <1>1, <1>3, <2>1, SameRtnsWrite
    <3> QED
      BY <3>1, <3>2, <3>3, <3>4, FollowedKept
  <2>2. CASE r = q
    <3>1. RtnSum(q) = 0 /\ RtnSum(q)' = RtnSum(q) + MsgVol(m, q)
      BY <1>1, <1>3, <1>9, RtnNone, RtnWrite
    <3>2. RtnSum(q)' = 0
      BY <1>3, <3>1 DEF MsgVol
    <3>3. /\ Told(q, AllBits)' <=> Told(q, AllBits) \/ (m.type \in AllBits /\ m.ref = q)
          /\ Told(q, ClosingTypes)' <=>
               Told(q, ClosingTypes) \/ (m.type \in ClosingTypes /\ m.ref = q)
      BY <1>1, <1>3, ToldWrite
    <3>4. ~Told(q, ClosingTypes) /\ "TDSEND" \in AllBits /\ "TDSEND" \notin ClosingTypes
      BY <1>9 DEF Told, ClosingTypes, Ending, AllBits
    <3>5. ots'[i].traded = 0 /\ "CLOSED" \notin ots'[i].st
      BY <1>3, <1>5, <1>6 DEF HelperInv, OtSound
    <3>6. ots'[i].traded + RtnSum(q)' = 0 /\ ~(0 >= Vol[i])
      BY <1>3, <3>2, <3>5
    <3> QED
      BY <1>3, <1>4, <1>6, <2>2, <3>3, <3>4, <3>5, <3>6 DEF Followed
  <2> QED
    BY <2>1, <2>2
<1> QED
  BY <1>8, <1>10

(* A step that leaves alone what matters of all of them *)
LEMMA HelperKept ==
  ASSUME BaseInv, HelperInv, deaths = 0, DOMAIN ots \subseteq DOMAIN ots',
         \A r \in Refs : SameTrack(r) /\ SameRtns(r) /\ (HasTrack(r)' => HasTrack(r)),
         \A i \in DOMAIN ots : SameOt(i) /\ (Pending(i)' => Pending(i))
  PROVE  /\ \A r \in Refs : HasTrack(r)' => Followed(r)'
         /\ \A i \in DOMAIN ots : OtSound(i)'
<1>1. ASSUME NEW r \in Refs, HasTrack(r)'
      PROVE  Followed(r)'
  <2>1. Followed(r)
    BY <1>1 DEF HelperInv
  <2>2. SameOt(track[r].local)
    <3>1. track[r].local # 0
      BY <2>1 DEF Followed
    <3> QED
      BY <3>1, TrackLocal
  <2> QED
    BY <2>1, <2>2, FollowedKept
<1>2. ASSUME NEW i \in DOMAIN ots
      PROVE  OtSound(i)'
  <2>1. OtSound(i) /\ i \in Locals
    BY OtsLocal DEF HelperInv, BaseInv
  <2>2. (\A r \in Refs : track'[r].local # i) => \A r \in Refs : track[r].local # i
    BY DEF SameTrack
  <2> QED
    BY <2>1, <2>2, SoundKept
<1> QED
  BY <1>1, <1>2

LEMMA HelperSend ==
  ASSUME BaseInv, BaseInv', HelperInv, deaths = 0, SendDoes
  PROVE  /\ \A r \in Refs : HasTrack(r)' => Followed(r)'
         /\ \A i \in DOMAIN ots' : OtSound(i)'
<1>1. TypeInv /\ OwnInv /\ EESAssumption
  BY EESAssumption DEF BaseInv
<1>2. PICK n : n = Len(ots) + 1
  OBVIOUS
<1>3. /\ DOMAIN ots' = 1 .. n /\ ots'[n] = OtRec({"SEND"}, 0, -1, 0, {})
      /\ \A j \in DOMAIN ots : ots'[j] = ots[j]
      /\ UNCHANGED <<rtns, track, srv, ecmd, reqId>>
  BY <1>2 DEF SendDoes
<1>4. /\ DOMAIN ots = 1 .. Len(ots) /\ Len(ots) \in Nat /\ Len(ots) < MaxOrders
      /\ MaxOrders \in Nat
  BY <1>1 DEF TypeInv, SendDoes, EESAssumption
<1>5. PICK c \in CmdType : c.cmd = "insert" /\ c.local = n /\ Write(c)
  BY <1>2 DEF SendDoes
<1>6. \A k \in DOMAIN cmds' :
        (k \in DOMAIN cmds /\ cmds'[k] = cmds[k]) \/ cmds'[k] = c
  BY <1>1, <1>2, <1>5, ComingWrite
<1>7. \A i \in DOMAIN ots : Pending(i)' => Pending(i)
  <2>1. \A i \in DOMAIN ots : i # n
    BY <1>2, <1>4
  <2> QED
    BY <1>3, <1>5, <1>6, <2>1 DEF Pending
<1>8. \A i \in DOMAIN ots : SameOt(i)
  BY <1>3 DEF SameOt
<1>9. \A r \in Refs : SameTrack(r) /\ SameRtns(r) /\ (HasTrack(r)' => HasTrack(r))
  BY <1>3, SameRtnsStay DEF SameTrack, HasTrack
<1>10. /\ \A r \in Refs : HasTrack(r)' => Followed(r)'
       /\ \A i \in DOMAIN ots : OtSound(i)'
  <2>1. DOMAIN ots \subseteq DOMAIN ots'
    BY <1>2, <1>3, <1>4
  <2> QED
    BY <1>7, <1>8, <1>9, <2>1, HelperKept
<1>11. OtSound(n)'
  <2>1. ots'[n].traded = 0 /\ ots'[n].st = {"SEND"}
    BY <1>3 DEF OtRec
  <2>2. Vol[n] \in Nat \ {0}
    BY <1>1, <1>2, <1>4 DEF EESAssumption
  <2> QED
    BY <2>1, <2>2 DEF OtSound
<1>12. \A i \in DOMAIN ots' : i \in DOMAIN ots \/ i = n
  BY <1>2, <1>3, <1>4
<1> QED
  BY <1>10, <1>11, <1>12

LEMMA HelperDelete ==
  ASSUME BaseInv, BaseInv', HelperInv, deaths = 0, NEW i \in DOMAIN ots, DeleteDoes(i)
  PROVE  /\ \A r \in Refs : HasTrack(r)' => Followed(r)'
         /\ \A j \in DOMAIN ots' : OtSound(j)'
<1>1. /\ DOMAIN ots' = DOMAIN ots
      /\ ots'[i] = OtRec(ots[i].st \cup {"CXLING"}, ots[i].traded, ots[i].ref,
                         ots[i].tok, ots[i].asked \cup {ots[i].tok})
      /\ \A j \in DOMAIN ots \ {i} : ots'[j] = ots[j]
      /\ UNCHANGED <<rtns, track, srv, ecmd, reqId>>
  BY DEF DeleteDoes
<1>2. PICK c \in CmdType : c.cmd = "cancel" /\ Write(c)
  BY DEF DeleteDoes
<1>3. \A k \in DOMAIN cmds' :
        (k \in DOMAIN cmds /\ cmds'[k] = cmds[k]) \/ cmds'[k] = c
  BY <1>2, ComingWrite DEF BaseInv
<1>4. \A j \in DOMAIN ots : Pending(j)' => Pending(j)
  BY <1>1, <1>2, <1>3 DEF Pending
<1>5. SameOt(i)
  BY <1>1 DEF OtRec, SameOt
<1>6. \A j \in DOMAIN ots : SameOt(j)
  BY <1>1, <1>5 DEF SameOt
<1>7. \A r \in Refs : SameTrack(r) /\ SameRtns(r) /\ (HasTrack(r)' => HasTrack(r))
  BY <1>1, SameRtnsStay DEF SameTrack, HasTrack
<1>8. /\ \A r \in Refs : HasTrack(r)' => Followed(r)'
      /\ \A j \in DOMAIN ots : OtSound(j)'
  BY <1>1, <1>4, <1>6, <1>7, HelperKept
<1> QED
  BY <1>1, <1>8

(* The other commands of the engine, and the counter *)
LEMMA HelperCommand ==
  ASSUME BaseInv, BaseInv', HelperInv, deaths = 0,
         \/ EnterDoes(cmds[1]) \/ CancelDoes(cmds[1])
         \/ \E m : RefuseDoes(cmds[1], m)
  PROVE  /\ \A r \in Refs : HasTrack(r)' => Followed(r)'
         /\ \A j \in DOMAIN ots' : OtSound(j)'
<1>1. /\ cmds # <<>> /\ cmds' = Tail(cmds) /\ ots' = ots /\ ecmd = None
      /\ 1 \in DOMAIN cmds /\ reqId' = reqId /\ TypeInv
  BY DEF EnterDoes, CancelDoes, RefuseDoes, BaseInv
<1>2. \A k \in DOMAIN cmds' : \E j \in DOMAIN cmds : cmds'[k] = cmds[j] /\ 1 < j
  BY <1>1, ComingTail
<1>3. ecmd' # None => ecmd' = cmds[1] /\ cmds[1].cmd = "insert"
  BY <1>1 DEF EnterDoes, CancelDoes, RefuseDoes
<1>4. \A j \in DOMAIN ots : Pending(j)' => Pending(j)
  BY <1>1, <1>2, <1>3 DEF Pending
<1>5. \A j \in DOMAIN ots : SameOt(j)
  BY <1>1 DEF SameOt
<1>6. \A r \in Refs : SameRtns(r)
  <2>1. CASE rtns' = rtns
    BY <2>1, SameRtnsStay
  <2>2. CASE \E m : RefuseDoes(cmds[1], m)
    <3>1. PICK m : RefuseDoes(cmds[1], m)
      BY <2>2
    <3>2. /\ m \in RtnType /\ rtns' = Append(rtns, m)
          /\ m.type \in {"ERR", "CANCEL_REJECT"}
      BY <3>1 DEF RefuseDoes, Refusal, CmdType
    <3> QED
      BY <1>1, <3>2, SameRtnsWrite
  <2> QED
    BY <2>1, <2>2 DEF EnterDoes, CancelDoes
<1>7. \A r \in Refs : SameTrack(r)
  <2>1. CASE track' = track
    BY <2>1 DEF SameTrack
  <2>2. CASE CancelDoes(cmds[1])
    <3>1. PICK q : q = cmds[1].ref
      OBVIOUS
    <3>2. /\ q \in Refs /\ track[q] \in TrackType
          /\ track'[q] = WithBits(track[q], {"CXLING"})
          /\ \A r \in Refs \ {q} : track'[r] = track[r]
      BY <2>2, <3>1 DEF CancelDoes
    <3>3. track'[q] = TrackRec(track[q].st \cup {"CXLING"}, track[q].vol,
                               track[q].traded, track[q].local, track[q].tok,
                               track[q].sess)
      BY <3>2, WithBitsRec
    <3>4. SameTrack(q)
      BY <3>3 DEF TrackRec, SameTrack
    <3> QED
      BY <3>2, <3>4 DEF SameTrack
  <2> QED
    BY <2>1, <2>2 DEF EnterDoes, RefuseDoes
<1>8. \A r \in Refs : HasTrack(r)' => HasTrack(r)
  <2>1. CASE EnterDoes(cmds[1])
    <3>1. /\ ecmd' # None /\ \A r \in Refs \ {reqId} : srv'[r] = srv[r]
      BY <2>1 DEF EnterDoes
    <3> QED
      BY <1>1, <3>1 DEF HasTrack
  <2>2. CASE srv' = srv
    BY <1>1, <2>2 DEF HasTrack
  <2> QED
    BY <2>1, <2>2 DEF CancelDoes, RefuseDoes
<1>9. /\ \A r \in Refs : HasTrack(r)' => Followed(r)'
      /\ \A j \in DOMAIN ots : OtSound(j)'
  BY <1>1, <1>4, <1>5, <1>6, <1>7, <1>8, HelperKept
<1> QED
  BY <1>1, <1>9

LEMMA HelperCounter ==
  ASSUME BaseInv, BaseInv', HelperInv, deaths = 0, CounterDoes \/ Idle
  PROVE  /\ \A r \in Refs : HasTrack(r)' => Followed(r)'
         /\ \A j \in DOMAIN ots' : OtSound(j)'
<1>1. UNCHANGED <<ots, cmds, rtns, track, ecmd, reqId>>
  BY DEF CounterDoes, Idle
<1>2. \A r \in Refs : srv'[r].st = "none" <=> srv[r].st = "none"
  BY DoneStays DEF CounterDoes, Idle
<1>3. \A r \in Refs : SameTrack(r) /\ SameRtns(r) /\ (HasTrack(r)' => HasTrack(r))
  BY <1>1, <1>2, SameRtnsStay DEF SameTrack, HasTrack
<1>4. \A i \in DOMAIN ots : SameOt(i) /\ (Pending(i)' => Pending(i))
  BY <1>1 DEF SameOt, Pending
<1>5. /\ \A r \in Refs : HasTrack(r)' => Followed(r)'
      /\ \A j \in DOMAIN ots : OtSound(j)'
  BY <1>1, <1>3, <1>4, HelperKept
<1> QED
  BY <1>1, <1>5

-----------------------------------------------------------------------------
(* The helper follows the tracks. *)
LEMMA HelperStep ==
  ASSUME BaseInv, BaseInv', StepDoes, HelperInv
  PROVE  HelperInv'
<1> SUFFICES ASSUME deaths' = 0
             PROVE  /\ up' = "up" /\ reg'
                    /\ \A k \in DOMAIN rtns' : rtns'[k].type # "START"
                    /\ \A r \in Refs : HasTrack(r)' => Followed(r)'
                    /\ \A i \in DOMAIN ots' : OtSound(i)'
  BY DEF HelperInv
<1>1. TypeInv
  BY DEF BaseInv
<1>2. deaths = 0 /\ ~DiesDoes
  <2>1. deaths \in Nat
    BY <1>1 DEF TypeInv
  <2>2. deaths' = deaths \/ deaths' = deaths + 1
    BY DEF StepDoes, SendDoes, GetRtnDoes, DeleteDoes, RefuseDoes, FillDoes, ListenDoes,
           EnterDoes, CancelDoes, DiesDoes, LogonDoes, CallbackDoes, CounterDoes, Idle
  <2> QED
    BY <2>1, <2>2 DEF DiesDoes
<1>3. /\ up = "up" /\ reg /\ \A k \in DOMAIN rtns : rtns[k].type # "START"
  BY <1>2 DEF HelperInv
<1>4. ~LogonDoes /\ ~\E m : ListenDoes(m)
  BY <1>3 DEF LogonDoes, ListenDoes
<1>5. up' = "up" /\ reg'
  BY <1>2, <1>3, <1>4
     DEF StepDoes, SendDoes, GetRtnDoes, DeleteDoes, RefuseDoes, FillDoes,
         EnterDoes, CancelDoes, CallbackDoes, CounterDoes, Idle
<1>6. \A k \in DOMAIN rtns' : rtns'[k].type # "START"
  <2>1. rtns \in Seq(RtnType)
    BY <1>1 DEF TypeInv
  <2>2. CASE rtns' = rtns
    BY <1>3, <2>2
  <2>3. CASE rtns # <<>> /\ rtns' = Tail(rtns)
    BY <1>3, <2>1, <2>3, TailFacts
  <2>4. CASE \E m \in RtnType : m.type # "START" /\ rtns' = Append(rtns, m)
    <3>1. PICK m \in RtnType : m.type # "START" /\ rtns' = Append(rtns, m)
      BY <2>4
    <3>2. /\ DOMAIN rtns' = 1 .. Len(rtns) + 1 /\ DOMAIN rtns = 1 .. Len(rtns)
          /\ Len(rtns) \in Nat /\ rtns'[Len(rtns) + 1] = m
          /\ \A k \in DOMAIN rtns : rtns'[k] = rtns[k]
      BY <2>1, <3>1, AppendFacts
    <3>3. \A k \in DOMAIN rtns' : k \in DOMAIN rtns \/ k = Len(rtns) + 1
      BY <3>2
    <3> QED
      BY <1>3, <3>1, <3>2, <3>3
  <2>5. CASE CallbackDoes
    <3>1. CASE Silent
      BY <2>2, <3>1 DEF Silent
    <3>2. CASE \E q, type, v : Reports(q, type, v)
      <4>1. PICK q, type, v : Reports(q, type, v)
        BY <3>2
      <4>2. \/ rtns' = rtns
            \/ \E m \in RtnType : Report1(q, type, v, m) /\ rtns' = Append(rtns, m)
        BY <1>1, <4>1, ReportsEffect
      <4>3. type # "START"
        BY <4>1 DEF Reports, ReportTypes
      <4>4. \A m : Report1(q, type, v, m) => m.type = type
        BY DEF Report1
      <4> QED
        BY <2>2, <2>4, <4>2, <4>3, <4>4
    <3> QED
      BY <2>5, <3>1, <3>2, CallbackTracks DEF BaseInv
  <2>6. CASE \E m : RefuseDoes(cmds[1], m) \/ FillDoes(ecmd.local, m)
    BY <2>4, <2>6 DEF RefuseDoes, Refusal, FillDoes
  <2> QED
    BY <1>2, <1>4, <2>2, <2>3, <2>5, <2>6
       DEF StepDoes, SendDoes, GetRtnDoes, DeleteDoes, EnterDoes, CancelDoes,
           CounterDoes, Idle
<1>7. /\ \A r \in Refs : HasTrack(r)' => Followed(r)'
      /\ \A i \in DOMAIN ots' : OtSound(i)'
  <2>1. CASE SendDoes
    BY <1>2, <2>1, HelperSend
  <2>2. CASE GetRtnDoes(rtns[1])
    BY <1>2, <2>2, HelperGetRtn
  <2>3. CASE \E i \in DOMAIN ots : DeleteDoes(i)
    BY <1>2, <2>3, HelperDelete
  <2>4. CASE \E m : FillDoes(ecmd.local, m)
    BY <1>2, <2>4, HelperFill
  <2>5. CASE CallbackDoes
    BY <1>2, <2>5, HelperCallback
  <2>6. CASE CounterDoes \/ Idle
    BY <1>2, <2>6, HelperCounter
  <2>7. CASE EnterDoes(cmds[1]) \/ CancelDoes(cmds[1]) \/ \E m : RefuseDoes(cmds[1], m)
    BY <1>2, <2>7, HelperCommand
  <2> QED
    BY <1>2, <1>4, <2>1, <2>2, <2>3, <2>4, <2>5, <2>6, <2>7 DEF StepDoes
<1> QED
  BY <1>5, <1>6, <1>7

LEMMA HelperInit == Init => HelperInv
<1> SUFFICES ASSUME Init PROVE HelperInv
  OBVIOUS
<1>1. /\ up = "up" /\ reg /\ rtns = <<>> /\ ots = <<>>
      /\ \A r \in Refs : srv[r].st = "none"
  BY DEF Init, NoOrder
<1>2. DOMAIN rtns = {} /\ DOMAIN ots = {}
  BY <1>1
<1> QED
  BY <1>1, <1>2 DEF HelperInv, HasTrack

LEMMA HelperAlways == Spec => []HelperInv
<1>1. Init => HelperInv
  BY HelperInit
<1>2. BaseInv /\ HelperInv /\ [Next]_vars => HelperInv'
  BY BaseStep, HelperStep
<1> QED
  BY <1>1, <1>2, BaseAlways, PTL DEF Spec

(* Once it has read its returns, the helper knows what the tracks say.     *)
LEMMA HelperKnows ==
  ASSUME BaseInv, HelperInv
  PROVE  HelperFollows
<1> SUFFICES ASSUME Quiet, deaths = 0, rtns = <<>>, NEW r \in 1 .. reqId - 1
             PROVE  LET o == ots[track[r].local] IN
                    /\ o.traded = track[r].traded /\ o.ref = r
                    /\ ("CLOSED" \in o.st) = ("CLOSED" \in track[r].st)
  BY DEF HelperFollows
<1>1. TypeInv /\ up = "up" /\ ecmd = None
  BY DEF BaseInv, Quiet
<1>2. PICK n \in 0 .. MaxOrders : Entered(n)
  BY DEF BaseInv, EntryInv
<1>3. r \in Refs /\ HasTrack(r)
  <2>1. reqId = n + 1 /\ MaxOrders \in Nat
    BY <1>1, <1>2, EESAssumption DEF Entered, EESAssumption
  <2>2. r \in Refs /\ r <= n
    BY <2>1 DEF Refs
  <2> QED
    BY <1>1, <1>2, <2>2 DEF Entered, HasTrack
<1>4. Followed(r) /\ DOMAIN rtns = {}
  BY <1>3 DEF HelperInv
<1>5. ~Told(r, AllBits) /\ ~Told(r, ClosingTypes) /\ RtnSum(r) = 0
  BY <1>1, <1>4, RtnNone DEF Told
<1>6. PICK i : i = track[r].local
  OBVIOUS
<1>7. i \in DOMAIN ots /\ ots[i] \in OtType
  BY <1>1, <1>3, <1>4, <1>6, TrackLocal DEF Followed, TypeInv
<1>8. ots[i].traded \in Nat
  BY <1>7 DEF OtType
<1>9. /\ ots[i].traded = track[r].traded /\ ots[i].ref = r
      /\ track[r].vol = Vol[i]
      /\ "CLOSED" \in ots[i].st => "CLOSED" \in track[r].st
      /\ "CLOSED" \in track[r].st =>
           "CLOSED" \in ots[i].st \/ track[r].traded >= track[r].vol
  <2>1. ots[i].traded + RtnSum(r) = track[r].traded
    BY <1>4, <1>6 DEF Followed
  <2> QED
    BY <1>4, <1>5, <1>6, <1>8, <2>1 DEF Followed
<1>10. track[r].traded >= track[r].vol => "CLOSED" \in ots[i].st
  BY <1>7, <1>9 DEF HelperInv, OtSound
<1> QED
  BY <1>6, <1>9, <1>10

(* HelperFollows, for every number of orders and repeated executions: what *)
(* a callback changes in a track is what its return tells the helper       *)
(* (RtnFromTrack, getRtn).                                                 *)
THEOREM HelperFollowsAlways == Spec => []HelperFollows
<1>1. BaseInv /\ HelperInv => HelperFollows
  BY HelperKnows
<1> QED
  BY <1>1, BaseAlways, HelperAlways, PTL

-----------------------------------------------------------------------------
(* A cancel on its way, after one more message and without the first       *)
LEMMA CommandedTail ==
  ASSUME TypeInv, cmds # <<>>, cmds' = Tail(cmds), NEW t, Commanded(t)
  PROVE  Commanded(t)' \/ (cmds[1].cmd = "cancel" /\ cmds[1].tok = t)
<1>1. PICK k \in DOMAIN cmds : cmds[k].cmd = "cancel" /\ cmds[k].tok = t
  BY DEF Commanded
<1>2. k = 1 \/ (k - 1 \in DOMAIN cmds' /\ cmds'[k - 1] = cmds[k])
  BY <1>1, TailPlaces DEF TypeInv
<1> QED
  BY <1>1, <1>2 DEF Commanded

LEMMA CommandedWrite ==
  ASSUME TypeInv, NEW c \in CmdType, Write(c), NEW t
  PROVE  /\ Commanded(t) => Commanded(t)'
         /\ reg /\ c.cmd = "cancel" /\ c.tok = t => Commanded(t)'
<1>1. CASE cmds' = cmds /\ ~reg
  BY <1>1 DEF Commanded
<1>2. CASE cmds' = Append(cmds, c)
  <2>1. /\ DOMAIN cmds' = 1 .. Len(cmds) + 1 /\ DOMAIN cmds = 1 .. Len(cmds)
        /\ Len(cmds) \in Nat /\ cmds'[Len(cmds) + 1] = c
        /\ \A k \in DOMAIN cmds : cmds'[k] = cmds[k]
    BY <1>2, AppendFacts DEF TypeInv
  <2>2. Len(cmds) + 1 \in DOMAIN cmds' /\ \A k \in DOMAIN cmds : k \in DOMAIN cmds'
    BY <2>1
  <2> QED
    BY <2>1, <2>2 DEF Commanded
<1> QED
  BY <1>1, <1>2 DEF Write, TypeInv

LEMMA RequestedTail ==
  ASSUME TypeInv, creq # <<>>, creq' = Tail(creq), NEW t
  PROVE  /\ Requested(t) => Requested(t)' \/ creq[1] = t
         /\ Requested(t)' => Requested(t)
         /\ Requested(creq[1])
<1>1. creq \in Seq(Toks)
  BY DEF TypeInv
<1>2. ASSUME Requested(t)
      PROVE  Requested(t)' \/ creq[1] = t
  <2>1. PICK k \in DOMAIN creq : creq[k] = t
    BY <1>2 DEF Requested
  <2>2. k = 1 \/ (k - 1 \in DOMAIN creq' /\ creq'[k - 1] = creq[k])
    BY <1>1, <2>1, TailPlaces
  <2> QED
    BY <2>1, <2>2 DEF Requested
<1>3. /\ \A k \in DOMAIN creq' : creq'[k] = creq[k + 1] /\ k + 1 \in DOMAIN creq
      /\ 1 \in DOMAIN creq
  BY <1>1, TailFacts
<1> QED
  BY <1>2, <1>3 DEF Requested

LEMMA RequestedWrite ==
  ASSUME TypeInv, NEW c \in Toks, creq' = Append(creq, c), NEW t
  PROVE  Requested(t)' <=> Requested(t) \/ c = t
<1>1. /\ DOMAIN creq' = 1 .. Len(creq) + 1 /\ DOMAIN creq = 1 .. Len(creq)
      /\ Len(creq) \in Nat /\ creq'[Len(creq) + 1] = c
      /\ \A k \in DOMAIN creq : creq'[k] = creq[k]
  BY AppendFacts DEF TypeInv
<1>2. /\ Len(creq) + 1 \in DOMAIN creq' /\ \A k \in DOMAIN creq : k \in DOMAIN creq'
      /\ \A k \in DOMAIN creq' : k \in DOMAIN creq \/ k = Len(creq) + 1
  BY <1>1
<1> QED
  BY <1>1, <1>2 DEF Requested

IsDenial(e, t) == e.kind = "CANCEL_REJECT" /\ e.tok = t

LEMMA DeniedTail ==
  ASSUME TypeInv, evq # <<>>, evq' = Tail(evq), NEW t
  PROVE  /\ Denied(t) => Denied(t)' \/ IsDenial(evq[1], t)
         /\ Denied(t)' => Denied(t)
         /\ IsDenial(evq[1], t) => Denied(t)
<1>1. evq \in Seq(EventType)
  BY DEF TypeInv
<1>2. ASSUME Denied(t)
      PROVE  Denied(t)' \/ IsDenial(evq[1], t)
  <2>1. PICK k \in DOMAIN evq : IsDenial(evq[k], t)
    BY <1>2 DEF Denied, IsDenial
  <2>2. k = 1 \/ (k - 1 \in DOMAIN evq' /\ evq'[k - 1] = evq[k])
    BY <1>1, <2>1, TailPlaces
  <2> QED
    BY <2>1, <2>2 DEF Denied, IsDenial
<1>3. /\ \A k \in DOMAIN evq' : evq'[k] = evq[k + 1] /\ k + 1 \in DOMAIN evq
      /\ 1 \in DOMAIN evq
  BY <1>1, TailFacts
<1> QED
  BY <1>2, <1>3 DEF Denied, IsDenial

LEMMA DeniedAppend ==
  ASSUME TypeInv, NEW e \in EventType, evq' = Append(evq, e), NEW t
  PROVE  Denied(t)' <=> Denied(t) \/ IsDenial(e, t)
<1>1. /\ DOMAIN evq' = 1 .. Len(evq) + 1 /\ DOMAIN evq = 1 .. Len(evq)
      /\ Len(evq) \in Nat /\ evq'[Len(evq) + 1] = e
      /\ \A k \in DOMAIN evq : evq'[k] = evq[k]
  BY AppendFacts DEF TypeInv
<1>2. /\ Len(evq) + 1 \in DOMAIN evq' /\ \A k \in DOMAIN evq : k \in DOMAIN evq'
      /\ \A k \in DOMAIN evq' : k \in DOMAIN evq \/ k = Len(evq) + 1
  BY <1>1
<1> QED
  BY <1>1, <1>2 DEF Denied, IsDenial

(* The token of a cancel that was asked for is a reference. *)
LEMMA AskedRef ==
  ASSUME BaseInv, NEW i \in DOMAIN ots, NEW t \in ots[i].asked, t > 0
  PROVE  t \in Refs /\ track[t].local = i /\ i # 0
<1>1. TypeInv /\ OtsNamed /\ ots[i] \in OtType /\ i \in Locals
  BY OtsLocal DEF BaseInv, NameInv, TypeInv
<1>2. t \in Toks
  BY <1>1 DEF OtType
<1>3. t \in Refs
  BY <1>2 DEF Toks, Refs
<1> QED
  BY <1>1, <1>3 DEF OtsNamed, Locals

-----------------------------------------------------------------------------
(* Each step answers the cancel, or leaves it on its way: the steps of the *)
(* helper, ...                                                             *)
LEMMA AnswerDelete ==
  ASSUME BaseInv, HelperInv, AnswerInv, deaths = 0, NEW j \in DOMAIN ots,
         DeleteDoes(j), NEW i \in DOMAIN ots', NEW t \in ots'[i].asked, t > 0
  PROVE  Answered(i, t)'
<1>1. /\ i \in DOMAIN ots /\ j \in DOMAIN ots
      /\ ots'[j] = OtRec(ots[j].st \cup {"CXLING"}, ots[j].traded, ots[j].ref,
                         ots[j].tok, ots[j].asked \cup {ots[j].tok})
      /\ \A k \in DOMAIN ots \ {j} : ots'[k] = ots[k]
      /\ UNCHANGED <<track, rtns, evq, creq>>
  BY DEF DeleteDoes
<1>2. /\ ots'[j].st = ots[j].st \cup {"CXLING"}
      /\ ots'[j].asked = ots[j].asked \cup {ots[j].tok}
  BY <1>1 DEF OtRec
<1>3. /\ ots[i].st \subseteq ots'[i].st
      /\ t \in ots[i].asked \/ (i = j /\ t = ots[j].tok)
  BY <1>1, <1>2
<1>4. PICK c \in CmdType : c.cmd = "cancel" /\ c.tok = ots[j].tok /\ Write(c)
  BY DEF DeleteDoes
<1>5. /\ Commanded(t) => Commanded(t)'
      /\ reg /\ c.cmd = "cancel" /\ c.tok = t => Commanded(t)'
  BY <1>4, CommandedWrite DEF BaseInv
<1>6. reg
  BY DEF HelperInv
<1>7. CASE t = ots[j].tok
  BY <1>4, <1>5, <1>6, <1>7 DEF Answered
<1>8. CASE t \in ots[i].asked
  <2>1. Answered(i, t)
    BY <1>1, <1>8 DEF AnswerInv
  <2>2. /\ Requested(t)' = Requested(t) /\ Denied(t)' = Denied(t)
        /\ Due(t, {"CANCELED"})' = Due(t, {"CANCELED"})
        /\ Told(t, {"CANCEL_REJECT"})' = Told(t, {"CANCEL_REJECT"})
    BY <1>1 DEF Requested, Denied, Due, Told
  <2> QED
    BY <1>1, <1>3, <1>5, <2>1, <2>2 DEF Answered
<1> QED
  BY <1>3, <1>7, <1>8

LEMMA AnswerGetRtn ==
  ASSUME BaseInv, HelperInv, AnswerInv, deaths = 0, GetRtnDoes(rtns[1]),
         NEW i \in DOMAIN ots', NEW t \in ots'[i].asked, t > 0
  PROVE  Answered(i, t)'
<1>1. PICK m : m = rtns[1]
  OBVIOUS
<1>2. TypeInv /\ m.type # "START" /\ RtnNamed(m) /\ EESAssumption
  BY <1>1, EESAssumption DEF BaseInv, HelperInv, GetRtnDoes, NameInv, RtnsNamed
<1>3. PICK j : j = m.local
  OBVIOUS
<1>4. /\ rtns # <<>> /\ rtns' = Tail(rtns) /\ m.type \in AllBits /\ j \in DOMAIN ots
      /\ m.vol \in Nat /\ DOMAIN ots' = DOMAIN ots /\ ots[j] \in OtType
      /\ ots'[j] = Updated(ots[j], m) /\ \A k \in DOMAIN ots \ {j} : ots'[k] = ots[k]
      /\ UNCHANGED <<track, cmds, evq, creq>>
  BY <1>1, <1>2, <1>3 DEF GetRtnDoes
<1>5. PICK n : n = ots[j].traded + IF m.type = "EXECUTION" THEN m.vol ELSE 0
  OBVIOUS
<1>6. /\ ots'[j].asked = ots[j].asked
      /\ ots'[j].st = ots[j].st \cup Bits(m.type)
                        \cup (IF n >= Vol[j] THEN {"CLOSED"} ELSE {})
  BY <1>3, <1>4, <1>5, UpdatedIs DEF OtRec
<1>7. i \in DOMAIN ots /\ t \in ots[i].asked /\ ots[i].st \subseteq ots'[i].st
  BY <1>4, <1>6
<1>8. Answered(i, t) /\ t \in Refs /\ track[t].local = i
  BY <1>7, AskedRef DEF AnswerInv
<1>9. /\ Requested(t)' = Requested(t) /\ Denied(t)' = Denied(t)
      /\ Due(t, {"CANCELED"})' = Due(t, {"CANCELED"})
      /\ Commanded(t)' = Commanded(t)
  BY <1>4 DEF Requested, Denied, Due, Commanded
<1>10. Told(t, {"CANCEL_REJECT"}) =>
         \/ Told(t, {"CANCEL_REJECT"})'
         \/ ots'[i].st \cap {"CLOSED", "CANCEL_REJECT"} # {}
  <2>1. Told(t, {"CANCEL_REJECT"}) <=>
          Told(t, {"CANCEL_REJECT"})' \/ (m.type \in {"CANCEL_REJECT"} /\ m.ref = t)
    BY <1>1, <1>2, <1>4, ToldTake
  <2>2. ASSUME m.type = "CANCEL_REJECT", m.ref = t
        PROVE  "CANCEL_REJECT" \in ots'[i].st
    <3>1. t # -1
      BY <1>8, EESAssumption DEF Refs
    <3>2. j = i
      BY <1>2, <1>3, <1>8, <2>2, <3>1 DEF RtnNamed
    <3>3. "CANCEL_REJECT" \in Bits(m.type)
      BY <2>2 DEF Bits
    <3> QED
      BY <1>6, <3>2, <3>3
  <2> QED
    BY <2>1, <2>2
<1> QED
  BY <1>4, <1>7, <1>8, <1>9, <1>10 DEF Answered

(* ... the commands of the engine, ... *)
LEMMA AnswerCommand ==
  ASSUME BaseInv, AnswerInv, deaths = 0,
         \/ EnterDoes(cmds[1]) \/ CancelDoes(cmds[1])
         \/ \E m : RefuseDoes(cmds[1], m),
         NEW i \in DOMAIN ots, NEW t \in ots[i].asked, t > 0
  PROVE  Answered(i, t)'
<1>1. PICK c : c = cmds[1]
  OBVIOUS
<1>2. /\ cmds # <<>> /\ cmds' = Tail(cmds) /\ ots' = ots /\ evq' = evq
      /\ 1 \in DOMAIN cmds /\ TypeInv /\ CmdsNamed
  BY DEF EnterDoes, CancelDoes, RefuseDoes, BaseInv, NameInv
<1>3. Answered(i, t) /\ t \in Refs
  BY AskedRef DEF AnswerInv
<1>4. Denied(t)' = Denied(t) /\ Due(t, {"CANCELED"})' = Due(t, {"CANCELED"})
  BY <1>2 DEF Denied, Due
<1>5. Commanded(t) => Commanded(t)' \/ (c.cmd = "cancel" /\ c.tok = t)
  BY <1>1, <1>2, CommandedTail
<1>6. c.cmd = "cancel" /\ c.tok = t => c.ref = t
  BY <1>1, <1>2 DEF CmdsNamed, CmdNamed
<1>7. CASE EnterDoes(c)
  <2>1. c.cmd = "insert" /\ UNCHANGED <<track, rtns, creq>>
    BY <1>7 DEF EnterDoes
  <2>2. /\ Requested(t)' = Requested(t)
        /\ Told(t, {"CANCEL_REJECT"})' = Told(t, {"CANCEL_REJECT"})
    BY <2>1 DEF Requested, Told
  <2> QED
    BY <1>2, <1>3, <1>4, <1>5, <2>1, <2>2 DEF Answered
<1>8. CASE CancelDoes(c)
  <2>1. /\ c.tok \in Toks /\ creq' = Append(creq, c.tok) /\ rtns' = rtns
        /\ c.ref \in Refs /\ track[c.ref] \in TrackType
        /\ track'[c.ref] = WithBits(track[c.ref], {"CXLING"})
        /\ \A r \in Refs \ {c.ref} : track'[r] = track[r]
    BY <1>8 DEF CancelDoes
  <2>2. Requested(t)' <=> Requested(t) \/ c.tok = t
    BY <1>2, <2>1, RequestedWrite
  <2>3. Told(t, {"CANCEL_REJECT"})' = Told(t, {"CANCEL_REJECT"})
    BY <2>1 DEF Told
  <2>4. "CLOSED" \in track[t].st => "CLOSED" \in track'[t].st
    <3>1. track'[c.ref] = TrackRec(track[c.ref].st \cup {"CXLING"}, track[c.ref].vol,
                                   track[c.ref].traded, track[c.ref].local,
                                   track[c.ref].tok, track[c.ref].sess)
      BY <2>1, WithBitsRec
    <3> QED
      BY <1>3, <2>1, <3>1 DEF TrackRec
  <2> QED
    BY <1>2, <1>3, <1>4, <1>5, <2>2, <2>3, <2>4 DEF Answered
<1>9. CASE \E m : RefuseDoes(c, m)
  <2>1. PICK m : RefuseDoes(c, m)
    BY <1>9
  <2>2. /\ m \in RtnType /\ rtns' = Append(rtns, m) /\ UNCHANGED <<creq, track>>
        /\ c.cmd = "cancel" => m.type = "CANCEL_REJECT" /\ m.ref = c.ref
    BY <2>1 DEF RefuseDoes, Refusal
  <2>3. Told(t, {"CANCEL_REJECT"})' <=>
          Told(t, {"CANCEL_REJECT"}) \/ (m.type \in {"CANCEL_REJECT"} /\ m.ref = t)
    BY <1>2, <2>2, ToldWrite
  <2>4. Requested(t)' = Requested(t)
    BY <2>2 DEF Requested
  <2> QED
    BY <1>2, <1>3, <1>4, <1>5, <1>6, <2>2, <2>3, <2>4 DEF Answered
<1> QED
  BY <1>1, <1>7, <1>8, <1>9

LEMMA AnswerFill ==
  ASSUME BaseInv, AnswerInv, deaths = 0, NEW m, FillDoes(ecmd.local, m),
         NEW i \in DOMAIN ots, NEW t \in ots[i].asked, t > 0
  PROVE  Answered(i, t)'
<1>1. /\ ecmd # None /\ reqId \in Refs /\ m \in RtnType /\ rtns' = Append(rtns, m)
      /\ \A r \in Refs \ {reqId} : track'[r] = track[r]
      /\ UNCHANGED <<ots, cmds, evq, creq>> /\ TypeInv
  BY DEF FillDoes, BaseInv
<1>2. Answered(i, t) /\ t \in Refs /\ track[t].local = i /\ i # 0
  BY AskedRef DEF AnswerInv
<1>3. t # reqId
  <2>1. track[reqId] = NoTrack
    BY <1>1 DEF BaseInv, OwnInv
  <2> QED
    BY <1>2, <2>1 DEF NoTrack
<1>4. /\ Requested(t)' = Requested(t) /\ Denied(t)' = Denied(t)
      /\ Due(t, {"CANCELED"})' = Due(t, {"CANCELED"})
      /\ Commanded(t)' = Commanded(t) /\ track'[t] = track[t]
  BY <1>1, <1>2, <1>3 DEF Requested, Denied, Due, Commanded
<1>5. Told(t, {"CANCEL_REJECT"})' <=>
        Told(t, {"CANCEL_REJECT"}) \/ (m.type \in {"CANCEL_REJECT"} /\ m.ref = t)
  BY <1>1, ToldWrite
<1> QED
  BY <1>1, <1>2, <1>4, <1>5 DEF Answered

(* ... the callbacks, of which one says that the order is canceled and one *)
(* that it is not, ...                                                     *)
LEMMA AnswerCallback ==
  ASSUME BaseInv, TrackInv, HelperInv, AnswerInv, deaths = 0, CallbackDoes,
         NEW i \in DOMAIN ots, NEW t \in ots[i].asked, t > 0
  PROVE  Answered(i, t)'
<1> DEFINE e == evq[1]
<1>1. /\ TypeInv /\ evq # <<>> /\ evq' = Tail(evq) /\ Handles(e) /\ ecmd = None
      /\ UNCHANGED <<ots, cmds, creq>> /\ up = "up" /\ ~raced
  BY DEF CallbackDoes, BaseInv, hvars, HelperInv, AnswerInv
<1>2. Answered(i, t) /\ t \in Refs /\ track[t].local = i /\ i # 0
  BY AskedRef DEF AnswerInv
<1>3. Requested(t)' = Requested(t) /\ Commanded(t)' = Commanded(t)
  BY <1>1 DEF Requested, Commanded
<1>4. "CLOSED" \in track[t].st => "CLOSED" \in track'[t].st
  <2>1. CASE Silent
    BY <2>1 DEF Silent
  <2>2. CASE \E q, type, v : Reports(q, type, v)
    <3>1. PICK q, type, v : Reports(q, type, v)
      BY <2>2
    <3>2. q \in Refs /\ \A p \in Refs \ {q} : track'[p] = track[p]
      BY <1>1, <3>1, ReportsEffect
    <3>3. track[q].st \subseteq track'[q].st
      BY <3>1 DEF Reports, Advances
    <3> QED
      BY <1>2, <3>2, <3>3
  <2> QED
    BY <2>1, <2>2, CallbackTracks
<1>5. Told(t, {"CANCEL_REJECT"}) => Told(t, {"CANCEL_REJECT"})'
  <2>1. CASE rtns' = rtns
    BY <2>1 DEF Told
  <2>2. CASE \E q, type, v : Reports(q, type, v)
    <3>1. PICK q, type, v : Reports(q, type, v)
      BY <2>2
    <3>2. \/ rtns' = rtns
          \/ \E m \in RtnType : Report1(q, type, v, m) /\ rtns' = Append(rtns, m)
      BY <1>1, <3>1, ReportsEffect
    <3>3. CASE \E m \in RtnType : rtns' = Append(rtns, m)
      <4>1. PICK m \in RtnType : rtns' = Append(rtns, m)
        BY <3>3
      <4>2. Told(t, {"CANCEL_REJECT"})' <=>
              Told(t, {"CANCEL_REJECT"}) \/ (m.type \in {"CANCEL_REJECT"} /\ m.ref = t)
        BY <1>1, <4>1, ToldWrite
      <4> QED
        BY <4>2
    <3> QED
      BY <2>1, <3>2, <3>3
  <2> QED
    BY <2>1, <2>2, CallbackTracks DEF Silent
<1>6. Due(t, {"CANCELED"}) => Due(t, {"CANCELED"})' \/ "CLOSED" \in track'[t].st
  <2>1. ASSUME Due(t, {"CANCELED"})
        PROVE  Due(t, {"CANCELED"})' \/ (e.kind \in {"CANCELED"} /\ e.ref = t)
    BY <1>1, <2>1, DueTail
  <2>2. ASSUME e.kind = "CANCELED", e.ref = t
        PROVE  "CLOSED" \in track'[t].st
    <3>1. EventInv /\ e.kind \in Ending
      BY <1>1, <2>2 DEF TrackInv, FollowInv, Ending
    <3> QED
      BY <1>1, <2>2, <3>1, EndingCloses
  <2> QED
    BY <2>1, <2>2
<1>7. Denied(t) => Denied(t)' \/ Told(t, {"CANCEL_REJECT"})'
  <2>1. SUFFICES ASSUME Denied(t), ~Denied(t)'
                 PROVE  Told(t, {"CANCEL_REJECT"})'
    OBVIOUS
  <2>2. e.kind = "CANCEL_REJECT" /\ e.tok = t
    BY <1>1, <2>1, DeniedTail DEF IsDenial
  <2>3. track[t].sess = 1
    BY <1>2, <2>1 DEF AnswerInv
  <2>4. t < reqId
    <3>1. srv[t].st # "none"
      BY <1>2 DEF BaseInv, OwnInv, NoTrack
    <3>2. PICK n \in 0 .. MaxOrders : Entered(n)
      BY DEF BaseInv, EntryInv
    <3>3. t <= n /\ reqId = n + 1
      BY <1>1, <1>2, <3>1, <3>2 DEF Entered
    <3> QED
      BY <1>2, <3>3 DEF Refs
  <2>5. Reports(t, "CANCEL_REJECT", 0)
    BY <1>1, <1>2, <2>2, <2>3, <2>4 DEF Handles
  <2>6. PICK m \in RtnType : Report1(t, "CANCEL_REJECT", 0, m) /\ rtns' = Append(rtns, m)
    BY <1>1, <1>2, <2>5, ReportsEffect
  <2>7. m.type \in {"CANCEL_REJECT"} /\ m.ref = t
    BY <2>6 DEF Report1
  <2> QED
    BY <1>1, <2>6, <2>7, ToldWrite
<1> QED
  BY <1>1, <1>2, <1>3, <1>4, <1>5, <1>6, <1>7 DEF Answered

(* ... and the counter, which answers every request. *)
LEMMA AnswerCounter ==
  ASSUME BaseInv, HelperInv, AnswerInv, deaths = 0, CounterDoes,
         NEW i \in DOMAIN ots, NEW t \in ots[i].asked, t > 0
  PROVE  Answered(i, t)'
<1>1. TypeInv /\ up = "up" /\ UNCHANGED <<ots, cmds, rtns, track>>
  BY DEF CounterDoes, BaseInv, HelperInv
<1>2. PICK e : Pushes(e)
  BY DEF CounterDoes
<1>3. e \in EventType /\ evq' = Append(evq, e)
  BY <1>1, <1>2 DEF Pushes
<1>4. Answered(i, t) /\ t \in Refs
  BY AskedRef DEF AnswerInv
<1>5. /\ Commanded(t)' = Commanded(t)
      /\ Told(t, {"CANCEL_REJECT"})' = Told(t, {"CANCEL_REJECT"})
  BY <1>1 DEF Commanded, Told
<1>6. Denied(t)' <=> Denied(t) \/ IsDenial(e, t)
  BY <1>1, <1>3, DeniedAppend
<1>7. /\ Due(t, {"CANCELED"}) => Due(t, {"CANCELED"})'
      /\ e.kind \in {"CANCELED"} /\ e.ref = t => Due(t, {"CANCELED"})'
  BY <1>1, <1>3, DueAppend
<1>8. Requested(t) => Requested(t)' \/ Denied(t)' \/ Due(t, {"CANCELED"})'
  <2>1. CASE creq' = creq
    BY <2>1 DEF Requested
  <2>2. CASE /\ creq # <<>> /\ creq' = Tail(creq)
             /\ \/ e.kind = "CANCELED" /\ e.ref = creq[1]
                \/ e.kind = "CANCEL_REJECT" /\ e.tok = creq[1]
    <3>1. Requested(t) => Requested(t)' \/ creq[1] = t
      BY <1>1, <2>2, RequestedTail
    <3> QED
      BY <1>6, <1>7, <2>2, <3>1 DEF IsDenial
  <2> QED
    BY <1>2, <2>1, <2>2 DEF Pushes, Judged, Traded, Canceled
<1> QED
  BY <1>1, <1>4, <1>5, <1>6, <1>7, <1>8 DEF Answered

(* A request names an order whose token is known. *)
LEMMA RequestStep ==
  ASSUME BaseInv, HelperInv, AnswerInv, deaths = 0, deaths' = 0, StepDoes,
         NEW t \in Refs, Requested(t)' \/ Denied(t)'
  PROVE  track'[t].sess = 1
<1>1. TypeInv /\ up = "up" /\ deaths \in Nat
  BY DEF BaseInv, HelperInv, TypeInv
<1>2. Requested(t) \/ Denied(t) => track[t].sess = 1
  BY DEF AnswerInv
<1>3. CASE creq' = creq /\ evq' = evq /\ track' = track
  BY <1>2, <1>3 DEF Requested, Denied
<1>4. CASE \E m : FillDoes(ecmd.local, m)
  <2>1. /\ ecmd # None /\ reqId \in Refs /\ UNCHANGED <<creq, evq>>
        /\ \A r \in Refs \ {reqId} : track'[r] = track[r]
    BY <1>4 DEF FillDoes
  <2>2. track[t].sess = 1
    BY <1>2, <2>1 DEF Requested, Denied
  <2>3. track[reqId] = NoTrack
    BY <2>1 DEF BaseInv, OwnInv
  <2>4. t # reqId
    BY <2>2, <2>3 DEF NoTrack
  <2> QED
    BY <2>1, <2>2, <2>4
<1>5. CASE CancelDoes(cmds[1])
  <2>1. PICK c : c = cmds[1] /\ CancelDoes(c)
    BY <1>5
  <2>2. /\ c.tok \in Toks /\ creq' = Append(creq, c.tok) /\ evq' = evq
        /\ c.ref \in Refs /\ track[c.ref] \in TrackType /\ track[c.ref].sess = 1
        /\ track'[c.ref] = WithBits(track[c.ref], {"CXLING"})
        /\ \A r \in Refs \ {c.ref} : track'[r] = track[r]
        /\ c.cmd = "cancel" /\ CmdNamed(c)
    BY <2>1 DEF CancelDoes, BaseInv, NameInv, CmdsNamed
  <2>3. Requested(t)' <=> Requested(t) \/ c.tok = t
    BY <1>1, <2>2, RequestedWrite
  <2>4. c.tok = t => c.ref = t
    BY <2>2 DEF CmdNamed, Refs
  <2>5. track[t].sess = 1
    BY <1>2, <2>2, <2>3, <2>4 DEF Denied
  <2>6. track'[c.ref].sess = 1
    <3>1. track'[c.ref] = TrackRec(track[c.ref].st \cup {"CXLING"}, track[c.ref].vol,
                                   track[c.ref].traded, track[c.ref].local,
                                   track[c.ref].tok, track[c.ref].sess)
      BY <2>2, WithBitsRec
    <3> QED
      BY <2>2, <3>1 DEF TrackRec
  <2> QED
    BY <2>2, <2>5, <2>6
<1>6. CASE CallbackDoes
  <2>1. evq # <<>> /\ evq' = Tail(evq) /\ creq' = creq
    BY <1>6 DEF CallbackDoes
  <2>2. Denied(t)' => Denied(t)
    BY <1>1, <2>1, DeniedTail
  <2>3. Requested(t)' = Requested(t)
    BY <2>1 DEF Requested
  <2> QED
    BY <1>2, <1>6, <2>2, <2>3, TokenStays
<1>7. CASE CounterDoes
  <2>1. PICK e : Pushes(e)
    BY <1>7 DEF CounterDoes
  <2>2. e \in EventType /\ evq' = Append(evq, e) /\ track' = track
    BY <1>1, <1>7, <2>1 DEF Pushes, CounterDoes
  <2>3. Denied(t)' <=> Denied(t) \/ IsDenial(e, t)
    BY <1>1, <2>2, DeniedAppend
  <2>4. CASE creq' = creq /\ e.kind # "CANCEL_REJECT"
    BY <1>2, <2>2, <2>3, <2>4 DEF Requested, IsDenial
  <2>5. CASE /\ creq # <<>> /\ creq' = Tail(creq)
             /\ e.kind = "CANCEL_REJECT" => e.tok = creq[1]
    <3>1. (Requested(t)' => Requested(t)) /\ Requested(creq[1])
      BY <1>1, <2>5, RequestedTail
    <3> QED
      BY <1>2, <2>2, <2>3, <2>5, <3>1 DEF IsDenial
  <2>6. (creq' = creq /\ e.kind # "CANCEL_REJECT")
          \/ (creq # <<>> /\ creq' = Tail(creq) /\ (e.kind = "CANCEL_REJECT" => e.tok = creq[1]))
    BY <2>1 DEF Pushes, Judged, Traded, Canceled
  <2> QED
    BY <2>4, <2>5, <2>6
<1>8. ~DiesDoes /\ ~LogonDoes /\ ~\E m : ListenDoes(m)
  BY <1>1 DEF DiesDoes, LogonDoes, ListenDoes
<1> QED
  BY <1>3, <1>4, <1>5, <1>6, <1>7, <1>8
     DEF StepDoes, SendDoes, GetRtnDoes, DeleteDoes, RefuseDoes, EnterDoes, Idle

(* Every cancel is answered, or on its way. *)
LEMMA AnswerStep ==
  ASSUME BaseInv, TrackInv, HelperInv, StepDoes, AnswerInv
  PROVE  AnswerInv'
<1> SUFFICES ASSUME deaths' = 0
             PROVE  /\ ~raced'
                    /\ \A t \in Refs : Requested(t)' \/ Denied(t)' => track'[t].sess = 1
                    /\ \A i \in DOMAIN ots' : \A t \in ots'[i].asked :
                         t > 0 => Answered(i, t)'
  BY DEF AnswerInv
<1>1. TypeInv
  BY DEF BaseInv
<1>2. deaths = 0 /\ ~DiesDoes
  <2>1. deaths \in Nat
    BY <1>1 DEF TypeInv
  <2>2. deaths' = deaths \/ deaths' = deaths + 1
    BY DEF StepDoes, SendDoes, GetRtnDoes, DeleteDoes, RefuseDoes, FillDoes, ListenDoes,
           EnterDoes, CancelDoes, DiesDoes, LogonDoes, CallbackDoes, CounterDoes, Idle
  <2> QED
    BY <2>1, <2>2 DEF DiesDoes
<1>3. up = "up" /\ ~raced
  BY <1>2 DEF HelperInv, AnswerInv
<1>4. ~LogonDoes /\ ~\E m : ListenDoes(m)
  BY <1>3 DEF LogonDoes, ListenDoes
<1>5. ~raced'
  BY <1>2, <1>3, <1>4
     DEF StepDoes, SendDoes, GetRtnDoes, DeleteDoes, RefuseDoes, FillDoes,
         EnterDoes, CancelDoes, CallbackDoes, CounterDoes, Idle
<1>6. ASSUME NEW i \in DOMAIN ots', NEW t \in ots'[i].asked, t > 0
      PROVE  Answered(i, t)'
  <2>1. CASE SendDoes
    <3>1. /\ DOMAIN ots' = 1 .. Len(ots) + 1
          /\ ots'[Len(ots) + 1] = OtRec({"SEND"}, 0, -1, 0, {})
          /\ \A j \in DOMAIN ots : ots'[j] = ots[j]
          /\ UNCHANGED <<track, rtns, evq, creq>>
      BY <2>1 DEF SendDoes
    <3>2. ots'[Len(ots) + 1].asked = {}
      BY <3>1 DEF OtRec
    <3>3. i \in DOMAIN ots
      <4>1. DOMAIN ots = 1 .. Len(ots) /\ Len(ots) \in Nat
        BY <1>1 DEF TypeInv
      <4> QED
        BY <1>6, <3>1, <3>2, <4>1
    <3>4. ots'[i] = ots[i] /\ Answered(i, t)
      BY <1>2, <1>6, <3>1, <3>3 DEF AnswerInv
    <3>5. PICK c \in CmdType : Write(c)
      BY <2>1 DEF SendDoes
    <3>6. Commanded(t) => Commanded(t)'
      BY <1>1, <3>5, CommandedWrite
    <3>7. /\ Requested(t)' = Requested(t) /\ Denied(t)' = Denied(t)
          /\ Due(t, {"CANCELED"})' = Due(t, {"CANCELED"})
          /\ Told(t, {"CANCEL_REJECT"})' = Told(t, {"CANCEL_REJECT"})
      BY <3>1 DEF Requested, Denied, Due, Told
    <3> QED
      BY <3>1, <3>4, <3>6, <3>7 DEF Answered
  <2>2. CASE GetRtnDoes(rtns[1])
    BY <1>2, <1>6, <2>2, AnswerGetRtn
  <2>3. CASE \E j \in DOMAIN ots : DeleteDoes(j)
    BY <1>2, <1>6, <2>3, AnswerDelete
  <2>4. CASE \E m : FillDoes(ecmd.local, m)
    <3>1. ots' = ots
      BY <2>4 DEF FillDoes
    <3> QED
      BY <1>2, <1>6, <2>4, <3>1, AnswerFill
  <2>5. CASE CallbackDoes
    <3>1. ots' = ots
      BY <2>5 DEF CallbackDoes, hvars
    <3> QED
      BY <1>2, <1>6, <2>5, <3>1, AnswerCallback
  <2>6. CASE CounterDoes
    <3>1. ots' = ots
      BY <2>6 DEF CounterDoes
    <3> QED
      BY <1>2, <1>6, <2>6, <3>1, AnswerCounter
  <2>7. CASE EnterDoes(cmds[1]) \/ CancelDoes(cmds[1]) \/ \E m : RefuseDoes(cmds[1], m)
    <3>1. ots' = ots
      BY <2>7 DEF EnterDoes, CancelDoes, RefuseDoes
    <3> QED
      BY <1>2, <1>6, <2>7, <3>1, AnswerCommand
  <2>8. CASE Idle
    <3>1. UNCHANGED <<ots, track, rtns, evq, creq, cmds>>
      BY <2>8 DEF Idle
    <3>2. Answered(i, t)
      BY <1>2, <1>6, <3>1 DEF AnswerInv
    <3>3. /\ Requested(t)' = Requested(t) /\ Denied(t)' = Denied(t)
          /\ Due(t, {"CANCELED"})' = Due(t, {"CANCELED"})
          /\ Told(t, {"CANCEL_REJECT"})' = Told(t, {"CANCEL_REJECT"})
          /\ Commanded(t)' = Commanded(t)
      BY <3>1 DEF Requested, Denied, Due, Told, Commanded
    <3> QED
      BY <3>1, <3>2, <3>3 DEF Answered
  <2> QED
    BY <1>2, <1>4, <2>1, <2>2, <2>3, <2>4, <2>5, <2>6, <2>7, <2>8 DEF StepDoes
<1>7. \A t \in Refs : Requested(t)' \/ Denied(t)' => track'[t].sess = 1
  BY <1>2, RequestStep
<1> QED
  BY <1>5, <1>6, <1>7

LEMMA AnswerInit == Init => AnswerInv
<1> SUFFICES ASSUME Init PROVE AnswerInv
  OBVIOUS
<1>1. ~raced /\ DOMAIN creq = {} /\ DOMAIN evq = {} /\ DOMAIN ots = {}
  BY DEF Init
<1> QED
  BY <1>1 DEF AnswerInv, Requested, Denied

LEMMA AnswerAlways == Spec => []AnswerInv
<1>1. Init => AnswerInv
  BY AnswerInit
<1>2. BaseInv /\ TrackInv /\ HelperInv /\ AnswerInv /\ [Next]_vars => AnswerInv'
  BY BaseStep, AnswerStep
<1> QED
  BY <1>1, <1>2, BaseAlways, TrackAlways, HelperAlways, PTL DEF Spec

LEMMA CancelsAnswered ==
  ASSUME BaseInv, HelperInv, AnswerInv
  PROVE  CancelAnswered
<1> SUFFICES ASSUME Quiet, deaths = 0, cmds = <<>>, creq = <<>>, rtns = <<>>,
                    NEW i \in DOMAIN ots, NEW t \in ots[i].asked, t \in Refs
             PROVE  ots[i].st \cap {"CLOSED", "CANCEL_REJECT"} # {}
  BY DEF CancelAnswered
<1>1. up = "up" /\ ecmd = None /\ evq = <<>>
  BY DEF Quiet
<1>2. t > 0
  BY DEF Refs
<1>3. Answered(i, t) /\ track[t].local = i /\ i # 0
  BY <1>2, AskedRef DEF AnswerInv
<1>4. /\ ~Commanded(t) /\ ~Requested(t) /\ ~Denied(t) /\ ~Due(t, {"CANCELED"})
      /\ ~Told(t, {"CANCEL_REJECT"})
  BY <1>1 DEF Commanded, Requested, Denied, Due, Told
<1>5. t \in 1 .. reqId - 1
  <2>1. srv[t].st # "none"
    BY <1>3 DEF BaseInv, OwnInv, NoTrack
  <2>2. PICK n \in 0 .. MaxOrders : Entered(n)
    BY DEF BaseInv, EntryInv
  <2>3. t <= n /\ reqId = n + 1
    BY <1>1, <2>1, <2>2 DEF Entered
  <2> QED
    BY <2>3 DEF Refs
<1>6. ("CLOSED" \in ots[i].st) = ("CLOSED" \in track[t].st)
  BY <1>3, <1>5, HelperKnows DEF HelperFollows
<1> QED
  BY <1>3, <1>4, <1>6 DEF Answered

(* CancelAnswered, for every number of orders and cancels: the counter's   *)
(* answer to a cancel finds the order's track by its token, and the helper *)
(* hears of it (OnOrderCxled, OnCxlOrderReject).                           *)
THEOREM CancelAnsweredAlways == Spec => []CancelAnswered
<1>1. BaseInv /\ HelperInv /\ AnswerInv => CancelAnswered
  BY CancelsAnswered
<1> QED
  BY <1>1, BaseAlways, HelperAlways, AnswerAlways, PTL
=============================================================================
