-------------------------------- MODULE Risk --------------------------------
(***************************************************************************)
(* The checks an order passes before it is sent: RiskTop in a trade engine *)
(* (level top), RiskStg in a strategy (level stg).  Both keep an account   *)
(* (module Account) and test a new order against it: the      *)
(* instrument (RiskInstr), its product (RiskPrd) and the whole account     *)
(* (RiskAcc).  The engine also keeps its open orders in two treaps, best   *)
(* price first, and refuses an order that would meet one of its own; the   *)
(* strategy compares the price with the market and chooses the offset of   *)
(* an order that leaves it open.                                           *)
(*                                                                         *)
(* An order that is refused changes nothing.  The ask and the bid of the   *)
(* last tick are one price, an input of the check.  The limits on amounts  *)
(* are in module Amounts.  Nothing happens at the front while the engine   *)
(* is down: module Account says what comes of that.                        *)
(***************************************************************************)
EXTENDS Account

CONSTANTS
  AllowedInstrument,  \* instruments and products: allowed_instrument
  OrderSize,          \* allowed_order_size, as the ones below: the value of
                      \* an instrument, a product or "default"
  LongVolume, ShortVolume, NetVolume,         \* RiskForInstrument
  PrdLongVolume, PrdShortVolume, PrdNetVolume,  \* RiskForProduct
  CycleCount,         \* intensity_cycle_order_count
  CycleSpan,          \* intensity_cycle_time_span
  MaxUnfilled,        \* allowed_max_unfilled_order_number
  PriceMargin,        \* allowed_price_tick, times the tick
  Quotes,             \* the prices of orders
  MaxVols,            \* bound: volume of all orders of all days
  Start0, MaxTime     \* bounds: the time of the first and the last order

ASSUME RiskAssumption ==
  /\ CycleCount \in Nat \ {0} /\ CycleSpan \in Nat /\ MaxUnfilled \in Nat
  /\ Quotes \subseteq Nat \ {0} /\ MaxVols \in Nat
  /\ PriceMargin \in Nat /\ Start0 \in Nat /\ MaxTime \in Nat

VARIABLES
  pr,       \* the price of each order in request_track_
  level,    \* top or stg
  book,     \* the orders in bid_treap and ask_treap
  cycle,    \* of each instrument: the orders of its cycle and when it began
  stale,    \* the instruments and products whose RiskInstr or RiskPrd
            \* points into freed memory
  now,
  sent,     \* history: when the orders of an instrument passed the check,
            \* since its RiskInstr was made
  misread,  \* history: those for which an order was compared with it
  vols

riskVars == <<pr, level, book, cycle, stale, now, sent, misread,
              vols>>
rvars == <<vars, riskVars>>

-----------------------------------------------------------------------------
(* ConfUtil::getValue: instrument, then product, then default; RiskPrd     *)
(* asks for a product alone.                                               *)
ByProduct(conf, p) == IF p \in DOMAIN conf THEN conf[p] ELSE conf["default"]
GetValue(conf, i) == IF i \in DOMAIN conf THEN conf[i] ELSE ByProduct(conf, PrdOf[i])

(* RiskInstr::init and RiskPrd::init: the limits *)
InstrLimit(i) == [long |-> GetValue(LongVolume, i),
                  short |-> GetValue(ShortVolume, i),
                  net |-> GetValue(NetVolume, i)]
PrdLimit(p) == [long |-> ByProduct(PrdLongVolume, p),
                short |-> ByProduct(PrdShortVolume, p),
                net |-> ByProduct(PrdNetVolume, p)]

(* A configuration without a value for an instrument or a product is       *)
(* refused: init returns false.  A limit below zero, which init takes,     *)
(* lets no order pass but leaves even an empty account outside it.         *)
ASSUME LimitAssumption ==
  LET Limits == [long: Nat, short: Nat, net: Nat] IN
  /\ \A i \in Instrs : InstrLimit(i) \in Limits
  /\ \A p \in Prds : PrdLimit(p) \in Limits

(* productOrInstrumentToInstrSet *)
IsAllowed(i) == i \in AllowedInstrument \/ PrdOf[i] \in AllowedInstrument

Opposite(s) == IF s = "long" THEN "short" ELSE "long"

(* Is{Instrument,Product}{Long,Short}VolumeCorrect *)
IsVolumeCorrect(u, lim, dir, off, v) ==
  off = "Open" =>
    LET s == SideOf(dir, off)
        x == u.side[s]
    IN  x.pos + x.td_opn_ing + v <= lim[s]

(* Is{Instrument,Product}NetVolumeCorrect *)
IsNetVolumeCorrect(u, lim, dir, v) ==
  LET s == IF dir = "Buy" THEN "long" ELSE "short"
      x == u.side[s]
      y == u.side[Opposite(s)]
  IN  x.pos - y.pos + y.yd_cls_ing + x.td_opn_ing + y.td_cls_ing + v <= lim.net

(* Mutant of IsIntensityNormal: one order more. *)
IsIntensityNormalMore(i) ==
  ~(cycle[i].count > CycleCount /\ now - cycle[i].record < CycleSpan)

IsIntensityNormal(i) ==
  ~(cycle[i].count >= CycleCount /\ now - cycle[i].record < CycleSpan)

(* Mutant of RiskInstrCheck: the orders under way are not counted. *)
RiskInstrCheckFilled(i, dir, off, v) ==
  LET u == [instr[i] EXCEPT !.side = [s \in Sides |->
              [@[s] EXCEPT !.td_opn_ing = 0]]]
  IN
  /\ IsAllowed(i) /\ v <= GetValue(OrderSize, i) /\ IsIntensityNormal(i)
  /\ IsVolumeCorrect(u, InstrLimit(i), dir, off, v)
  /\ IsNetVolumeCorrect(u, InstrLimit(i), dir, v)

(* RiskInstr::check *)
RiskInstrCheck(i, dir, off, v) ==
  LET u == instr[i] IN
  /\ IsAllowed(i)
  /\ v <= GetValue(OrderSize, i)
  /\ IsIntensityNormal(i)
  /\ i \in stale \/ (/\ IsVolumeCorrect(u, InstrLimit(i), dir, off, v)
                     /\ IsNetVolumeCorrect(u, InstrLimit(i), dir, v))

(* RiskPrd::check *)
RiskPrdCheck(i, dir, off, v) ==
  LET p == PrdOf[i] IN
  p \in stale \/ (/\ IsVolumeCorrect(prd[p], PrdLimit(p), dir, off, v)
                 /\ IsNetVolumeCorrect(prd[p], PrdLimit(p), dir, v))

(* RiskAcc::check, the number of orders; the amounts are in Amounts. *)
RiskAccCheck == unfilled < MaxUnfilled

(* Mutant of SelfTrade: an order at the same price is let through. *)
SelfTradeEqual(i, dir, p) ==
  \E r \in book :
    /\ track[r].instr = i /\ track[r].dir # dir
    /\ IF dir = "Buy" THEN p > pr[r] ELSE p < pr[r]

(* RiskInstrTop::check: the best order of the other treap *)
SelfTrade(i, dir, p) ==
  \E r \in book :
    /\ track[r].instr = i /\ track[r].dir # dir
    /\ IF dir = "Buy" THEN p >= pr[r] ELSE p <= pr[r]

(* RiskInstrStg::check, with q the price of the last tick, 0 before it *)
IsPriceCorrect(p, q) ==
  q # 0 => p <= q + PriceMargin /\ p >= q - PriceMargin

(* Mutant of ParseAutoOffset: what is being closed is not counted. *)
ParseAutoOffsetTwice(i, dir, off, v) ==
  LET y == instr[i].side[IF dir = "Buy" THEN "short" ELSE "long"] IN
  IF y.yd >= v THEN {"CloseYesterday"}
  ELSE IF off # "Close" THEN {"Open"}
  ELSE IF y.td >= v THEN {"CloseToday"} ELSE {}

(* RiskInstr::parseAutoOffset: the offset chosen, or none *)
ParseAutoOffset(i, dir, off, v) ==
  LET s == IF dir = "Buy" THEN "long" ELSE "short"
      x == instr[i].side[s]
      y == instr[i].side[Opposite(s)]
  IN
  IF y.yd - y.yd_cls_ing >= v THEN {"CloseYesterday"}
  ELSE IF off # "Close" /\ InstrLimit(i)[s] - x.pos - x.td_opn_ing >= v
       THEN {"Open"}
  ELSE IF y.td - y.td_cls_ing >= v THEN {"CloseToday"} ELSE {}

(* The offset an order is sent with: the engine takes a definite one. *)
OffsetOf(i, dir, off, v) ==
  IF off \in Offs THEN {off}
  ELSE IF level = "stg" THEN ParseAutoOffset(i, dir, off, v) ELSE {}

(* RiskTop::check and RiskStg::check *)
Check(i, dir, off, p, v, q) ==
  /\ IF level = "top" THEN ~SelfTrade(i, dir, p) ELSE IsPriceCorrect(p, q)
  /\ RiskInstrCheck(i, dir, off, v)
  /\ RiskPrdCheck(i, dir, off, v)
  /\ RiskAccCheck

(* RiskInstr::onNew *)
NewCycle(c) ==
  IF c.count + 1 > CycleCount THEN [count |-> 1, record |-> now]
  ELSE [c EXCEPT !.count = @ + 1]

FreshCycle == [count |-> 0, record |-> 0]

-----------------------------------------------------------------------------
RInit ==
  /\ Init /\ pr = <<>> /\ vols = 0
  /\ level \in {"top", "stg"}
  /\ book = {} /\ stale = {} /\ misread = {} /\ now = Start0
  /\ cycle = [i \in Instrs |-> FreshCycle]
  /\ sent = [i \in Instrs |-> <<>>]

(* req_order_insert of the engine, sendOrder of the strategy: the check,   *)
(* then onNew.                                                             *)
Send(i, dir, off, p, v, q) ==
  /\ up = "up" /\ vols + v <= MaxVols
  /\ vols' = vols + v
  /\ \E o \in OffsetOf(i, dir, off, v) :
    /\ Check(i, dir, o, p, v, q)
    /\ NewOrder(i, dir, o, v)
    /\ pr' = Append(pr, p)
    /\ book' = IF level = "top" THEN book \cup {Len(track')} ELSE book
    /\ cycle' = [cycle EXCEPT ![i] = NewCycle(@)]
    /\ sent' = [sent EXCEPT ![i] = Append(@, now)]
    /\ misread' = misread \cup (stale \cap {i, PrdOf[i]})
    /\ UNCHANGED <<level, stale, now>>

(* RiskTop::onRtn, onTrd: a filled order leaves its treap. *)
RTrade(r, n) ==
  /\ OnRtnTrade(r, n)
  /\ book' = IF track'[r].traded = track[r].vol THEN book \ {r} ELSE book
  /\ UNCHANGED <<pr, vols, level, cycle, stale, now, sent, misread>>

(* RiskTop::onRtn, onCxl: a canceled order leaves its treap. *)
RCancel(r) ==
  /\ OnRtnClosed(r)
  /\ book' = book \ {r}
  /\ UNCHANGED <<pr, vols, level, cycle, stale, now, sent, misread>>

(* A rejected order does not: onRtn looks for CANCELED only. *)
RReject(r) ==
  /\ track[r].traded = 0
  /\ OnRtnClosed(r)
  /\ UNCHANGED riskVars

(* A new process has new tables. *)
NewTables ==
  /\ book' = {} /\ stale' = {}
  /\ cycle' = [i \in Instrs |-> FreshCycle]
  /\ sent' = [i \in Instrs |-> <<>>]
  /\ UNCHANGED <<vols, level, now, misread>>

RCrash == Crash /\ NewTables /\ UNCHANGED pr
RStart == Start /\ UNCHANGED riskVars
RReplay == Replay /\ UNCHANGED riskVars
RListen == Listen /\ UNCHANGED riskVars
RClose == Close /\ NewTables /\ pr' = <<>>

(* RiskStg::onSwitchDay: AccBase::onSwitchDay frees the entries that are   *)
(* flat, and the volumes read then to find them are in freed memory: the   *)
(* RiskInstr or RiskPrd of such an entry goes, and is made anew with the   *)
(* next order, or it stays and points there.                               *)
RSwitchDay ==
  /\ level = "stg"
  /\ SwitchDay /\ pr' = <<>>
  /\ LET freed == stale \cup {i \in Instrs : Flat(instr[i])}
                        \cup {p \in Prds : Flat(prd[p])}
     IN  \E kept \in SUBSET freed :
           /\ stale' = kept
           /\ cycle' = [i \in Instrs |-> IF i \in freed \ kept THEN FreshCycle
                                         ELSE cycle[i]]
           /\ sent' = [i \in Instrs |-> IF i \in freed \ kept THEN <<>>
                                        ELSE sent[i]]
  /\ UNCHANGED <<vols, level, book, now, misread>>

(* Time passes between orders. *)
Wait ==
  /\ up = "up" /\ \E i \in Instrs : sent[i] # <<>>
  /\ now < MaxTime
  /\ now' = now + 1
  /\ UNCHANGED <<vars, pr, vols, level, book, cycle, stale, sent,
                 misread>>

(* The last price: a strategy has none before its first tick, the engine   *)
(* looks at none.                                                          *)
Ticks == {0} \cup (IF level = "stg" THEN Quotes ELSE {})

RNext ==
  \/ \E i \in Instrs, dir \in Dirs, off \in Offs \cup {"Auto", "Close"},
        p \in Quotes, v \in 1 .. MaxVol, q \in Ticks :
       Send(i, dir, off, p, v, q)
  \/ \E r \in DOMAIN track :
       \/ \E n \in 1 .. MaxVol : RTrade(r, n)
       \/ RCancel(r) \/ RReject(r)
  \/ RCrash \/ RStart \/ RReplay \/ RListen
  \/ RSwitchDay \/ RClose \/ Wait

RSpec == RInit /\ [][RNext]_rvars

-----------------------------------------------------------------------------
(***************************************************************************)
(* Properties                                                              *)
(***************************************************************************)
(* The volume the front may still trade of the orders that Sel picks *)
OpenAtFront(Sel(_)) ==
  LET own == {r \in DOMAIN track : front[r].open /\ Sel(track[r])}
  IN  SumFunctionOnSet([r \in own |-> track[r].vol - front[r].traded], own)

(* The limits hold at the front for the instruments S, together: even if   *)
(* everything open on one side trades, and nothing on the other.           *)
WithinLimits(S, lim) ==
  /\ \A s \in Sides :
       SumFunctionOnSet([i \in S |-> held[i][s]], S)
         + OpenAtFront(LAMBDA o : /\ o.instr \in S /\ o.off = "Open"
                                  /\ SideOf(o.dir, o.off) = s) <= lim[s]
  /\ LET net == SumFunctionOnSet([i \in S |-> held[i]["long"] - held[i]["short"]], S)
     IN
     /\ net + OpenAtFront(LAMBDA o : o.instr \in S /\ o.dir = "Buy") <= lim.net
     /\ -net + OpenAtFront(LAMBDA o : o.instr \in S /\ o.dir = "Sell") <= lim.net

(* The positions at the front stay within the limits of the instrument,    *)
(* over orders under way, fills in any order, cancels, rejects, days and   *)
(* deaths (RiskInstr::check), as long as no order was compared with freed   *)
(* memory.                                                                 *)
InstrWithinLimits ==
  \A i \in Instrs \ misread : WithinLimits({i}, InstrLimit(i))

(* So do those of a product, over all its instruments (RiskPrd::check). *)
PrdWithinLimits ==
  \A p \in Prds \ misread :
    WithinLimits({i \in Instrs : PrdOf[i] = p}, PrdLimit(p))

(* There are never more orders at the front than allowed (RiskAcc,         *)
(* unfilled_order_cnt through fills, cancels, rejects and replays).        *)
UnfilledBounded ==
  Cardinality({r \in DOMAIN track : front[r].open}) <= MaxUnfilled

(* Every order passes its checks alone; whatever passes, fills, is canceled *)
(* or rejected in whatever order, the limits of all three levels hold.      *)
LimitsHold == InstrWithinLimits /\ PrdWithinLimits /\ UnfilledBounded

(* Two orders of an account never meet: while an engine runs, every order  *)
(* that is open at the front is in its treap (RiskInstrTop), until it has  *)
(* died once with orders open.                                             *)
NoSelfTrade ==
  level = "top" /\ crashes = 0 =>
    \A r, q \in DOMAIN track :
      /\ front[r].open /\ front[q].open /\ track[r].instr = track[q].instr
      /\ track[r].dir = "Buy" /\ track[q].dir = "Sell"
      => pr[r] < pr[q]

(* RiskInstrTop.h: self-trade through the same trade account is forbidden  *)
(* and safely prevented, also after a restart of the engine.               *)
SelfTradePrevented ==
  level = "top" =>
    \A r, q \in DOMAIN track :
      /\ front[r].open /\ front[q].open /\ track[r].instr = track[q].instr
      /\ track[r].dir = "Buy" /\ track[q].dir = "Sell"
      => pr[r] < pr[q]

(* The intensity limit: no more than two cycles of orders pass the check   *)
(* in less than the time of one (RiskInstr::IsIntensityNormal and onNew:   *)
(* a cycle ends with its last order, and the next one begins at once).     *)
IntensityBounded ==
  \A i \in Instrs :
    \A k \in 1 .. Len(sent[i]) :
      k + 2 * CycleCount <= Len(sent[i]) =>
        sent[i][k + 2 * CycleCount] - sent[i][k] >= CycleSpan

(* An offset that the strategy leaves open is never one that closes more   *)
(* than there is, counting what is being closed, or opens more than the    *)
(* limit (RiskInstr::parseAutoOffset).                                     *)
AutoOffsetFits ==
  up = "up" =>
    \A i \in Instrs, dir \in Dirs, off \in {"Auto", "Close"}, v \in 1 .. MaxVol :
      \A o \in ParseAutoOffset(i, dir, off, v) :
        /\ Available(i, dir, o, v)
        /\ IsVolumeCorrect(instr[i], InstrLimit(i), dir, o, v)
=============================================================================
