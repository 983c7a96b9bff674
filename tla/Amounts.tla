------------------------------- MODULE Amounts -------------------------------
(***************************************************************************)
(* The money of an account: the value of its positions at the last price   *)
(* (UnitAmt), the prices (UnitPx) and the profits (UnitPnl) that AccBase   *)
(* keeps beside the volumes of module Account, per instrument, per product *)
(* and in total.  Every step of Account is a step here, with the prices    *)
(* that come with it, and a tick is one more.                              *)
(*                                                                         *)
(* The six amounts under way of a UnitAmt are one function of the offset   *)
(* for each side.  Prices are integers; a mean price is a quotient of      *)
(* integers, exact when Prices holds multiples of every volume.  Average   *)
(* prices (avg_px_buy, avg_px_sell) are quotients of what is kept here.    *)
(***************************************************************************)
EXTENDS Account

CONSTANTS
  Prices,    \* the prices of orders, trades and ticks
  Mult,      \* vol_multiple
  LongAmount, ShortAmount, NetAmount,  \* the limits of RiskForAccount
  MaxTicks,  \* bound: number of ticks
  MaxLots    \* bound: volume of all orders of all days

ASSUME AmountsAssumption ==
  /\ Prices \subseteq Nat \ {0} /\ Mult \in Nat
  /\ MaxTicks \in Nat /\ MaxLots \in Nat
  /\ LongAmount \in Nat /\ ShortAmount \in Nat /\ NetAmount \in Nat

VARIABLES
  money,     \* the money of instruments and products, and acc, the total
  file,      \* the money in the last saved file
  px,        \* the price of each order in request_track_
  paid,      \* the amount traded of each order, at the front
  ticks, lots

amtVars == <<money, file, px, paid, ticks, lots>>
avars == <<vars, amtVars>>

-----------------------------------------------------------------------------
(***************************************************************************)
(* UnitAmt, UnitPx and UnitPnl                                             *)
(***************************************************************************)
ZeroAmt == [amt |-> 0, ing |-> [off \in Offs |-> 0]]
ZeroMoney ==
  [side |-> [s \in Sides |-> ZeroAmt], buy |-> 0, sell |-> 0,
   pos_pnl |-> 0, trd_pnl |-> 0, last |-> 0, stl |-> 0]

(* An amount is added to what is under way. *)
IngChange(m, o, d) ==
  [m EXCEPT !.side[SideOf(o.dir, o.off)].ing[o.off] = @ + d]

(* on{Long,Short}Change, when an order opens or closes *)
AmtChange(m, o, d) ==
  [m EXCEPT !.side[SideOf(o.dir, o.off)].amt =
     @ + (IF o.off = "Open" THEN d ELSE -d)]

(* What the instrument alone keeps: amt_buy and amt_sell. *)
CashChange(m, o, d) ==
  [m EXCEPT !.buy = @ + (IF o.dir = "Buy" THEN d ELSE 0),
            !.sell = @ + (IF o.dir = "Sell" THEN d ELSE 0)]

(* A change of price of d moves the value of the volumes u by d times the  *)
(* position, and the two profits by d times what each of them is about.    *)
PxChange(m, u, d) ==
  [m EXCEPT
     !.side = [s \in Sides |-> [m.side[s] EXCEPT !.amt = @ + d * u.side[s].pos]],
     !.pos_pnl = @ + d * (u.side["long"].yd_ini - u.side["short"].yd_ini),
     !.trd_pnl = @ + d * (u.buy - u.sell)]

(* onSwitchDay of the three *)
MoneySwitchDay(m) ==
  [side |-> [s \in Sides |-> [ZeroAmt EXCEPT !.amt = m.side[s].amt]],
   buy |-> 0, sell |-> 0, pos_pnl |-> 0, trd_pnl |-> 0,
   last |-> m.last, stl |-> m.last]

(* The same entries come out of to_json and from_json. *)
MoneyFromJson(m) == MoneySwitchDay(m)

-----------------------------------------------------------------------------
(***************************************************************************)
(* ModInstr: an operation changes the instrument, its product and the      *)
(* account                                                                 *)
(***************************************************************************)
OnAll(M, i, f(_)) ==
  [instr |-> [M.instr EXCEPT ![i] = f(@)],
   prd |-> [M.prd EXCEPT ![PrdOf[i]] = f(@)],
   acc |-> f(M.acc)]

(* ModInstr::onTickPx *)
TickPx(M, i, u, p) ==
  LET d == (p - M.instr[i].last) * Mult
      N == OnAll(M, i, LAMBDA m : PxChange(m, u, d))
  IN  [N EXCEPT !.instr[i].last = p]

(* ModInstr::onNew and onCxl: volume v of the order, -v to give it back *)
AmtNew(M, o, p, v) == OnAll(M, o.instr, LAMBDA m : IngChange(m, o, p * v * Mult))
AmtCxl(M, o, p, v) == AmtNew(M, o, p, -v)

(* Mutant of AmtTrd: the value of the instrument is not passed on. *)
AmtTrdOwn(M, o, p, u, t, v) ==
  LET N == AmtCxl(TickPx(M, o.instr, u, t), o, p, v)
  IN  [N EXCEPT !.instr[o.instr] =
                  CashChange(AmtChange(@, o, t * v * Mult), o, t * v * Mult)]

(* ModInstr::onTrd: v lots of order o, with price p, at price t; u are the *)
(* volumes before.                                                         *)
AmtTrd(M, o, p, u, t, v) ==
  LET N == OnAll(AmtCxl(TickPx(M, o.instr, u, t), o, p, v), o.instr,
                 LAMBDA m : AmtChange(m, o, t * v * Mult))
  IN  [N EXCEPT !.instr[o.instr] = CashChange(@, o, t * v * Mult)]

(* AccBase::onOrderTrack: as OnOrderTrack of Account, at the mean price *)
AmtOrderTrack(M, o, p, u, amount) ==
  LET N == IF "TDSEND" \in o.st THEN AmtNew(M, o, p, o.vol) ELSE M
      C == IF "CLOSED" \in o.st /\ o.vol # o.traded
           THEN AmtCxl(N, o, p, o.vol - o.traded) ELSE N
      mean == IF o.traded = 0 THEN 0 ELSE amount \div o.traded
  IN  IF "EXECUTION" \in o.st THEN AmtTrd(C, o, p, u, mean, o.traded) ELSE C

NoMoney == [instr |-> [i \in Instrs |-> ZeroMoney],
            prd |-> [p \in Prds |-> ZeroMoney], acc |-> ZeroMoney]

(* The entries to_json leaves out: nothing held, nothing under way. *)
Idle(u) == \A s \in Sides : LET x == u.side[s] IN
  /\ x.yd_ini = 0 /\ x.pos = 0
  /\ x.yd_cls_ing = 0 /\ x.td_cls_ing = 0 /\ x.td_opn_ing = 0

(* AccBase::to_json *)
AmtSave ==
  file' = [instr |-> [i \in Instrs |->
                        IF Idle(instr[i]) THEN ZeroMoney ELSE money.instr[i]],
           prd |-> [p \in Prds |->
                      IF Idle(prd[p]) THEN ZeroMoney ELSE money.prd[p]],
           acc |-> money.acc]

(* AccBase::load, from_json *)
AmtLoaded ==
  [instr |-> [i \in Instrs |-> MoneyFromJson(file.instr[i])],
   prd |-> [p \in Prds |-> MoneyFromJson(file.prd[p])],
   acc |-> MoneyFromJson(file.acc)]

-----------------------------------------------------------------------------
AInit ==
  /\ Init
  /\ money = NoMoney /\ file = NoMoney
  /\ px = <<>> /\ paid = <<>> /\ ticks = 0 /\ lots = 0

(* RiskAcc::check, the amounts: a sell order is tested with the amounts under way that  *)
(* close the short side, as a buy order is.                                *)
AmountsCorrect(dir, off, amount) ==
  LET L == money.acc.side["long"]
      S == money.acc.side["short"]
      closing == S.ing["CloseYesterday"] + S.ing["CloseToday"]
  IN
  /\ off = "Open" => IF dir = "Buy" THEN L.amt + L.ing["Open"] + amount <= LongAmount
                     ELSE S.amt + S.ing["Open"] + amount <= ShortAmount
  /\ IF dir = "Buy"
     THEN L.amt - S.amt + L.ing["Open"] + closing + amount <= NetAmount
     ELSE S.amt - L.amt + S.ing["Open"] + closing + amount <= NetAmount

ANewOrder(i, dir, off, p, v) ==
  /\ AmountsCorrect(dir, off, p * v * Mult)
  /\ lots + v <= MaxLots
  /\ NewOrder(i, dir, off, v)
  /\ lots' = lots + v
  /\ px' = Append(px, p) /\ paid' = Append(paid, 0)
  /\ money' = AmtNew(money, track'[Len(track')], p, v)
  /\ UNCHANGED <<file, ticks>>

AOnRtnTrade(r, n, t) ==
  /\ OnRtnTrade(r, n)
  /\ paid' = [paid EXCEPT ![r] = @ + t * n]
  /\ money' = AmtTrd(money, track[r], px[r], instr[track[r].instr], t, n)
  /\ UNCHANGED <<file, px, ticks, lots>>

AOnRtnClosed(r) ==
  /\ OnRtnClosed(r)
  /\ money' = AmtCxl(money, track[r], px[r], track[r].vol - front[r].traded)
  /\ UNCHANGED <<file, px, paid, ticks, lots>>

(* AccBase::onTickPx: the strategy passes a price of the market on. *)
OnTickPx(i, p) ==
  /\ up = "up" /\ ticks < MaxTicks
  /\ ticks' = ticks + 1
  /\ money' = TickPx(money, i, instr[i], p)
  /\ UNCHANGED <<vars, file, px, paid, lots>>

ACrash == Crash /\ money' = NoMoney /\ UNCHANGED <<file, px, paid, ticks, lots>>

AMissed(r) ==
  /\ Missed(r)
  /\ \E t \in Prices :
       paid' = [paid EXCEPT ![r] = @ + t * (front'[r].traded - front[r].traded)]
  /\ UNCHANGED <<money, file, px, ticks, lots>>

(* load; updateTradedAmount takes the amounts traded from the front. *)
AStart == Start /\ money' = AmtLoaded /\ UNCHANGED <<file, px, paid, ticks, lots>>

AReplay ==
  /\ Replay
  /\ money' = LET o == track[next] IN
              AmtOrderTrack(money, o, px[next], instr[o.instr], paid[next])
  /\ UNCHANGED <<file, px, paid, ticks, lots>>

AListen == Listen /\ UNCHANGED amtVars

NoTracks == px' = <<>> /\ paid' = <<>>

(* Mutant of ASwitchDay: the settlement price is not taken. *)
ASwitchDayStl ==
  /\ SwitchDay /\ NoTracks /\ AmtSave
  /\ money' =
       [instr |-> [i \in Instrs |->
                     IF Flat(instr[i]) THEN ZeroMoney
                     ELSE [MoneySwitchDay(money.instr[i]) EXCEPT
                             !.stl = money.instr[i].stl]],
        prd |-> [p \in Prds |-> IF Flat(prd[p]) THEN ZeroMoney
                                ELSE MoneySwitchDay(money.prd[p])],
        acc |-> MoneySwitchDay(money.acc)]
  /\ UNCHANGED <<ticks, lots>>

(* AccBase::onSwitchDay *)
ASwitchDay ==
  /\ SwitchDay /\ NoTracks /\ AmtSave
  /\ money' =
       [instr |-> [i \in Instrs |-> IF Flat(instr[i]) THEN ZeroMoney
                                    ELSE MoneySwitchDay(money.instr[i])],
        prd |-> [p \in Prds |-> IF Flat(prd[p]) THEN ZeroMoney
                                ELSE MoneySwitchDay(money.prd[p])],
        acc |-> MoneySwitchDay(money.acc)]
  /\ UNCHANGED <<ticks, lots>>

AClose == Close /\ NoTracks /\ AmtSave /\ money' = NoMoney /\ UNCHANGED <<ticks, lots>>

ADownOver == DownOver /\ NoTracks /\ UNCHANGED <<money, file, ticks, lots>>

ANext ==
  \/ \E i \in Instrs, dir \in Dirs, off \in Offs, p \in Prices,
        v \in 1 .. MaxVol : ANewOrder(i, dir, off, p, v)
  \/ \E r \in DOMAIN track :
       \/ \E n \in 1 .. MaxVol, t \in Prices : AOnRtnTrade(r, n, t)
       \/ AOnRtnClosed(r)
       \/ AMissed(r)
  \/ \E i \in Instrs, p \in Prices : OnTickPx(i, p)
  \/ ACrash \/ AStart \/ AReplay \/ AListen
  \/ ASwitchDay \/ AClose \/ ADownOver

ASpec == AInit /\ [][ANext]_avars

-----------------------------------------------------------------------------
(***************************************************************************)
(* Properties                                                              *)
(***************************************************************************)
(* The value of a position is the position at the last price, whatever     *)
(* ticks, trades at other prices, days, deaths and replays came before     *)
(* (ModInstr::onTickPx and onTrd add differences, never the product).      *)
ValuesAtLastPrice ==
  \A i \in Instrs, s \in Sides :
    money.instr[i].side[s].amt =
      instr[i].side[s].pos * money.instr[i].last * Mult

(* The profit of the day is what the value of the positions has grown by   *)
(* since the settlement price of yesterday, less what was paid for them:   *)
(* pos_pnl and trd_pnl, each moved by price changes only, add up to it.    *)
ProfitExplained ==
  \A i \in Instrs :
    LET m == money.instr[i]
        u == instr[i]
        yd == u.side["long"].yd_ini - u.side["short"].yd_ini
    IN  m.pos_pnl + m.trd_pnl =
          (m.side["long"].amt - m.side["short"].amt)
          - yd * m.stl * Mult - (m.buy - m.sell)

(* The amounts and the profits of a product, and of the account, are the   *)
(* sums of those of the instruments: no change is passed on twice or not   *)
(* at all, and an entry that onSwitchDay erases held nothing.              *)
SumsOfInstruments ==
  LET Same(m, S) ==
        LET Total(f) == SumFunctionOnSet(f, S)
            M == money.instr
        IN
        /\ \A s \in Sides :
             /\ m.side[s].amt = Total([i \in S |-> M[i].side[s].amt])
             /\ \A off \in Offs :
                  m.side[s].ing[off] = Total([i \in S |-> M[i].side[s].ing[off]])
        /\ m.pos_pnl = Total([i \in S |-> M[i].pos_pnl])
        /\ m.trd_pnl = Total([i \in S |-> M[i].trd_pnl])
  IN  /\ \A p \in Prds : Same(money.prd[p], {i \in Instrs : PrdOf[i] = p})
      /\ Same(money.acc, Instrs)

(* Value, cash and profit of every instrument tell the same story, and so  *)
(* do product and account.                                                 *)
MoneyExplained == ValuesAtLastPrice /\ ProfitExplained /\ SumsOfInstruments

(* The amounts under way are those of the open orders at their own prices, *)
(* whatever price they traded at: nothing stays frozen (onNew, onCxl,      *)
(* onTrd and the replay), as long as the engine has missed nothing.        *)
AmountsUnderWay ==
  up = "up" /\ missed = 0 =>
    \A s \in Sides, off \in Offs :
      LET own == {r \in DOMAIN track : /\ track[r].off = off
                                       /\ SideOf(track[r].dir, off) = s}
      IN  money.acc.side[s].ing[off] =
            SumFunctionOnSet([r \in own |-> px[r] * Left(track[r]) * Mult], own)

(* What is under way, in lots and in money, is what the open orders say:   *)
(* the volumes and the amounts are kept by different classes and must give *)
(* back the same orders.                                                   *)
UnderWayMatchesOrders == FrozenMatchesOrders /\ AmountsUnderWay
=============================================================================
