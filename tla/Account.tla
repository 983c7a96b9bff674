------------------------------- MODULE Account -------------------------------
(***************************************************************************)
(* The account an engine or a strategy keeps (AccBase: ModInstr per        *)
(* instrument, ModPrd per product, ModAcc): positions, the volume of       *)
(* orders under way, and the number of unfilled orders.  It lives in       *)
(* memory, is saved when the engine closes, and after a start is rebuilt   *)
(* from the last saved file and the order tracks of the day.               *)
(*                                                                         *)
(* The sixteen counters of UnitVol are seven per side and two totals; the  *)
(* twelve operations on them differ only in side and offset.  An entry     *)
(* that is not in map_instr_ or map_prd_ is one of zeros, as regInstr      *)
(* would make it.  Amounts and profits are left out.                       *)
(***************************************************************************)
EXTENDS Integers, Sequences, FiniteSets, Functions

CONSTANTS
  Instrs,      \* the instruments
  Prds,        \* the products
  PrdOf,       \* the product of each instrument
  MaxOrders,   \* bound: number of orders of a day
  MaxVol,      \* bound: volume of an order
  MaxDays,     \* bound: number of trading days
  MaxCrashes,  \* bound: number of deaths of the engine
  MaxMissed    \* bound: number of changes of orders, and ends of days, that
               \* find no engine running

ASSUME AccountAssumption ==
  /\ IsFiniteSet(Instrs) /\ PrdOf \in [Instrs -> Prds]
  /\ MaxOrders \in Nat /\ MaxVol \in Nat /\ MaxDays \in Nat
  /\ MaxCrashes \in Nat /\ MaxMissed \in Nat

VARIABLES
  up,        \* up, down, or replay: in the loop over the order tracks
  instr,     \* map_instr_: the UnitVol of each instrument
  prd,       \* map_prd_: the UnitVol of each product
  unfilled,  \* unfilled_order_cnt
  saved,     \* the last saved file: the positions in it
  track,     \* request_track_; the position is the order reference
  next,      \* the track the replay takes next
  front,     \* the orders at the front
  held,      \* the positions at the front
  day, crashes, missed

memVars == <<instr, prd, unfilled>>
vars == <<up, instr, prd, unfilled, saved, track, next, front, held, day,
          crashes, missed>>

-----------------------------------------------------------------------------
(***************************************************************************)
(* UnitVol                                                                 *)
(***************************************************************************)
Sides == {"long", "short"}
Dirs == {"Buy", "Sell"}
Offs == {"Open", "CloseYesterday", "CloseToday"}

(* The side an order changes: buying opens long and closes short. *)
SideOf(dir, off) == IF (dir = "Buy") <=> (off = "Open") THEN "long" ELSE "short"

ZeroSide == [yd_ini |-> 0, yd |-> 0, td |-> 0, pos |-> 0,
             yd_cls_ing |-> 0, td_cls_ing |-> 0, td_opn_ing |-> 0]
ZeroVol == [side |-> [s \in Sides |-> ZeroSide], buy |-> 0, sell |-> 0]

(* The volume v where the offset is the one asked for. *)
If(off, o, v) == IF off = o THEN v ELSE 0

(* on{Buy,Sell}{Opn,ClsYd,ClsTd}New and, with -v, ...Cxl *)
AddIng(x, off, v) ==
  [yd_ini |-> x.yd_ini, yd |-> x.yd, td |-> x.td, pos |-> x.pos,
   yd_cls_ing |-> x.yd_cls_ing + If(off, "CloseYesterday", v),
   td_cls_ing |-> x.td_cls_ing + If(off, "CloseToday", v),
   td_opn_ing |-> x.td_opn_ing + If(off, "Open", v)]

(* on{Buy,Sell}{Opn,ClsYd,ClsTd}Trd, on the side *)
Trd(x, off, v) ==
  [yd_ini |-> x.yd_ini,
   yd |-> x.yd - If(off, "CloseYesterday", v),
   td |-> x.td + If(off, "Open", v) - If(off, "CloseToday", v),
   pos |-> x.pos + (IF off = "Open" THEN v ELSE -v),
   yd_cls_ing |-> x.yd_cls_ing - If(off, "CloseYesterday", v),
   td_cls_ing |-> x.td_cls_ing - If(off, "CloseToday", v),
   td_opn_ing |-> x.td_opn_ing - If(off, "Open", v)]

VolNew(u, dir, off, v) ==
  [side |-> [u.side EXCEPT ![SideOf(dir, off)] = AddIng(@, off, v)],
   buy |-> u.buy, sell |-> u.sell]

VolCxl(u, dir, off, v) == VolNew(u, dir, off, -v)

VolTrd(u, dir, off, v) ==
  [side |-> [u.side EXCEPT ![SideOf(dir, off)] = Trd(@, off, v)],
   buy |-> u.buy + (IF dir = "Buy" THEN v ELSE 0),
   sell |-> u.sell + (IF dir = "Sell" THEN v ELSE 0)]

(* A position is carried over as yesterday's. *)
CarriedOver(p) ==
  [side |-> [s \in Sides |->
     [yd_ini |-> p[s], yd |-> p[s], td |-> 0, pos |-> p[s],
      yd_cls_ing |-> 0, td_cls_ing |-> 0, td_opn_ing |-> 0]],
   buy |-> 0, sell |-> 0]

Pos(u) == [s \in Sides |-> u.side[s].pos]

(* UnitVol::onSwitchDay *)
VolSwitchDay(u) == CarriedOver(Pos(u))

(* Mutant of VolFromJson: yesterday's position starts at zero. *)
VolFromJsonNoYd(p) ==
  [side |-> [s \in Sides |->
     [yd_ini |-> p[s], yd |-> 0, td |-> 0, pos |-> p[s],
      yd_cls_ing |-> 0, td_cls_ing |-> 0, td_opn_ing |-> 0]],
   buy |-> 0, sell |-> 0]

(* UnitVol::to_json, of what from_json reads, and UnitVol::from_json *)
VolToJson(u) == Pos(u)
VolFromJson(p) == CarriedOver(p)

(* Mutant of Flat: the short side is forgotten. *)
FlatLong(u) == u.side["long"].pos = 0

(* The test of onSwitchDay: such an entry is erased. *)
Flat(u) == u.side["long"].pos = 0 /\ u.side["short"].pos = 0

-----------------------------------------------------------------------------
(***************************************************************************)
(* ModInstr: an operation changes the instrument and its product           *)
(***************************************************************************)
Account(I, P, n) == [instr |-> I, prd |-> P, unfilled |-> n]

OnNew(a, o) ==
  Account([a.instr EXCEPT ![o.instr] = VolNew(@, o.dir, o.off, o.vol)],
          [a.prd EXCEPT ![PrdOf[o.instr]] = VolNew(@, o.dir, o.off, o.vol)],
          a.unfilled + 1)

OnCxl(a, o, v) ==
  Account([a.instr EXCEPT ![o.instr] = VolCxl(@, o.dir, o.off, v)],
          [a.prd EXCEPT ![PrdOf[o.instr]] = VolCxl(@, o.dir, o.off, v)],
          a.unfilled - 1)

(* Mutant of OnTrd: the product is forgotten. *)
OnTrdNoPrd(a, o, v) ==
  Account([a.instr EXCEPT ![o.instr] = VolTrd(@, o.dir, o.off, v)],
          a.prd,
          IF o.vol = o.traded THEN a.unfilled - 1 ELSE a.unfilled)

OnTrd(a, o, v) ==
  Account([a.instr EXCEPT ![o.instr] = VolTrd(@, o.dir, o.off, v)],
          [a.prd EXCEPT ![PrdOf[o.instr]] = VolTrd(@, o.dir, o.off, v)],
          IF o.vol = o.traded THEN a.unfilled - 1 ELSE a.unfilled)

Now == Account(instr, prd, unfilled)
Becomes(a) == instr' = a.instr /\ prd' = a.prd /\ unfilled' = a.unfilled

(* The three steps of AccBase::onOrderTrack *)
NewOf(a, o) == IF "TDSEND" \in o.st THEN OnNew(a, o) ELSE a
CxlOf(a, o) ==
  IF "CLOSED" \in o.st /\ o.vol # o.traded THEN OnCxl(a, o, o.vol - o.traded)
  ELSE a
TrdOf(a, o) == IF "EXECUTION" \in o.st THEN OnTrd(a, o, o.traded) ELSE a

(* Mutant of OnOrderTrack: a closed order is not given back. *)
OnOrderTrackNoCxl(a, o) == TrdOf(NewOf(a, o), o)

OnOrderTrack(a, o) == TrdOf(CxlOf(NewOf(a, o), o), o)

-----------------------------------------------------------------------------
Init ==
  /\ up = "up"
  /\ instr = [i \in Instrs |-> ZeroVol] /\ prd = [p \in Prds |-> ZeroVol]
  /\ unfilled = 0
  /\ saved = [instr |-> [i \in Instrs |-> Pos(ZeroVol)],
              prd |-> [p \in Prds |-> Pos(ZeroVol)]]
  /\ track = <<>> /\ next = 1 /\ front = <<>>
  /\ held = [i \in Instrs |-> Pos(ZeroVol)]
  /\ day = 1 /\ crashes = 0 /\ missed = 0

(* The front takes an order that closes no more than there is. *)
Available(i, dir, off, v) ==
  LET x == instr[i].side[SideOf(dir, off)] IN
  /\ off = "CloseYesterday" => x.yd - x.yd_cls_ing >= v
  /\ off = "CloseToday" => x.td - x.td_cls_ing >= v

(* req_order_insert: the track and onNew *)
NewOrder(i, dir, off, v) ==
  LET o == [instr |-> i, dir |-> dir, off |-> off, vol |-> v, traded |-> 0,
            st |-> {"TDSEND"}]
  IN
  /\ up = "up" /\ Len(track) < MaxOrders /\ Available(i, dir, off, v)
  /\ track' = Append(track, o)
  /\ front' = Append(front, [traded |-> 0, open |-> TRUE])
  /\ Becomes(OnNew(Now, o))
  /\ UNCHANGED <<up, saved, next, held, day, crashes, missed>>

(* The front trades n lots of order r. *)
FrontTrades(r, n) ==
  LET o == track[r]
      total == front[r].traded + n
  IN
  /\ front[r].open /\ total <= o.vol
  /\ front' = [front EXCEPT ![r] = [traded |-> total, open |-> total < o.vol]]
  /\ held' = [held EXCEPT ![o.instr][SideOf(o.dir, o.off)] =
                @ + (IF o.off = "Open" THEN n ELSE -n)]

(* The front cancels what is left of order r. *)
FrontCancels(r) ==
  /\ front[r].open
  /\ front' = [front EXCEPT ![r].open = FALSE]
  /\ UNCHANGED held

(* OnRtnTrade and AccBase::onRtn *)
OnRtnTrade(r, n) ==
  LET total == track[r].traded + n
      o == [track[r] EXCEPT !.traded = total,
              !.st = @ \cup {"EXECUTION"} \cup
                     (IF total >= track[r].vol THEN {"CLOSED"} ELSE {})]
  IN
  /\ up = "up"
  /\ FrontTrades(r, n)
  /\ track' = [track EXCEPT ![r] = o]
  /\ Becomes(OnTrd(Now, o, n))
  /\ UNCHANGED <<up, saved, next, day, crashes, missed>>

(* OnRtnOrder with a cancel, or a reject, and AccBase::onRtn: the volume   *)
(* that is left at the front is given back.                                *)
OnRtnClosed(r) ==
  LET left == track[r].vol - front[r].traded IN
  /\ up = "up"
  /\ FrontCancels(r)
  /\ track' = [track EXCEPT ![r].st = @ \cup {"CANCELED", "CLOSED"}]
  /\ Becomes(OnCxl(Now, track[r], left))
  /\ UNCHANGED <<up, saved, next, day, crashes, missed>>

(* The engine dies; the order tracks are in a mapped file. *)
Crash ==
  /\ up # "down"
  /\ crashes < MaxCrashes
  /\ crashes' = crashes + 1
  /\ up' = "down"
  /\ Becomes(Account([i \in Instrs |-> ZeroVol], [p \in Prds |-> ZeroVol], 0))
  /\ UNCHANGED <<saved, track, next, front, held, day, missed>>

(* What happens at the front meanwhile is not reported later: the private  *)
(* topic is subscribed with QUICK.                                         *)
Missed(r) ==
  /\ up = "down"
  /\ missed < MaxMissed
  /\ missed' = missed + 1
  /\ \/ \E n \in 1 .. MaxVol : FrontTrades(r, n)
     \/ FrontCancels(r)
  /\ UNCHANGED <<up, memVars, saved, track, next, day, crashes>>

(* OnRspQryOrder: the status is left as it is, the volume traded is taken  *)
(* from the front.                                                         *)
OnRspQryOrder(o, f) == [o EXCEPT !.traded = f.traded]

(* AccBase::load *)
Loaded ==
  Account([i \in Instrs |-> VolFromJson(saved.instr[i])],
          [p \in Prds |-> VolFromJson(saved.prd[p])], 0)

(* initEngine: updateOrderTrack, then load. *)
Start ==
  /\ up = "down"
  /\ track' = [r \in DOMAIN track |-> OnRspQryOrder(track[r], front[r])]
  /\ Becomes(Loaded)
  /\ next' = 1
  /\ up' = "replay"
  /\ UNCHANGED <<saved, front, held, day, crashes, missed>>

(* initAccountUtilis, step 2.4: the next order track ... *)
Replay ==
  /\ up = "replay" /\ next <= Len(track)
  /\ Becomes(OnOrderTrack(Now, track[next]))
  /\ next' = next + 1
  /\ UNCHANGED <<up, saved, track, front, held, day, crashes, missed>>

(* Mutant of Listen: the last track is left out. *)
ListenEarly ==
  /\ up = "replay" /\ next >= Len(track)
  /\ up' = "up"
  /\ UNCHANGED <<memVars, saved, track, next, front, held, day, crashes,
                 missed>>

(* ... until there is none left. *)
Listen ==
  /\ up = "replay" /\ next > Len(track)
  /\ up' = "up"
  /\ UNCHANGED <<memVars, saved, track, next, front, held, day, crashes,
                 missed>>

(* AccBase::save *)
Save == saved' = [instr |-> [i \in Instrs |-> VolToJson(instr[i])],
                  prd |-> [p \in Prds |-> VolToJson(prd[p])]]

(* No order outlives its day. *)
DayOver ==
  /\ day < MaxDays
  /\ \A r \in DOMAIN front : ~front[r].open
  /\ day' = day + 1
  /\ track' = <<>> /\ front' = <<>>

(* A strategy that runs through the change of day: AccBase::onSwitchDay *)
SwitchDay ==
  /\ up = "up"
  /\ DayOver
  /\ Save
  /\ Becomes(Account([i \in Instrs |-> IF Flat(instr[i]) THEN ZeroVol
                                       ELSE VolSwitchDay(instr[i])],
                     [p \in Prds |-> IF Flat(prd[p]) THEN ZeroVol
                                     ELSE VolSwitchDay(prd[p])], 0))
  /\ UNCHANGED <<up, next, held, crashes, missed>>

(* An engine that closes (engine_on_close) and starts on the next day. *)
Close ==
  /\ up = "up"
  /\ DayOver
  /\ Save
  /\ up' = "down"
  /\ Becomes(Account([i \in Instrs |-> ZeroVol], [p \in Prds |-> ZeroVol], 0))
  /\ UNCHANGED <<next, held, crashes, missed>>

(* An engine that was killed and starts on the next day: clearTrack. *)
DownOver ==
  /\ up = "down" /\ track # <<>>
  /\ missed < MaxMissed
  /\ missed' = missed + 1
  /\ DayOver
  /\ UNCHANGED <<up, memVars, saved, next, held, crashes>>

Next ==
  \/ \E i \in Instrs, dir \in Dirs, off \in Offs, v \in 1 .. MaxVol :
       NewOrder(i, dir, off, v)
  \/ \E r \in DOMAIN track :
       \/ \E n \in 1 .. MaxVol : OnRtnTrade(r, n)
       \/ OnRtnClosed(r)
       \/ Missed(r)
  \/ Crash \/ Start \/ Replay \/ Listen
  \/ SwitchDay \/ Close \/ DownOver

Spec == Init /\ [][Next]_vars

-----------------------------------------------------------------------------
(***************************************************************************)
(* Properties                                                              *)
(***************************************************************************)
SideType == [yd_ini: Int, yd: Int, td: Int, pos: Int,
             yd_cls_ing: Int, td_cls_ing: Int, td_opn_ing: Int]
VolType == [side: [Sides -> SideType], buy: Int, sell: Int]
OrderType == [instr: Instrs, dir: Dirs, off: Offs, vol: 1 .. MaxVol,
              traded: 0 .. MaxVol,
              st: SUBSET {"TDSEND", "EXECUTION", "CANCELED", "CLOSED"}]
PosType == [Sides -> Int]

(* Every variable has its type. *)
TypeOK ==
  /\ up \in {"up", "down", "replay"}
  /\ instr \in [Instrs -> VolType] /\ prd \in [Prds -> VolType]
  /\ unfilled \in Int
  /\ saved \in [instr: [Instrs -> PosType], prd: [Prds -> PosType]]
  /\ track \in Seq(OrderType) /\ next \in Nat \ {0}
  /\ Len(front) = Len(track)
  /\ front \in Seq([traded: 0 .. MaxVol, open: BOOLEAN])
  /\ held \in [Instrs -> PosType]
  /\ day \in Nat /\ crashes \in Nat /\ missed \in Nat

(* A position is yesterday's and today's, and what was bought and sold     *)
(* today is what the two sides have changed by since the day began.        *)
Balanced(u) ==
  /\ \A s \in Sides : u.side[s].pos = u.side[s].yd + u.side[s].td
  /\ (u.side["long"].pos - u.side["long"].yd_ini)
       - (u.side["short"].pos - u.side["short"].yd_ini) = u.buy - u.sell

(* UnitVol stays balanced, for instruments and products, through orders,   *)
(* trades, cancels, days, deaths and replays (UnitVol.cpp, ModInstr.cpp).  *)
BooksBalance ==
  /\ \A i \in Instrs : Balanced(instr[i])
  /\ \A p \in Prds : Balanced(prd[p])

(* What the account of a running engine was told of an order is what the   *)
(* front has traded of it.                                                 *)
TracksCount ==
  up # "down" => \A r \in DOMAIN track : track[r].traded = front[r].traded

(* The inductive invariant. *)
BookInv == TypeOK /\ TracksCount /\ BooksBalance

(* The volume of order r that is still under way. *)
Left(o) == IF "CANCELED" \in o.st THEN 0 ELSE o.vol - o.traded

(* The counters of volume under way are the orders under way, and the      *)
(* number of unfilled orders is theirs: nothing stays frozen and nothing   *)
(* is given back twice (onNew, onCxl, onTrd and their replay), as long as  *)
(* the engine has missed nothing.                                          *)
FrozenMatchesOrders ==
  up = "up" /\ missed = 0 =>
    /\ \A i \in Instrs, s \in Sides, off \in Offs :
         LET x == instr[i].side[s]
             ing == IF off = "Open" THEN x.td_opn_ing
                    ELSE IF off = "CloseToday" THEN x.td_cls_ing
                    ELSE x.yd_cls_ing
             own == {r \in DOMAIN track : /\ track[r].instr = i
                                          /\ track[r].off = off
                                          /\ SideOf(track[r].dir, off) = s}
         IN  ing = SumFunctionOnSet([r \in own |-> Left(track[r])], own)
    /\ unfilled = Cardinality({r \in DOMAIN track : Left(track[r]) > 0})

(* onSwitchDay never erases a product while it keeps an instrument that    *)
(* points to it (p_prd).                                                   *)
NoDanglingProduct ==
  \A i \in Instrs : Flat(prd[PrdOf[i]]) => Flat(instr[i])

(* A strategy that runs through the change of day has the account that an  *)
(* engine which closes and starts again loads: erasing an entry, in        *)
(* onSwitchDay, loses no position (AccBase::onSwitchDay, save, load).      *)
DayCarriedOver == [][SwitchDay => Now' = Loaded']_vars

(* The engine's positions are the front's, whatever order it dies in the   *)
(* middle of, as long as it has missed nothing: save, load and the replay  *)
(* of the order tracks lose no trade and count none twice.                 *)
PositionsAgree ==
  up = "up" /\ missed = 0 => \A i \in Instrs : Pos(instr[i]) = held[i]

(* The engine's positions are the front's after every start, also when     *)
(* orders were traded while it was down (updateOrderTrack, onOrderTrack).  *)
StartCatchesUp == up = "up" => \A i \in Instrs : Pos(instr[i]) = held[i]
=============================================================================
