--------------------------- MODULE AccountProofs ---------------------------
(***************************************************************************)
(* Proofs about module Account, and about the two modules that extend it,  *)
(* for every number of instruments, products, orders, prices and days.     *)
(*                                                                         *)
(* BookInv: the operations on UnitVol keep a unit balanced whatever the    *)
(* volume, an operation of ModInstr applies one of them to two units, and  *)
(* the replay is a sequence of such operations.                            *)
(*                                                                         *)
(* ShareInv: what an account has of an instrument is what was loaded and   *)
(* the sum of the shares of the orders it was told of.  An event changes   *)
(* the share of one order as it changes the account; a replay adds the     *)
(* shares one by one, and finds room for each because RoomKept says so of  *)
(* the orders before it; a product has the sum of its instruments.         *)
(*                                                                         *)
(* The money of module Amounts: the value of a position is the position at *)
(* the last price, profit is what cash and positions explain, products and *)
(* account are the sums of their instruments, and the amounts under way    *)
(* are those of the open orders.                                           *)
(*                                                                         *)
(* What the checks of module Risk guarantee: Risk implements Account, so   *)
(* that the invariants above hold of it, and the counters a new order is   *)
(* compared with are what the front may still trade, which is what makes   *)
(* a check of single orders a limit on all of them.                        *)
(***************************************************************************)
EXTENDS Amounts, Risk, SumTheorems

GoodVol == {u \in VolType : Balanced(u)}

AccType == [instr: [Instrs -> GoodVol], prd: [Prds -> GoodVol], unfilled: Int]

(* An order names one of the two sides. *)
LEMMA SideOfType ==
  ASSUME NEW dir, NEW off
  PROVE  SideOf(dir, off) \in Sides
BY DEF SideOf, Sides

(* AddIng and Trd keep the types of the seven counters. *)
LEMMA SideTyped ==
  ASSUME NEW x \in SideType, NEW off \in Offs, NEW v \in Int
  PROVE  AddIng(x, off, v) \in SideType /\ Trd(x, off, v) \in SideType
BY DEF SideType, AddIng, Trd, If

(* A new order, or with a negative volume a cancel, keeps a unit balanced. *)
LEMMA VolNewGood ==
  ASSUME NEW u \in GoodVol, NEW dir \in Dirs, NEW off \in Offs, NEW v \in Int
  PROVE  VolNew(u, dir, off, v) \in GoodVol
<1> DEFINE s == SideOf(dir, off)
<1>1. u \in VolType /\ Balanced(u)
  BY DEF GoodVol
<1>2. /\ u.side \in [Sides -> SideType]
      /\ u.buy \in Int /\ u.sell \in Int
  BY <1>1 DEF VolType
<1>3. s \in Sides
  BY SideOfType
<1>4. u.side[s] \in SideType
  BY <1>2, <1>3
<1>5. AddIng(u.side[s], off, v) \in SideType
  BY <1>4, SideTyped
<1>6. PICK w : w = [u.side EXCEPT ![s] = AddIng(@, off, v)]
  OBVIOUS
<1>7. w \in [Sides -> SideType]
  BY <1>2, <1>3, <1>5, <1>6
<1>8. VolNew(u, dir, off, v) = [side |-> w, buy |-> u.buy, sell |-> u.sell]
  BY <1>6 DEF VolNew
<1>9. VolNew(u, dir, off, v) \in VolType
  BY <1>2, <1>7, <1>8 DEF VolType
<1>10. \A t \in Sides : /\ w[t].pos = u.side[t].pos
                        /\ w[t].yd = u.side[t].yd
                        /\ w[t].td = u.side[t].td
                        /\ w[t].yd_ini = u.side[t].yd_ini
  BY <1>2, <1>3, <1>6 DEF AddIng
<1>11. Balanced(VolNew(u, dir, off, v))
  BY <1>1, <1>8, <1>10 DEF Balanced, Sides
<1> QED
  BY <1>9, <1>11 DEF GoodVol

(* Selling v lots of a long position keeps the balance of a day. *)
LEMMA SellCloses ==
  ASSUME NEW p \in Int, NEW pi \in Int, NEW q \in Int, NEW qi \in Int,
         NEW x \in Int, NEW y \in Int, NEW v \in Int,
         (p - pi) - (q - qi) = x - y
  PROVE  ((p - v) - pi) - (q - qi) = x - (y + v)
OBVIOUS

(* A trade keeps a unit balanced. *)
LEMMA VolTrdGood ==
  ASSUME NEW u \in GoodVol, NEW dir \in Dirs, NEW off \in Offs, NEW v \in Int
  PROVE  VolTrd(u, dir, off, v) \in GoodVol
<1> DEFINE s == SideOf(dir, off)
<1>1. u \in VolType /\ Balanced(u)
  BY DEF GoodVol
<1>2. /\ u.side \in [Sides -> SideType]
      /\ u.buy \in Int /\ u.sell \in Int
  BY <1>1 DEF VolType
<1>3. s \in Sides
  BY SideOfType
<1>4. u.side[s] \in SideType
  BY <1>2, <1>3
<1>5. Trd(u.side[s], off, v) \in SideType
  BY <1>4, SideTyped
<1>6. PICK w : w = [u.side EXCEPT ![s] = Trd(@, off, v)]
  OBVIOUS
<1>7. w \in [Sides -> SideType]
  BY <1>2, <1>3, <1>5, <1>6
<1>8. PICK b, c : /\ b = u.buy + (IF dir = "Buy" THEN v ELSE 0)
                  /\ c = u.sell + (IF dir = "Sell" THEN v ELSE 0)
  OBVIOUS
<1>9. b \in Int /\ c \in Int
  BY <1>2, <1>8
<1>10. VolTrd(u, dir, off, v) = [side |-> w, buy |-> b, sell |-> c]
  BY <1>6, <1>8 DEF VolTrd
<1>11. VolTrd(u, dir, off, v) \in VolType
  BY <1>7, <1>9, <1>10 DEF VolType
<1>12. \A t \in Sides : t # s => w[t] = u.side[t]
  BY <1>2, <1>6
<1>13. w[s] = Trd(u.side[s], off, v)
  BY <1>2, <1>3, <1>6
<1>14. /\ w[s].pos = u.side[s].pos + (IF off = "Open" THEN v ELSE -v)
       /\ w[s].yd_ini = u.side[s].yd_ini
       /\ w[s].yd + w[s].td
            = u.side[s].yd + u.side[s].td + (IF off = "Open" THEN v ELSE -v)
  <2>1. \A x \in SideType : x.yd \in Int /\ x.td \in Int
    BY DEF SideType
  <2> QED
    BY <1>4, <1>13, <2>1 DEF Trd, If, Offs
<1>15. \A t \in Sides : u.side[t].pos \in Int /\ u.side[t].yd_ini \in Int
  BY <1>2 DEF SideType
<1>16. \A t \in Sides : w[t].pos = w[t].yd + w[t].td
  BY <1>1, <1>12, <1>14 DEF Balanced
<1>17. (w["long"].pos - w["long"].yd_ini)
         - (w["short"].pos - w["short"].yd_ini) = b - c
  <2>1. (u.side["long"].pos - u.side["long"].yd_ini)
          - (u.side["short"].pos - u.side["short"].yd_ini) = u.buy - u.sell
    BY <1>1 DEF Balanced
  <2>2. CASE s = "long"
    <3>1. w["short"] = u.side["short"]
      BY <1>12, <2>2 DEF Sides
    <3>2. (dir = "Buy" /\ off = "Open") \/ (dir = "Sell" /\ off # "Open")
      BY <2>2 DEF SideOf, Dirs
    <3>3. w["long"].pos = u.side["long"].pos + (IF off = "Open" THEN v ELSE -v)
      BY <1>14, <2>2
    <3>4. w["long"].yd_ini = u.side["long"].yd_ini
      BY <1>14, <2>2
    <3>5. /\ u.side["long"].pos \in Int /\ u.side["long"].yd_ini \in Int
          /\ u.side["short"].pos \in Int /\ u.side["short"].yd_ini \in Int
      BY <1>15 DEF Sides
    <3>6. CASE off = "Open"
      <4>1. b = u.buy + v /\ c = u.sell
        BY <1>2, <1>8, <3>2, <3>6
      <4>2. w["long"].pos = u.side["long"].pos + v
        BY <3>3, <3>5, <3>6
      <4> QED
        BY <1>2, <2>1, <3>1, <3>4, <3>5, <4>1, <4>2
    <3>7. CASE off # "Open"
      <4>1. b = u.buy /\ c = u.sell + v
        BY <1>2, <1>8, <3>2, <3>7
      <4>2. w["long"].pos = u.side["long"].pos - v
        BY <3>3, <3>5, <3>7
      <4>3. ((u.side["long"].pos - v) - u.side["long"].yd_ini)
              - (u.side["short"].pos - u.side["short"].yd_ini)
              = u.buy - (u.sell + v)
        <5>1. PICK p, pi, q, qi \in Int :
                /\ p = u.side["long"].pos /\ pi = u.side["long"].yd_ini
                /\ q = u.side["short"].pos /\ qi = u.side["short"].yd_ini
          BY <3>5
        <5>2. PICK x, y \in Int : x = u.buy /\ y = u.sell
          BY <1>2
        <5>3. (p - pi) - (q - qi) = x - y
          BY <2>1, <5>1, <5>2
        <5>4. ((p - v) - pi) - (q - qi) = x - (y + v)
          BY <5>3, SellCloses
        <5> QED
          BY <5>1, <5>2, <5>4
      <4> QED
        BY <3>1, <3>4, <4>1, <4>2, <4>3
    <3> QED
      BY <3>6, <3>7
  <2>3. CASE s = "short"
    <3>1. w["long"] = u.side["long"]
      BY <1>12, <2>3 DEF Sides
    <3>2. (dir = "Buy" /\ off # "Open") \/ (dir = "Sell" /\ off = "Open")
      BY <2>3 DEF SideOf, Dirs
    <3>3. w["short"].pos = u.side["short"].pos + (IF off = "Open" THEN v ELSE -v)
      BY <1>14, <2>3
    <3>4. w["short"].yd_ini = u.side["short"].yd_ini
      BY <1>14, <2>3
    <3>5. /\ u.side["long"].pos \in Int /\ u.side["long"].yd_ini \in Int
          /\ u.side["short"].pos \in Int /\ u.side["short"].yd_ini \in Int
      BY <1>15 DEF Sides
    <3>6. CASE off = "Open"
      <4>1. b = u.buy /\ c = u.sell + v
        BY <1>2, <1>8, <3>2, <3>6
      <4> QED
        BY <1>2, <2>1, <3>1, <3>3, <3>4, <3>5, <3>6, <4>1
    <3>7. CASE off # "Open"
      <4>1. b = u.buy + v /\ c = u.sell
        BY <1>2, <1>8, <3>2, <3>7
      <4> QED
        BY <1>2, <2>1, <3>1, <3>3, <3>4, <3>5, <3>7, <4>1
    <3> QED
      BY <3>6, <3>7
  <2> QED
    BY <1>3, <2>2, <2>3 DEF Sides
<1>18. Balanced(VolTrd(u, dir, off, v))
  BY <1>10, <1>16, <1>17 DEF Balanced
<1> QED
  BY <1>11, <1>18 DEF GoodVol

(* A position that is carried over is balanced. *)
LEMMA CarriedOverGood ==
  ASSUME NEW p \in PosType
  PROVE  CarriedOver(p) \in GoodVol
<1>1. \A s \in Sides : p[s] \in Int
  BY DEF PosType
<1>2. CarriedOver(p) \in VolType
  BY <1>1 DEF CarriedOver, VolType, SideType
<1>3. Balanced(CarriedOver(p))
  BY <1>1 DEF CarriedOver, Balanced, Sides
<1> QED
  BY <1>2, <1>3 DEF GoodVol

(* The empty unit is balanced. *)
LEMMA ZeroGood == ZeroVol \in GoodVol /\ Pos(ZeroVol) \in PosType
BY DEF ZeroVol, ZeroSide, GoodVol, VolType, SideType, Balanced, Sides, Pos,
       PosType

(* The positions of a unit are integers. *)
LEMMA PosTyped ==
  ASSUME NEW u \in GoodVol
  PROVE  Pos(u) \in PosType
BY DEF GoodVol, VolType, SideType, Pos, PosType

-----------------------------------------------------------------------------
(* The operations of ModInstr keep an account balanced. *)
LEMMA OnNewGood ==
  ASSUME NEW a \in AccType, NEW o \in OrderType
  PROVE  OnNew(a, o) \in AccType
<1>1. o.instr \in Instrs /\ o.dir \in Dirs /\ o.off \in Offs /\ o.vol \in Int
  BY AccountAssumption DEF OrderType
<1>2. PrdOf[o.instr] \in Prds
  BY <1>1, AccountAssumption
<1>3. /\ a.instr \in [Instrs -> GoodVol] /\ a.prd \in [Prds -> GoodVol]
      /\ a.unfilled \in Int
  BY DEF AccType
<1>4. [a.instr EXCEPT ![o.instr] = VolNew(@, o.dir, o.off, o.vol)]
        \in [Instrs -> GoodVol]
  BY <1>1, <1>3, VolNewGood
<1>5. [a.prd EXCEPT ![PrdOf[o.instr]] = VolNew(@, o.dir, o.off, o.vol)]
        \in [Prds -> GoodVol]
  BY <1>1, <1>2, <1>3, VolNewGood
<1>6. a.unfilled + 1 \in Int
  BY <1>3
<1> QED
  BY <1>4, <1>5, <1>6 DEF OnNew, Account, AccType

LEMMA OnCxlGood ==
  ASSUME NEW a \in AccType, NEW o \in OrderType, NEW v \in Int
  PROVE  OnCxl(a, o, v) \in AccType
<1>1. o.instr \in Instrs /\ o.dir \in Dirs /\ o.off \in Offs /\ -v \in Int
  BY DEF OrderType
<1>2. PrdOf[o.instr] \in Prds
  BY <1>1, AccountAssumption
<1>3. /\ a.instr \in [Instrs -> GoodVol] /\ a.prd \in [Prds -> GoodVol]
      /\ a.unfilled \in Int
  BY DEF AccType
<1>4. [a.instr EXCEPT ![o.instr] = VolCxl(@, o.dir, o.off, v)]
        \in [Instrs -> GoodVol]
  BY <1>1, <1>3, VolNewGood DEF VolCxl
<1>5. [a.prd EXCEPT ![PrdOf[o.instr]] = VolCxl(@, o.dir, o.off, v)]
        \in [Prds -> GoodVol]
  BY <1>1, <1>2, <1>3, VolNewGood DEF VolCxl
<1>6. a.unfilled - 1 \in Int
  BY <1>3
<1> QED
  BY <1>4, <1>5, <1>6 DEF OnCxl, Account, AccType

LEMMA OnTrdGood ==
  ASSUME NEW a \in AccType, NEW o \in OrderType, NEW v \in Int
  PROVE  OnTrd(a, o, v) \in AccType
<1>1. o.instr \in Instrs /\ o.dir \in Dirs /\ o.off \in Offs
  BY DEF OrderType
<1>2. PrdOf[o.instr] \in Prds
  BY <1>1, AccountAssumption
<1>3. /\ a.instr \in [Instrs -> GoodVol] /\ a.prd \in [Prds -> GoodVol]
      /\ a.unfilled \in Int
  BY DEF AccType
<1>4. [a.instr EXCEPT ![o.instr] = VolTrd(@, o.dir, o.off, v)]
        \in [Instrs -> GoodVol]
  BY <1>1, <1>3, VolTrdGood
<1>5. [a.prd EXCEPT ![PrdOf[o.instr]] = VolTrd(@, o.dir, o.off, v)]
        \in [Prds -> GoodVol]
  BY <1>1, <1>2, <1>3, VolTrdGood
<1>6. (IF o.vol = o.traded THEN a.unfilled - 1 ELSE a.unfilled) \in Int
  BY <1>3
<1> QED
  BY <1>4, <1>5, <1>6 DEF OnTrd, Account, AccType

(* So does the replay of an order, whatever the bits of its status. *)
LEMMA OnOrderTrackGood ==
  ASSUME NEW a \in AccType, NEW o \in OrderType
  PROVE  OnOrderTrack(a, o) \in AccType
<1>1. o.vol \in Int /\ o.traded \in Int /\ o.vol - o.traded \in Int
  BY AccountAssumption DEF OrderType
<1>2. NewOf(a, o) \in AccType
  BY OnNewGood DEF NewOf
<1>3. CxlOf(NewOf(a, o), o) \in AccType
  BY <1>1, <1>2, OnCxlGood DEF CxlOf
<1> QED
  BY <1>1, <1>3, OnTrdGood DEF OnOrderTrack, TrdOf

(* The empty account, the account that is loaded and the one of the next   *)
(* day are balanced.                                                       *)
LEMMA EmptyGood ==
  Account([i \in Instrs |-> ZeroVol], [p \in Prds |-> ZeroVol], 0) \in AccType
BY ZeroGood DEF Account, AccType

LEMMA LoadedGood ==
  ASSUME saved \in [instr: [Instrs -> PosType], prd: [Prds -> PosType]]
  PROVE  Loaded \in AccType
<1>1. /\ \A i \in Instrs : saved.instr[i] \in PosType
      /\ \A p \in Prds : saved.prd[p] \in PosType
  OBVIOUS
<1>2. \A p \in PosType : VolFromJson(p) \in GoodVol
  BY CarriedOverGood DEF VolFromJson
<1> QED
  BY <1>1, <1>2 DEF Loaded, Account, AccType

LEMMA SwitchDayGood ==
  ASSUME NEW u \in GoodVol
  PROVE  (IF Flat(u) THEN ZeroVol ELSE VolSwitchDay(u)) \in GoodVol
BY ZeroGood, PosTyped, CarriedOverGood DEF VolSwitchDay

-----------------------------------------------------------------------------
FrontType == [traded: 0 .. MaxVol, open: BOOLEAN]

(* The invariant in the parts a step touches: the counters in memory, the  *)
(* saved file, the orders, and the rest.                                   *)
MemOK ==
  instr \in [Instrs -> GoodVol] /\ prd \in [Prds -> GoodVol] /\ unfilled \in Int
SavedOK == saved \in [instr: [Instrs -> PosType], prd: [Prds -> PosType]]
OrdersOK ==
  /\ track \in Seq(OrderType) /\ front \in Seq(FrontType)
  /\ Len(front) = Len(track)
  /\ held \in [Instrs -> PosType]
RestOK ==
  /\ up \in {"up", "down", "replay"} /\ next \in Nat \ {0}
  /\ day \in Nat /\ crashes \in Nat /\ missed \in Nat

LEMMA InvParts ==
  BookInv <=> MemOK /\ SavedOK /\ OrdersOK /\ RestOK /\ TracksCount
<1>1. ASSUME NEW S, NEW f
      PROVE  f \in [S -> GoodVol] <=>
               f \in [S -> VolType] /\ \A x \in S : Balanced(f[x])
  BY DEF GoodVol
<1>2. MemOK <=> /\ instr \in [Instrs -> VolType] /\ prd \in [Prds -> VolType]
                /\ unfilled \in Int /\ BooksBalance
  BY <1>1 DEF MemOK, BooksBalance
<1> QED
  BY <1>2 DEF BookInv, TypeOK, SavedOK, OrdersOK, RestOK, FrontType

LEMMA NowGood == MemOK => Now \in AccType
BY DEF MemOK, Now, Account, AccType

LEMMA BecomesGood ==
  ASSUME NEW a \in AccType, Becomes(a)
  PROVE  MemOK'
BY DEF AccType, Becomes, MemOK

(* A trade at the front keeps the types and counts the volume. *)
LEMMA FrontTradesGood ==
  ASSUME OrdersOK, NEW r \in DOMAIN track, NEW n \in 1 .. MaxVol,
         FrontTrades(r, n)
  PROVE  /\ front' \in Seq(FrontType) /\ Len(front') = Len(front)
         /\ held' \in [Instrs -> PosType]
         /\ front[r].traded + n \in 0 .. MaxVol
         /\ front'[r].traded = front[r].traded + n
         /\ \A q \in DOMAIN track : q # r => front'[q] = front[q]
<1>1. /\ r \in 1 .. Len(front) /\ DOMAIN track = 1 .. Len(front)
      /\ track[r] \in OrderType /\ front[r] \in FrontType
  BY DEF OrdersOK
<1>2. PICK f : f = [traded |-> front[r].traded + n,
                    open |-> front[r].traded + n < track[r].vol]
  OBVIOUS
<1>3. front[r].traded + n \in 0 .. MaxVol
  <2>1. front[r].traded \in 0 .. MaxVol /\ track[r].vol \in 1 .. MaxVol
    BY <1>1 DEF FrontType, OrderType
  <2>2. front[r].traded + n <= track[r].vol
    BY DEF FrontTrades
  <2> QED
    BY <2>1, <2>2, AccountAssumption
<1>4. f \in FrontType
  BY <1>2, <1>3 DEF FrontType
<1>5. front' = [front EXCEPT ![r] = f]
  BY <1>2 DEF FrontTrades
<1>6. front' \in Seq(FrontType) /\ Len(front') = Len(front)
  BY <1>1, <1>4, <1>5 DEF OrdersOK
<1>7. front'[r] = f /\ \A q \in DOMAIN track : q # r => front'[q] = front[q]
  BY <1>1, <1>5 DEF OrdersOK
<1>8. held' \in [Instrs -> PosType]
  <2>1. PICK i, s, d : /\ i = track[r].instr
                       /\ s = SideOf(track[r].dir, track[r].off)
                       /\ d = IF track[r].off = "Open" THEN n ELSE -n
    OBVIOUS
  <2>2. i \in Instrs /\ s \in Sides /\ d \in Int
    BY <1>1, <2>1, SideOfType, AccountAssumption DEF OrderType
  <2>3. held' = [held EXCEPT ![i][s] = @ + d]
    BY <2>1 DEF FrontTrades
  <2> QED
    BY <2>2, <2>3 DEF OrdersOK, PosType
<1> QED
  BY <1>2, <1>3, <1>6, <1>7, <1>8

(* So does a cancel. *)
LEMMA FrontCancelsGood ==
  ASSUME OrdersOK, NEW r \in DOMAIN track, FrontCancels(r)
  PROVE  /\ front' \in Seq(FrontType) /\ Len(front') = Len(front)
         /\ held' \in [Instrs -> PosType]
         /\ \A q \in DOMAIN track : front'[q].traded = front[q].traded
<1>1. /\ r \in 1 .. Len(front) /\ DOMAIN track = 1 .. Len(front)
      /\ front[r] \in FrontType
  BY DEF OrdersOK
<1>2. front' = [front EXCEPT ![r].open = FALSE]
  BY DEF FrontCancels
<1>3. [front[r] EXCEPT !.open = FALSE] \in FrontType
  BY <1>1 DEF FrontType
<1>4. front' \in Seq(FrontType) /\ Len(front') = Len(front)
  BY <1>1, <1>2, <1>3 DEF OrdersOK
<1>5. \A q \in DOMAIN track : front'[q].traded = front[q].traded
  BY <1>1, <1>2 DEF OrdersOK, FrontType
<1> QED
  BY <1>4, <1>5 DEF OrdersOK, FrontCancels

-----------------------------------------------------------------------------
Parts == MemOK /\ SavedOK /\ OrdersOK /\ RestOK /\ TracksCount

LEMMA InitParts == Init => Parts
<1> SUFFICES ASSUME Init PROVE Parts
  OBVIOUS
<1>1. MemOK
  BY ZeroGood DEF Init, MemOK
<1>2. SavedOK
  BY ZeroGood DEF Init, SavedOK
<1>3. OrdersOK
  BY ZeroGood DEF Init, OrdersOK
<1>4. RestOK
  BY DEF Init, RestOK
<1>5. TracksCount
  BY DEF Init, TracksCount
<1> QED
  BY <1>1, <1>2, <1>3, <1>4, <1>5 DEF Parts

LEMMA NewOrderStep ==
  ASSUME Parts, NEW i \in Instrs, NEW dir \in Dirs, NEW off \in Offs,
         NEW v \in 1 .. MaxVol, NewOrder(i, dir, off, v)
  PROVE  Parts'
<1>1. PICK o : o = [instr |-> i, dir |-> dir, off |-> off, vol |-> v,
                    traded |-> 0, st |-> {"TDSEND"}]
  OBVIOUS
<1>2. o \in OrderType /\ o.traded = 0
  BY <1>1, AccountAssumption DEF OrderType
<1>3. PICK f : f = [traded |-> 0, open |-> TRUE]
  OBVIOUS
<1>4. f \in FrontType /\ f.traded = 0
  BY <1>3, AccountAssumption DEF FrontType
<1>5. /\ track' = Append(track, o) /\ front' = Append(front, f)
      /\ Becomes(OnNew(Now, o)) /\ up = "up"
      /\ UNCHANGED <<up, saved, next, held, day, crashes, missed>>
  BY <1>1, <1>3 DEF NewOrder
<1>6. MemOK'
  BY <1>2, <1>5, NowGood, OnNewGood, BecomesGood DEF Parts
<1>7. OrdersOK'
  BY <1>2, <1>4, <1>5 DEF Parts, OrdersOK
<1>8. TracksCount'
  <2>1. /\ track \in Seq(OrderType) /\ front \in Seq(FrontType)
        /\ Len(front) = Len(track)
        /\ \A r \in DOMAIN track : track[r].traded = front[r].traded
    BY <1>5 DEF Parts, OrdersOK, TracksCount
  <2>2. ASSUME NEW r \in DOMAIN track' PROVE track'[r].traded = front'[r].traded
    <3>1. r \in DOMAIN track \/ r = Len(track) + 1
      BY <1>5, <2>1
    <3>2. CASE r \in DOMAIN track
      BY <1>5, <2>1, <3>2
    <3>3. CASE r = Len(track) + 1
      BY <1>2, <1>4, <1>5, <2>1, <3>3
    <3> QED
      BY <3>1, <3>2, <3>3
  <2> QED
    BY <2>2 DEF TracksCount
<1>9. SavedOK' /\ RestOK'
  BY <1>5 DEF Parts, SavedOK, RestOK
<1> QED
  BY <1>6, <1>7, <1>8, <1>9 DEF Parts

LEMMA OnRtnTradeStep ==
  ASSUME Parts, NEW r \in DOMAIN track, NEW n \in 1 .. MaxVol,
         OnRtnTrade(r, n)
  PROVE  Parts'
<1>1. PICK total, s :
        /\ total = track[r].traded + n
        /\ s = track[r].st \cup {"EXECUTION"} \cup
                 (IF total >= track[r].vol THEN {"CLOSED"} ELSE {})
  OBVIOUS
<1>2. PICK o : o = [track[r] EXCEPT !.traded = total, !.st = s]
  OBVIOUS
<1>3. /\ up = "up" /\ FrontTrades(r, n)
      /\ track' = [track EXCEPT ![r] = o] /\ Becomes(OnTrd(Now, o, n))
      /\ UNCHANGED <<up, saved, next, day, crashes, missed>>
  BY <1>1, <1>2 DEF OnRtnTrade
<1>4. /\ track \in Seq(OrderType) /\ track[r] \in OrderType
      /\ \A q \in DOMAIN track : track[q].traded = front[q].traded
  BY <1>3 DEF Parts, OrdersOK, TracksCount
<1>5. /\ front' \in Seq(FrontType) /\ Len(front') = Len(front)
      /\ held' \in [Instrs -> PosType]
      /\ total \in 0 .. MaxVol /\ front'[r].traded = total
      /\ \A q \in DOMAIN track : q # r => front'[q] = front[q]
  BY <1>1, <1>3, <1>4, FrontTradesGood DEF Parts
<1>6. s \in SUBSET {"TDSEND", "EXECUTION", "CANCELED", "CLOSED"}
  <2>1. track[r].st \in SUBSET {"TDSEND", "EXECUTION", "CANCELED", "CLOSED"}
    BY <1>4 DEF OrderType
  <2> QED
    BY <1>1, <2>1
<1>7. o \in OrderType /\ o.traded = total
  BY <1>2, <1>4, <1>5, <1>6 DEF OrderType
<1>8. MemOK'
  BY <1>3, <1>7, NowGood, OnTrdGood, BecomesGood, AccountAssumption DEF Parts
<1>9. OrdersOK'
  BY <1>3, <1>4, <1>5, <1>7 DEF Parts, OrdersOK
<1>10. TracksCount'
  BY <1>3, <1>4, <1>5, <1>7 DEF TracksCount
<1>11. SavedOK' /\ RestOK'
  BY <1>3 DEF Parts, SavedOK, RestOK
<1> QED
  BY <1>8, <1>9, <1>10, <1>11 DEF Parts

LEMMA OnRtnClosedStep ==
  ASSUME Parts, NEW r \in DOMAIN track, OnRtnClosed(r)
  PROVE  Parts'
<1>1. PICK s : s = track[r].st \cup {"CANCELED", "CLOSED"}
  OBVIOUS
<1>2. PICK o : o = [track[r] EXCEPT !.st = s]
  OBVIOUS
<1>3. /\ up = "up" /\ FrontCancels(r)
      /\ track' = [track EXCEPT ![r] = o]
      /\ Becomes(OnCxl(Now, track[r], track[r].vol - front[r].traded))
      /\ UNCHANGED <<up, saved, next, day, crashes, missed>>
  BY <1>1, <1>2 DEF OnRtnClosed
<1>4. /\ track \in Seq(OrderType) /\ track[r] \in OrderType
      /\ front[r] \in FrontType
      /\ \A q \in DOMAIN track : track[q].traded = front[q].traded
  BY <1>3 DEF Parts, OrdersOK, TracksCount
<1>5. /\ front' \in Seq(FrontType) /\ Len(front') = Len(front)
      /\ held' \in [Instrs -> PosType]
      /\ \A q \in DOMAIN track : front'[q].traded = front[q].traded
  BY <1>3, FrontCancelsGood DEF Parts
<1>6. s \in SUBSET {"TDSEND", "EXECUTION", "CANCELED", "CLOSED"}
  <2>1. track[r].st \in SUBSET {"TDSEND", "EXECUTION", "CANCELED", "CLOSED"}
    BY <1>4 DEF OrderType
  <2> QED
    BY <1>1, <2>1
<1>7. o \in OrderType /\ o.traded = track[r].traded
  BY <1>2, <1>4, <1>6 DEF OrderType
<1>8. track[r].vol - front[r].traded \in Int
  BY <1>4, AccountAssumption DEF OrderType, FrontType
<1>9. MemOK'
  BY <1>3, <1>4, <1>8, NowGood, OnCxlGood, BecomesGood DEF Parts
<1>10. OrdersOK'
  BY <1>3, <1>4, <1>5, <1>7 DEF Parts, OrdersOK
<1>11. TracksCount'
  BY <1>3, <1>4, <1>5, <1>7 DEF TracksCount
<1>12. SavedOK' /\ RestOK'
  BY <1>3 DEF Parts, SavedOK, RestOK
<1> QED
  BY <1>9, <1>10, <1>11, <1>12 DEF Parts

LEMMA MissedStep ==
  ASSUME Parts, NEW r \in DOMAIN track, Missed(r)
  PROVE  Parts'
<1>1. /\ front' \in Seq(FrontType) /\ Len(front') = Len(front)
      /\ held' \in [Instrs -> PosType]
  <2>1. CASE \E n \in 1 .. MaxVol : FrontTrades(r, n)
    BY <2>1, FrontTradesGood DEF Parts
  <2>2. CASE FrontCancels(r)
    BY <2>2, FrontCancelsGood DEF Parts
  <2> QED
    BY <2>1, <2>2 DEF Missed
<1>2. /\ up = "down" /\ missed' = missed + 1
      /\ UNCHANGED <<up, memVars, saved, track, next, day, crashes>>
  BY DEF Missed
<1> QED
  BY <1>1, <1>2 DEF Parts, MemOK, SavedOK, OrdersOK, RestOK, TracksCount,
                    memVars

LEMMA CrashStep == Parts /\ Crash => Parts'
<1> SUFFICES ASSUME Parts, Crash PROVE Parts'
  OBVIOUS
<1>1. MemOK'
  BY EmptyGood, BecomesGood DEF Crash
<1> QED
  BY <1>1 DEF Crash, Parts, SavedOK, OrdersOK, RestOK, TracksCount

(* Start brings the tracks up to what the front has traded. *)
LEMMA StartStep == Parts /\ Start => Parts'
<1> SUFFICES ASSUME Parts, Start PROVE Parts'
  OBVIOUS
<1>1. /\ track' = [r \in DOMAIN track |-> OnRspQryOrder(track[r], front[r])]
      /\ Becomes(Loaded) /\ next' = 1 /\ up' = "replay"
      /\ UNCHANGED <<saved, front, held, day, crashes, missed>>
  BY DEF Start
<1>2. MemOK'
  BY <1>1, LoadedGood, BecomesGood DEF Parts, SavedOK
<1>3. /\ track \in Seq(OrderType) /\ front \in Seq(FrontType)
      /\ Len(front) = Len(track)
  BY DEF Parts, OrdersOK
<1>4. ASSUME NEW r \in DOMAIN track
      PROVE  /\ OnRspQryOrder(track[r], front[r]) \in OrderType
             /\ OnRspQryOrder(track[r], front[r]).traded = front[r].traded
  <2>1. track[r] \in OrderType /\ front[r] \in FrontType
    BY <1>3
  <2> QED
    BY <2>1 DEF OnRspQryOrder, OrderType, FrontType
<1>5. track' \in Seq(OrderType) /\ Len(track') = Len(track)
  BY <1>1, <1>3, <1>4
<1>6. OrdersOK'
  BY <1>1, <1>5 DEF Parts, OrdersOK
<1>7. TracksCount'
  BY <1>1, <1>4 DEF TracksCount
<1>8. SavedOK' /\ RestOK'
  BY <1>1 DEF Parts, SavedOK, RestOK
<1> QED
  BY <1>2, <1>6, <1>7, <1>8 DEF Parts

LEMMA ReplayStep == Parts /\ Replay => Parts'
<1> SUFFICES ASSUME Parts, Replay PROVE Parts'
  OBVIOUS
<1>1. next \in DOMAIN track
  BY DEF Replay, Parts, OrdersOK, RestOK
<1>2. track[next] \in OrderType
  BY <1>1 DEF Parts, OrdersOK
<1>3. MemOK'
  BY <1>2, NowGood, OnOrderTrackGood, BecomesGood DEF Replay, Parts
<1> QED
  BY <1>3 DEF Replay, Parts, SavedOK, OrdersOK, RestOK, TracksCount

LEMMA ListenStep == Parts /\ Listen => Parts'
BY DEF Listen, Parts, MemOK, SavedOK, OrdersOK, RestOK, TracksCount, memVars

(* The end of a day leaves no order. *)
LEMMA DayOverGood ==
  ASSUME Parts, DayOver, held' = held
  PROVE  OrdersOK' /\ TracksCount' /\ day' \in Nat
BY DEF DayOver, Parts, OrdersOK, RestOK, TracksCount

LEMMA SaveGood ==
  ASSUME MemOK, Save
  PROVE  SavedOK'
<1>1. /\ \A i \in Instrs : VolToJson(instr[i]) \in PosType
      /\ \A p \in Prds : VolToJson(prd[p]) \in PosType
  BY PosTyped DEF MemOK, VolToJson
<1> QED
  BY <1>1 DEF Save, SavedOK

LEMMA SwitchDayStep == Parts /\ SwitchDay => Parts'
<1> SUFFICES ASSUME Parts, SwitchDay PROVE Parts'
  OBVIOUS
<1>1. PICK a : a = Account([i \in Instrs |-> IF Flat(instr[i]) THEN ZeroVol
                                             ELSE VolSwitchDay(instr[i])],
                           [p \in Prds |-> IF Flat(prd[p]) THEN ZeroVol
                                           ELSE VolSwitchDay(prd[p])], 0)
  OBVIOUS
<1>2. a \in AccType
  BY <1>1, SwitchDayGood DEF Parts, MemOK, Account, AccType
<1>3. /\ DayOver /\ Save /\ Becomes(a)
      /\ UNCHANGED <<up, next, held, crashes, missed>>
  BY <1>1 DEF SwitchDay
<1>4. MemOK' /\ SavedOK'
  BY <1>2, <1>3, BecomesGood, SaveGood DEF Parts
<1>5. OrdersOK' /\ TracksCount' /\ day' \in Nat
  BY <1>3, DayOverGood
<1> QED
  BY <1>3, <1>4, <1>5 DEF Parts, RestOK

LEMMA CloseStep == Parts /\ Close => Parts'
<1> SUFFICES ASSUME Parts, Close PROVE Parts'
  OBVIOUS
<1>1. /\ DayOver /\ Save /\ up' = "down"
      /\ UNCHANGED <<next, held, crashes, missed>>
  BY DEF Close
<1>2. MemOK' /\ SavedOK'
  BY <1>1, EmptyGood, BecomesGood, SaveGood DEF Parts, Close
<1>3. OrdersOK' /\ TracksCount' /\ day' \in Nat
  BY <1>1, DayOverGood
<1> QED
  BY <1>1, <1>2, <1>3 DEF Parts, RestOK

LEMMA DownOverStep == Parts /\ DownOver => Parts'
<1> SUFFICES ASSUME Parts, DownOver PROVE Parts'
  OBVIOUS
<1>1. /\ DayOver /\ missed' = missed + 1
      /\ UNCHANGED <<up, memVars, saved, next, held, crashes>>
  BY DEF DownOver
<1>2. OrdersOK' /\ TracksCount' /\ day' \in Nat
  BY <1>1, DayOverGood
<1> QED
  BY <1>1, <1>2 DEF Parts, MemOK, SavedOK, RestOK, memVars

LEMMA StutterStep == Parts /\ UNCHANGED vars => Parts'
BY DEF Parts, MemOK, SavedOK, OrdersOK, RestOK, TracksCount, vars

-----------------------------------------------------------------------------
(* Every step keeps the parts. *)
LEMMA PartsStep == Parts /\ [Next]_vars => Parts'
<1> SUFFICES ASSUME Parts, [Next]_vars PROVE Parts'
  OBVIOUS
<1>1. ASSUME NEW i \in Instrs, NEW dir \in Dirs, NEW off \in Offs,
             NEW v \in 1 .. MaxVol, NewOrder(i, dir, off, v)
      PROVE  Parts'
  BY <1>1, NewOrderStep
<1>2. ASSUME NEW r \in DOMAIN track, NEW n \in 1 .. MaxVol,
             OnRtnTrade(r, n)
      PROVE  Parts'
  BY <1>2, OnRtnTradeStep
<1>3. ASSUME NEW r \in DOMAIN track, OnRtnClosed(r)
      PROVE  Parts'
  BY <1>3, OnRtnClosedStep
<1>4. ASSUME NEW r \in DOMAIN track, Missed(r)
      PROVE  Parts'
  BY <1>4, MissedStep
<1>5. CASE Crash \/ Start \/ Replay \/ Listen
  BY <1>5, CrashStep, StartStep, ReplayStep, ListenStep
<1>6. CASE SwitchDay \/ Close \/ DownOver
  BY <1>6, SwitchDayStep, CloseStep, DownOverStep
<1>7. CASE UNCHANGED vars
  BY <1>7, StutterStep
<1> QED
  BY <1>1, <1>2, <1>3, <1>4, <1>5, <1>6, <1>7 DEF Next

(* The inductive invariant holds in every reachable state, for every       *)
(* number of instruments, products, orders, volumes, days, deaths and      *)
(* missed events: onNew, onCxl, onTrd, onOrderTrack, save, load and        *)
(* onSwitchDay keep the account typed and balanced.                        *)
THEOREM BookInvHolds == Spec => []BookInv
<1>1. Parts => BookInv
  BY InvParts DEF Parts
<1> QED
  BY <1>1, InitParts, PartsStep, PTL DEF Spec

(* Every variable of the account keeps its type. *)
THEOREM TypeCorrect == Spec => []TypeOK
<1>1. BookInv => TypeOK
  BY DEF BookInv
<1> QED
  BY <1>1, BookInvHolds, PTL

(* UnitVol stays balanced for instruments and products: a position is      *)
(* yesterday's plus today's, and the day's purchases and sales account for *)
(* every change of it, whatever orders, trades, cancels, days, deaths and  *)
(* replays the account goes through.                                       *)
THEOREM BooksStayBalanced == Spec => []BooksBalance
<1>1. BookInv => BooksBalance
  BY DEF BookInv
<1> QED
  BY <1>1, BookInvHolds, PTL

(* A unit without a position is carried over as an empty one. *)
LEMMA FlatIsZero ==
  ASSUME NEW u, Flat(u)
  PROVE  VolSwitchDay(u) = ZeroVol
<1>1. \A s \in Sides : u.side[s].pos = 0
  BY DEF Flat, Sides
<1>2. \A s \in Sides : Pos(u)[s] = 0
  BY <1>1 DEF Pos
<1> QED
  BY <1>2 DEF VolSwitchDay, CarriedOver, ZeroVol, ZeroSide

(* A strategy that switches the day has what an engine would load. *)
LEMMA SwitchDayLoads == SwitchDay => Now' = Loaded'
<1> SUFFICES ASSUME SwitchDay PROVE Now' = Loaded'
  OBVIOUS
<1>1. \A u : (IF Flat(u) THEN ZeroVol ELSE VolSwitchDay(u))
               = VolFromJson(VolToJson(u))
  BY FlatIsZero DEF VolFromJson, VolToJson, VolSwitchDay
<1>2. /\ instr' = [i \in Instrs |-> VolFromJson(VolToJson(instr[i]))]
      /\ prd' = [p \in Prds |-> VolFromJson(VolToJson(prd[p]))]
      /\ unfilled' = 0
  BY <1>1 DEF SwitchDay, Becomes, Account
<1>3. /\ saved'.instr = [i \in Instrs |-> VolToJson(instr[i])]
      /\ saved'.prd = [p \in Prds |-> VolToJson(prd[p])]
  BY DEF SwitchDay, Save
<1> QED
  BY <1>2, <1>3 DEF Now, Loaded, Account

(* The account of a strategy that runs through the change of day is the    *)
(* one an engine that closes and starts again loads (onSwitchDay, save,    *)
(* load).                                                                  *)
THEOREM DayIsCarriedOver == Spec => DayCarriedOver
<1>1. [Next]_vars => [SwitchDay => Now' = Loaded']_vars
  BY SwitchDayLoads
<1> QED
  BY <1>1, PTL DEF Spec, DayCarriedOver

-----------------------------------------------------------------------------
(***************************************************************************)
(* Positions, the volume under way, and the orders of the day.  What an    *)
(* account has of an instrument is what was loaded and a sum over the      *)
(* orders it was told of, of which each gives its share.                   *)
(***************************************************************************)
Closes == {"CloseYesterday", "CloseToday"}

(* What may still be closed of a side, and what is under way. *)
Free(x, off) == IF off = "CloseYesterday" THEN x.yd - x.yd_cls_ing
                ELSE x.td - x.td_cls_ing
Ing(x, off) == IF off = "Open" THEN x.td_opn_ing
               ELSE IF off = "CloseToday" THEN x.td_cls_ing ELSE x.yd_cls_ing

Own(o, i, s) == o.instr = i /\ SideOf(o.dir, o.off) = s

(* What is taken of the position for a close: all of it until the order is *)
(* closed, and then what it traded.                                        *)
Taken(o) == IF "CLOSED" \in o.st THEN o.traded ELSE o.vol

(* The shares of order o, of which the front knows f: *)
Share(kind, i, s, off, o, f) ==
  IF kind = "unfilled" THEN IF f.open THEN 1 ELSE 0
  ELSE IF ~Own(o, i, s) THEN 0
  ELSE IF kind = "gain" THEN IF o.off = "Open" THEN o.traded ELSE -o.traded
  ELSE IF kind = "ing" THEN IF o.off = off /\ f.open THEN o.vol - f.traded ELSE 0
  ELSE \* "free"
       IF o.off = off THEN -Taken(o)
       ELSE IF o.off = "Open" /\ off = "CloseToday" /\ "EXECUTION" \in o.st
            THEN o.traded ELSE 0

Kinds == {"unfilled", "gain", "ing", "free"}

(* The shares of the first k orders *)
Shares(kind, i, s, off, tr, fr, k) ==
  SumFunctionOnSet([r \in 1 .. k |-> Share(kind, i, s, off, tr[r], fr[r])], 1 .. k)

(* The number of orders the account was told of. *)
Told == IF up = "replay" THEN next - 1 ELSE Len(track)

(* An order, and what the front knows of it. *)
Fits(o, f) ==
  /\ "TDSEND" \in o.st
  /\ o.traded <= f.traded /\ f.traded <= o.vol
  /\ f.open => f.traded < o.vol
  /\ "CLOSED" \in o.st => ~f.open /\ o.traded = f.traded

(* The same, when nothing was missed. *)
Exact(o, f) ==
  /\ o.traded = f.traded
  /\ "EXECUTION" \in o.st <=> o.traded > 0
  /\ "CLOSED" \in o.st <=> ~f.open
  /\ "CANCELED" \in o.st <=> ~f.open /\ f.traded < o.vol

OrdersFit(tr, fr, ok) ==
  \A r \in 1 .. Len(tr) : Fits(tr[r], fr[r]) /\ (ok => Exact(tr[r], fr[r]))

(* What there is to close at the start of a day *)
Stock(p, s, off) == IF off = "CloseYesterday" THEN p[s] ELSE 0

(* No order of the day closes more than there is, in the order in which    *)
(* the replay takes them.                                                  *)
RoomKept(S, tr, fr) ==
  \A i \in Instrs, s \in Sides, off \in Closes, k \in 0 .. Len(tr) :
    Stock(S[i], s, off) + Shares("free", i, s, off, tr, fr, k) >= 0

(* Account a, loaded from S and told of k orders, has of a side no more to *)
(* close than the orders leave, ...                                        *)
FreeAgrees(a, S, tr, fr, k, replay, i, s) ==
  \A off \in Closes :
    LET most == Stock(S[i], s, off) + Shares("free", i, s, off, tr, fr, k)
        free == Free(a.instr[i].side[s], off)
    IN  0 <= free /\ free <= most /\ (replay => free = most)

(* ... no less under way, ... *)
IngAgrees(a, tr, fr, k, ok, i, s) ==
  \A off \in Offs :
    LET least == Shares("ing", i, s, off, tr, fr, k)
        ing == Ing(a.instr[i].side[s], off)
    IN  least <= ing /\ (ok => ing = least)

(* ... and, if nothing was missed, their position ... *)
GainAgrees(a, S, tr, fr, k, ok, i, s) ==
  ok => a.instr[i].side[s].pos = S[i][s] + Shares("gain", i, s, "Open", tr, fr, k)

(* ... and their number, whatever the instrument. *)
UnfilledAgrees(a, tr, fr, k, ok) ==
  ok => a.unfilled = Shares("unfilled", "any", "any", "any", tr, fr, k)

AccAgrees(a, S, tr, fr, k, replay, ok) ==
  /\ \A i \in Instrs, s \in Sides :
       /\ FreeAgrees(a, S, tr, fr, k, replay, i, s)
       /\ IngAgrees(a, tr, fr, k, ok, i, s)
       /\ GainAgrees(a, S, tr, fr, k, ok, i, s)
  /\ UnfilledAgrees(a, tr, fr, k, ok)

(* The positions at the front are what was saved and what was traded. *)
HeldAgrees(H, S, tr, fr) ==
  \A i \in Instrs, s \in Sides :
    H[i][s] = S[i][s] + Shares("gain", i, s, "Open", tr, fr, Len(tr))

(* The position of a product, and what it has under way, is that of its    *)
(* instruments.                                                            *)
Counters == Offs \cup {"pos"}
Counter(x, c) == IF c = "pos" THEN x.pos ELSE Ing(x, c)
Counts(I, c) == [i \in Instrs |-> [s \in Sides |-> Counter(I[i].side[s], c)]]

OfPrd(I, p, s) ==
  SumFunctionOnSet([i \in Instrs |-> IF PrdOf[i] = p THEN I[i][s] ELSE 0], Instrs)

PrdsAgree ==
  /\ \A p \in Prds, s \in Sides, c \in Counters :
       Counter(prd[p].side[s], c) = OfPrd(Counts(instr, c), p, s)
  /\ \A p \in Prds, s \in Sides : saved.prd[p][s] = OfPrd(saved.instr, p, s)

(* The second inductive invariant. *)
SharesOK ==
  /\ OrdersFit(track, front, missed = 0)
  /\ RoomKept(saved.instr, track, front)
  /\ up # "down" =>
       /\ Told \in 0 .. Len(track)
       /\ AccAgrees(Now, saved.instr, track, front, Told, up = "replay", missed = 0)
  /\ missed = 0 => HeldAgrees(held, saved.instr, track, front)

ShareInv == SharesOK /\ PrdsAgree

-----------------------------------------------------------------------------
(* A share is an integer, *)
LEMMA ShareInt ==
  ASSUME NEW o \in OrderType, NEW f \in FrontType,
         NEW kind, NEW i, NEW s, NEW off
  PROVE  Share(kind, i, s, off, o, f) \in Int
<1>1. o.vol \in Int /\ o.traded \in Int /\ f.traded \in Int
  BY AccountAssumption DEF OrderType, FrontType
<1>2. -o.traded \in Int /\ o.vol - f.traded \in Int /\ -Taken(o) \in Int
  BY <1>1 DEF Taken
<1> QED
  BY <1>1, <1>2 DEF Share

(* and so is a sum of them. *)
LEMMA SharesInt ==
  ASSUME NEW tr \in Seq(OrderType), NEW fr \in Seq(FrontType),
         Len(fr) = Len(tr), NEW k \in 0 .. Len(tr),
         NEW kind, NEW i, NEW s, NEW off
  PROVE  Shares(kind, i, s, off, tr, fr, k) \in Int
<1>1. PICK R : R = 1 .. k
  OBVIOUS
<1>2. PICK g : g = [r \in R |-> Share(kind, i, s, off, tr[r], fr[r])]
  OBVIOUS
<1>3. IsFiniteSet(R)
  BY <1>1, FS_Interval
<1>4. ASSUME NEW r \in R
      PROVE  g[r] \in Int
  <2>1. tr[r] \in OrderType /\ fr[r] \in FrontType
    BY <1>1
  <2> QED
    BY <1>2, <2>1, ShareInt
<1>5. SumFunctionOnSet(g, R) \in Int
  BY <1>3, <1>4, SumType
<1> QED
  BY <1>1, <1>2, <1>5 DEF Shares

(* No order, no share. *)
LEMMA SharesNone ==
  ASSUME NEW tr, NEW fr, NEW kind, NEW i, NEW s, NEW off
  PROVE  Shares(kind, i, s, off, tr, fr, 0) = 0
<1>1. 1 .. 0 = {}
  OBVIOUS
<1> QED
  BY <1>1, SumEmpty DEF Shares

(* One order more *)
LEMMA SharesNext ==
  ASSUME NEW tr \in Seq(OrderType), NEW fr \in Seq(FrontType),
         Len(fr) = Len(tr), NEW k \in 0 .. Len(tr) - 1,
         NEW kind, NEW i, NEW s, NEW off
  PROVE  Shares(kind, i, s, off, tr, fr, k + 1)
           = Shares(kind, i, s, off, tr, fr, k)
               + Share(kind, i, s, off, tr[k + 1], fr[k + 1])
<1> DEFINE G(R) == [r \in R |-> Share(kind, i, s, off, tr[r], fr[r])]
<1>1. PICK R, Q : R = 1 .. k /\ Q = 1 .. k + 1
  OBVIOUS
<1>2. PICK f, g : f = G(R) /\ g = G(Q)
  OBVIOUS
<1>3. IsFiniteSet(R) /\ k \in Nat /\ R \subseteq Q /\ k + 1 \in Q
  BY <1>1, FS_Interval
<1>4. ASSUME NEW r \in Q
      PROVE  g[r] \in Int
  <2>1. tr[r] \in OrderType /\ fr[r] \in FrontType
    BY <1>1
  <2> QED
    BY <1>2, <2>1, ShareInt
<1>5. SumFunctionOnSet(g, 1 .. k + 1) = SumFunctionOnSet(g, 1 .. k) + g[k + 1]
  BY <1>1, <1>3, <1>4, SumLast
<1>6. \A r \in R : f[r] = g[r]
  BY <1>2, <1>3
<1>7. SumFunctionOnSet(f, R) = SumFunctionOnSet(g, R)
  BY <1>3, <1>6, SumSame
<1>8. g[k + 1] = Share(kind, i, s, off, tr[k + 1], fr[k + 1])
  BY <1>2, <1>3
<1>9. /\ Shares(kind, i, s, off, tr, fr, k + 1) = SumFunctionOnSet(g, Q)
      /\ Shares(kind, i, s, off, tr, fr, k) = SumFunctionOnSet(f, R)
  BY <1>1, <1>2 DEF Shares
<1> QED
  BY <1>1, <1>5, <1>7, <1>8, <1>9

(* Orders that have the same shares *)
LEMMA SharesSame ==
  ASSUME NEW tr, NEW fr, NEW tr2, NEW fr2, NEW k \in Nat,
         NEW kind, NEW i, NEW s, NEW off,
         \A r \in 1 .. k : Share(kind, i, s, off, tr2[r], fr2[r])
                             = Share(kind, i, s, off, tr[r], fr[r])
  PROVE  Shares(kind, i, s, off, tr2, fr2, k) = Shares(kind, i, s, off, tr, fr, k)
<1>1. [r \in 1 .. k |-> Share(kind, i, s, off, tr2[r], fr2[r])]
        = [r \in 1 .. k |-> Share(kind, i, s, off, tr[r], fr[r])]
  OBVIOUS
<1> QED
  BY <1>1 DEF Shares

(* and orders of which one has another one. *)
Changed(seq2, seq, r, x) == seq2 = [seq EXCEPT ![r] = x]

LEMMA SharesChange ==
  ASSUME NEW tr \in Seq(OrderType), NEW fr \in Seq(FrontType),
         Len(fr) = Len(tr), NEW k \in 0 .. Len(tr),
         NEW kind, NEW i, NEW s, NEW off,
         NEW r \in 1 .. k, NEW o \in OrderType, NEW x \in FrontType,
         NEW tr2, Changed(tr2, tr, r, o), NEW fr2, Changed(fr2, fr, r, x)
  PROVE  Shares(kind, i, s, off, tr2, fr2, k)
           = Shares(kind, i, s, off, tr, fr, k)
               - Share(kind, i, s, off, tr[r], fr[r])
               + Share(kind, i, s, off, o, x)
<1>0. tr2 = [tr EXCEPT ![r] = o] /\ fr2 = [fr EXCEPT ![r] = x]
  BY DEF Changed
<1>1. PICK R : R = 1 .. k
  OBVIOUS
<1>2. PICK f, g : /\ f = [q \in R |-> Share(kind, i, s, off, tr[q], fr[q])]
                  /\ g = [q \in R |-> Share(kind, i, s, off, tr2[q], fr2[q])]
  OBVIOUS
<1>3. IsFiniteSet(R)
  BY <1>1, FS_Interval
<1>4. ASSUME NEW q \in R
      PROVE  f[q] \in Int
  <2>1. tr[q] \in OrderType /\ fr[q] \in FrontType
    BY <1>1
  <2> QED
    BY <1>2, <2>1, ShareInt
<1>9. /\ tr2[r] = o /\ fr2[r] = x
      /\ \A q \in R : q # r => tr2[q] = tr[q] /\ fr2[q] = fr[q]
  BY <1>0, <1>1
<1>5. r \in R /\ g[r] \in Int
  BY <1>1, <1>2, <1>9, ShareInt
<1>7. \A q \in R : q # r => g[q] = f[q]
  BY <1>1, <1>2, <1>9
<1>8. \A q \in R : f[q] \in Int
  BY <1>4
<1>6. SumFunctionOnSet(g, R) = SumFunctionOnSet(f, R) - f[r] + g[r]
  BY ZenonT(60), <1>3, <1>5, <1>7, <1>8, SumChange
<1> QED
  BY <1>0, <1>1, <1>2, <1>5, <1>6, <1>9 DEF Shares

-----------------------------------------------------------------------------
(* What an operation of volumes d, under way, and t, traded, does to the   *)
(* side of the order.                                                      *)
Opened(off, t) == IF off = "Open" THEN t ELSE -t
Freed(off, c, d, t) == IF c = off THEN -(d + t)
                       ELSE IF off = "Open" /\ c = "CloseToday" THEN t ELSE 0

Moves(x, y, off, d, t) ==
  /\ y.pos = x.pos + Opened(off, t)
  /\ \A c \in Closes : Free(y, c) = Free(x, c) + Freed(off, c, d, t)
  /\ \A c \in Offs : Ing(y, c) = Ing(x, c) + (IF c = off THEN d ELSE 0)

LEMMA SideInts ==
  ASSUME NEW x \in SideType
  PROVE  /\ x.pos \in Int
         /\ \A c \in Closes : Free(x, c) \in Int
         /\ \A c \in Offs : Ing(x, c) \in Int
BY DEF SideType, Free, Ing

LEMMA AddIngMoves ==
  ASSUME NEW x \in SideType, NEW off \in Offs, NEW v \in Int
  PROVE  Moves(x, AddIng(x, off, v), off, v, 0)
<1>1. PICK y : y = AddIng(x, off, v)
  OBVIOUS
<1>2. /\ x.pos \in Int /\ x.yd \in Int /\ x.td \in Int /\ x.yd_cls_ing \in Int
      /\ x.td_cls_ing \in Int /\ x.td_opn_ing \in Int
  BY DEF SideType
<1>3. /\ y.pos = x.pos /\ y.yd = x.yd /\ y.td = x.td
      /\ y.yd_cls_ing = x.yd_cls_ing + If(off, "CloseYesterday", v)
      /\ y.td_cls_ing = x.td_cls_ing + If(off, "CloseToday", v)
      /\ y.td_opn_ing = x.td_opn_ing + If(off, "Open", v)
  BY <1>1 DEF AddIng
<1>4. y.pos = x.pos + Opened(off, 0)
  BY <1>2, <1>3 DEF Opened
<1>5. \A c \in Closes : Free(y, c) = Free(x, c) + Freed(off, c, v, 0)
  BY <1>2, <1>3 DEF Closes, Offs, Free, Freed, If
<1>6. \A c \in Offs : Ing(y, c) = Ing(x, c) + (IF c = off THEN v ELSE 0)
  BY <1>2, <1>3 DEF Offs, Ing, If
<1> QED
  BY <1>1, <1>4, <1>5, <1>6 DEF Moves

LEMMA TrdMoves ==
  ASSUME NEW x \in SideType, NEW off \in Offs, NEW v \in Int
  PROVE  Moves(x, Trd(x, off, v), off, -v, v)
<1>1. PICK y : y = Trd(x, off, v)
  OBVIOUS
<1>2. /\ x.pos \in Int /\ x.yd \in Int /\ x.td \in Int /\ x.yd_cls_ing \in Int
      /\ x.td_cls_ing \in Int /\ x.td_opn_ing \in Int
  BY DEF SideType
<1>3. /\ y.pos = x.pos + (IF off = "Open" THEN v ELSE -v)
      /\ y.yd = x.yd - If(off, "CloseYesterday", v)
      /\ y.td = x.td + If(off, "Open", v) - If(off, "CloseToday", v)
      /\ y.yd_cls_ing = x.yd_cls_ing - If(off, "CloseYesterday", v)
      /\ y.td_cls_ing = x.td_cls_ing - If(off, "CloseToday", v)
      /\ y.td_opn_ing = x.td_opn_ing - If(off, "Open", v)
  BY <1>1 DEF Trd
<1>4. y.pos = x.pos + Opened(off, v)
  BY <1>3 DEF Opened
<1>5. \A c \in Closes : Free(y, c) = Free(x, c) + Freed(off, c, -v, v)
  BY <1>2, <1>3 DEF Closes, Offs, Free, Freed, If
<1>6. \A c \in Offs : Ing(y, c) = Ing(x, c) + (IF c = off THEN -v ELSE 0)
  BY <1>2, <1>3 DEF Offs, Ing, If
<1> QED
  BY <1>1, <1>4, <1>5, <1>6 DEF Moves

LEMMA MovesNot ==
  ASSUME NEW x \in SideType, NEW off \in Offs
  PROVE  Moves(x, x, off, 0, 0)
BY SideInts DEF Moves, Opened, Freed

LEMMA MovesThen ==
  ASSUME NEW x \in SideType, NEW y \in SideType, NEW z \in SideType,
         NEW off \in Offs, NEW d \in Int, NEW t \in Int, NEW e \in Int, NEW u \in Int,
         Moves(x, y, off, d, t), Moves(y, z, off, e, u)
  PROVE  Moves(x, z, off, d + e, t + u)
<1>1. z.pos = x.pos + Opened(off, t + u)
  BY SideInts DEF Moves, Opened
<1>2. ASSUME NEW c \in Closes
      PROVE  Free(z, c) = Free(x, c) + Freed(off, c, d + e, t + u)
  <2>1. PICK p, q, r : p = Free(x, c) /\ q = Free(y, c) /\ r = Free(z, c)
    OBVIOUS
  <2>2. p \in Int /\ q = p + Freed(off, c, d, t) /\ r = q + Freed(off, c, e, u)
    BY <2>1, SideInts DEF Moves
  <2>3. r = p + Freed(off, c, d + e, t + u)
    BY <2>2 DEF Freed
  <2> QED
    BY <2>1, <2>3
<1>3. ASSUME NEW c \in Offs
      PROVE  Ing(z, c) = Ing(x, c) + (IF c = off THEN d + e ELSE 0)
  <2>1. PICK p, q, r : p = Ing(x, c) /\ q = Ing(y, c) /\ r = Ing(z, c)
    OBVIOUS
  <2>2. /\ p \in Int /\ q = p + (IF c = off THEN d ELSE 0)
        /\ r = q + (IF c = off THEN e ELSE 0)
    BY <2>1, SideInts DEF Moves
  <2> QED
    BY <2>1, <2>2
<1> QED
  BY <1>1, <1>2, <1>3 DEF Moves

(* And to the account: the other sides are left alone. *)
OwnPrd(o, p, s) == PrdOf[o.instr] = p /\ SideOf(o.dir, o.off) = s

AccMoves(a, b, o, d, t) ==
  /\ \A i \in Instrs, s \in Sides :
       IF Own(o, i, s)
       THEN Moves(a.instr[i].side[s], b.instr[i].side[s], o.off, d, t)
       ELSE b.instr[i].side[s] = a.instr[i].side[s]
  /\ \A p \in Prds, s \in Sides :
       IF OwnPrd(o, p, s)
       THEN Moves(a.prd[p].side[s], b.prd[p].side[s], o.off, d, t)
       ELSE b.prd[p].side[s] = a.prd[p].side[s]

LEMMA AccSides ==
  ASSUME NEW a \in AccType
  PROVE  /\ \A i \in Instrs, s \in Sides : a.instr[i].side[s] \in SideType
         /\ \A p \in Prds, s \in Sides : /\ a.prd[p].side[s] \in SideType
                                         /\ a.prd[p].side[s].pos \in Int
<1>1. \A u \in GoodVol, s \in Sides : u.side[s] \in SideType
  BY DEF GoodVol, VolType
<1>2. /\ \A i \in Instrs : a.instr[i] \in GoodVol
      /\ \A p \in Prds : a.prd[p] \in GoodVol
  BY DEF AccType
<1> QED
  BY <1>1, <1>2, SideInts

LEMMA AccMovesThen ==
  ASSUME NEW a \in AccType, NEW b \in AccType, NEW c \in AccType,
         NEW o \in OrderType, NEW d \in Int, NEW t \in Int, NEW e \in Int, NEW u \in Int,
         AccMoves(a, b, o, d, t), AccMoves(b, c, o, e, u)
  PROVE  AccMoves(a, c, o, d + e, t + u)
<1>0. o.off \in Offs
  BY DEF OrderType
<1>1. ASSUME NEW i \in Instrs, NEW s \in Sides
      PROVE  IF Own(o, i, s)
             THEN Moves(a.instr[i].side[s], c.instr[i].side[s], o.off, d + e, t + u)
             ELSE c.instr[i].side[s] = a.instr[i].side[s]
  <2>1. PICK x, y, z : /\ x = a.instr[i].side[s] /\ y = b.instr[i].side[s]
                       /\ z = c.instr[i].side[s]
    OBVIOUS
  <2>2. x \in SideType /\ y \in SideType /\ z \in SideType
    BY <2>1, AccSides
  <2>3. CASE Own(o, i, s)
    <3>1. Moves(x, y, o.off, d, t) /\ Moves(y, z, o.off, e, u)
      BY <2>1, <2>3 DEF AccMoves
    <3> QED
      BY <1>0, <2>1, <2>2, <2>3, <3>1, MovesThen
  <2>4. CASE ~Own(o, i, s)
    BY <2>4 DEF AccMoves
  <2> QED
    BY <2>3, <2>4
<1>2. ASSUME NEW p \in Prds, NEW s \in Sides
      PROVE  IF OwnPrd(o, p, s)
             THEN Moves(a.prd[p].side[s], c.prd[p].side[s], o.off, d + e, t + u)
             ELSE c.prd[p].side[s] = a.prd[p].side[s]
  <2>1. PICK x, y, z : /\ x = a.prd[p].side[s] /\ y = b.prd[p].side[s]
                       /\ z = c.prd[p].side[s]
    OBVIOUS
  <2>2. x \in SideType /\ y \in SideType /\ z \in SideType
    BY <2>1, AccSides
  <2>3. CASE OwnPrd(o, p, s)
    <3>1. Moves(x, y, o.off, d, t) /\ Moves(y, z, o.off, e, u)
      BY <2>1, <2>3 DEF AccMoves
    <3> QED
      BY <1>0, <2>1, <2>2, <2>3, <3>1, MovesThen
  <2>4. CASE ~OwnPrd(o, p, s)
    BY <2>4 DEF AccMoves
  <2> QED
    BY <2>3, <2>4
<1> QED
  BY <1>1, <1>2 DEF AccMoves

LEMMA AccMovesNot ==
  ASSUME NEW a \in AccType, NEW o \in OrderType
  PROVE  AccMoves(a, a, o, 0, 0)
<1>0. o.off \in Offs
  BY DEF OrderType
<1>1. \A i \in Instrs, s \in Sides :
        Moves(a.instr[i].side[s], a.instr[i].side[s], o.off, 0, 0)
  BY <1>0, AccSides, MovesNot
<1>2. \A p \in Prds, s \in Sides :
        Moves(a.prd[p].side[s], a.prd[p].side[s], o.off, 0, 0)
  BY <1>0, AccSides, MovesNot
<1> QED
  BY <1>1, <1>2 DEF AccMoves

-----------------------------------------------------------------------------
(* One of two operations on UnitVol, applied to the instrument of an order *)
(* and to its product, moves the account.                                  *)
LEMMA OnNewMoves ==
  ASSUME NEW a \in AccType, NEW o \in OrderType
  PROVE  /\ AccMoves(a, OnNew(a, o), o, o.vol, 0)
         /\ OnNew(a, o).unfilled = a.unfilled + 1
<1>1. /\ o.instr \in Instrs /\ o.dir \in Dirs /\ o.off \in Offs /\ o.vol \in Int
      /\ PrdOf[o.instr] \in Prds /\ SideOf(o.dir, o.off) \in Sides
  BY AccountAssumption, SideOfType DEF OrderType
<1>2. PICK b : b = OnNew(a, o)
  OBVIOUS
<1>3. PICK w : w = SideOf(o.dir, o.off)
  OBVIOUS
<1>4. /\ b.instr = [a.instr EXCEPT ![o.instr] = VolNew(@, o.dir, o.off, o.vol)]
      /\ b.prd = [a.prd EXCEPT ![PrdOf[o.instr]] = VolNew(@, o.dir, o.off, o.vol)]
      /\ b.unfilled = a.unfilled + 1
  BY <1>2 DEF OnNew, Account
<1>5. a.instr \in [Instrs -> GoodVol] /\ a.prd \in [Prds -> GoodVol]
  BY DEF AccType
<1>6. \A u \in GoodVol, s \in Sides :
        /\ u.side[s] \in SideType
        /\ VolNew(u, o.dir, o.off, o.vol).side[s]
             = IF s = w THEN AddIng(u.side[s], o.off, o.vol) ELSE u.side[s]
  BY <1>1, <1>3 DEF GoodVol, VolType, VolNew
<1>7. ASSUME NEW i \in Instrs, NEW s \in Sides
      PROVE  IF Own(o, i, s)
             THEN Moves(a.instr[i].side[s], b.instr[i].side[s], o.off, o.vol, 0)
             ELSE b.instr[i].side[s] = a.instr[i].side[s]
  <2>1. CASE i = o.instr /\ s = w
    <3>1. b.instr[i].side[s] = AddIng(a.instr[i].side[s], o.off, o.vol)
      BY <1>4, <1>5, <1>6, <2>1
    <3>2. a.instr[i].side[s] \in SideType
      BY <1>5, <1>6
    <3> QED
      BY <1>1, <1>3, <2>1, <3>1, <3>2, AddIngMoves DEF Own
  <2>2. CASE ~(i = o.instr /\ s = w)
    <3>1. b.instr[i].side[s] = a.instr[i].side[s]
      BY <1>4, <1>5, <1>6, <2>2
    <3> QED
      BY <1>3, <2>2, <3>1 DEF Own
  <2> QED
    BY <2>1, <2>2
<1>8. ASSUME NEW p \in Prds, NEW s \in Sides
      PROVE  IF OwnPrd(o, p, s)
             THEN Moves(a.prd[p].side[s], b.prd[p].side[s], o.off, o.vol, 0)
             ELSE b.prd[p].side[s] = a.prd[p].side[s]
  <2>1. CASE p = PrdOf[o.instr] /\ s = w
    <3>1. b.prd[p].side[s] = AddIng(a.prd[p].side[s], o.off, o.vol)
      BY <1>1, <1>4, <1>5, <1>6, <2>1
    <3>2. a.prd[p].side[s] \in SideType
      BY <1>5, <1>6
    <3> QED
      BY <1>1, <1>3, <2>1, <3>1, <3>2, AddIngMoves DEF OwnPrd
  <2>2. CASE ~(p = PrdOf[o.instr] /\ s = w)
    <3>1. b.prd[p].side[s] = a.prd[p].side[s]
      BY <1>1, <1>4, <1>5, <1>6, <2>2
    <3> QED
      BY <1>3, <2>2, <3>1 DEF OwnPrd
  <2> QED
    BY <2>1, <2>2
<1> QED
  BY <1>2, <1>4, <1>7, <1>8 DEF AccMoves

(* A cancel of v is a new order of -v. *)
LEMMA OnCxlMoves ==
  ASSUME NEW a \in AccType, NEW o \in OrderType, NEW v \in Int
  PROVE  /\ AccMoves(a, OnCxl(a, o, v), o, -v, 0)
         /\ OnCxl(a, o, v).unfilled = a.unfilled - 1
<1>1. /\ o.instr \in Instrs /\ o.dir \in Dirs /\ o.off \in Offs /\ -v \in Int
      /\ PrdOf[o.instr] \in Prds /\ SideOf(o.dir, o.off) \in Sides
  BY AccountAssumption, SideOfType DEF OrderType
<1>2. PICK b : b = OnCxl(a, o, v)
  OBVIOUS
<1>3. PICK w : w = SideOf(o.dir, o.off)
  OBVIOUS
<1>4. /\ b.instr = [a.instr EXCEPT ![o.instr] = VolCxl(@, o.dir, o.off, v)]
      /\ b.prd = [a.prd EXCEPT ![PrdOf[o.instr]] = VolCxl(@, o.dir, o.off, v)]
      /\ b.unfilled = a.unfilled - 1
  BY <1>2 DEF OnCxl, Account
<1>5. a.instr \in [Instrs -> GoodVol] /\ a.prd \in [Prds -> GoodVol]
  BY DEF AccType
<1>6. \A u \in GoodVol, s \in Sides :
        /\ u.side[s] \in SideType
        /\ VolCxl(u, o.dir, o.off, v).side[s]
             = IF s = w THEN AddIng(u.side[s], o.off, -v) ELSE u.side[s]
  BY <1>1, <1>3 DEF GoodVol, VolType, VolNew, VolCxl
<1>7. ASSUME NEW i \in Instrs, NEW s \in Sides
      PROVE  IF Own(o, i, s)
             THEN Moves(a.instr[i].side[s], b.instr[i].side[s], o.off, -v, 0)
             ELSE b.instr[i].side[s] = a.instr[i].side[s]
  <2>1. CASE i = o.instr /\ s = w
    <3>1. b.instr[i].side[s] = AddIng(a.instr[i].side[s], o.off, -v)
      BY <1>4, <1>5, <1>6, <2>1
    <3>2. a.instr[i].side[s] \in SideType
      BY <1>5, <1>6
    <3> QED
      BY <1>1, <1>3, <2>1, <3>1, <3>2, AddIngMoves DEF Own
  <2>2. CASE ~(i = o.instr /\ s = w)
    <3>1. b.instr[i].side[s] = a.instr[i].side[s]
      BY <1>4, <1>5, <1>6, <2>2
    <3> QED
      BY <1>3, <2>2, <3>1 DEF Own
  <2> QED
    BY <2>1, <2>2
<1>8. ASSUME NEW p \in Prds, NEW s \in Sides
      PROVE  IF OwnPrd(o, p, s)
             THEN Moves(a.prd[p].side[s], b.prd[p].side[s], o.off, -v, 0)
             ELSE b.prd[p].side[s] = a.prd[p].side[s]
  <2>1. CASE p = PrdOf[o.instr] /\ s = w
    <3>1. b.prd[p].side[s] = AddIng(a.prd[p].side[s], o.off, -v)
      BY <1>1, <1>4, <1>5, <1>6, <2>1
    <3>2. a.prd[p].side[s] \in SideType
      BY <1>5, <1>6
    <3> QED
      BY <1>1, <1>3, <2>1, <3>1, <3>2, AddIngMoves DEF OwnPrd
  <2>2. CASE ~(p = PrdOf[o.instr] /\ s = w)
    <3>1. b.prd[p].side[s] = a.prd[p].side[s]
      BY SMTT(30), <1>1, <1>4, <1>5, <1>6, <2>2
    <3> QED
      BY <1>3, <2>2, <3>1 DEF OwnPrd
  <2> QED
    BY <2>1, <2>2
<1> QED
  BY <1>2, <1>4, <1>7, <1>8 DEF AccMoves

(* A trade *)
LEMMA OnTrdMoves ==
  ASSUME NEW a \in AccType, NEW o \in OrderType, NEW v \in Int
  PROVE  /\ AccMoves(a, OnTrd(a, o, v), o, -v, v)
         /\ OnTrd(a, o, v).unfilled
              = a.unfilled - (IF o.vol = o.traded THEN 1 ELSE 0)
<1>1. /\ o.instr \in Instrs /\ o.dir \in Dirs /\ o.off \in Offs
      /\ PrdOf[o.instr] \in Prds /\ SideOf(o.dir, o.off) \in Sides
  BY AccountAssumption, SideOfType DEF OrderType
<1>2. PICK b : b = OnTrd(a, o, v)
  OBVIOUS
<1>3. PICK w : w = SideOf(o.dir, o.off)
  OBVIOUS
<1>4. /\ b.instr = [a.instr EXCEPT ![o.instr] = VolTrd(@, o.dir, o.off, v)]
      /\ b.prd = [a.prd EXCEPT ![PrdOf[o.instr]] = VolTrd(@, o.dir, o.off, v)]
      /\ b.unfilled = IF o.vol = o.traded THEN a.unfilled - 1 ELSE a.unfilled
  BY <1>2 DEF OnTrd, Account
<1>5. /\ a.instr \in [Instrs -> GoodVol] /\ a.prd \in [Prds -> GoodVol]
      /\ a.unfilled \in Int
  BY DEF AccType
<1>6. \A u \in GoodVol, s \in Sides :
        /\ u.side[s] \in SideType
        /\ VolTrd(u, o.dir, o.off, v).side[s]
             = IF s = w THEN Trd(u.side[s], o.off, v) ELSE u.side[s]
  BY <1>1, <1>3 DEF GoodVol, VolType, VolTrd
<1>7. ASSUME NEW i \in Instrs, NEW s \in Sides
      PROVE  IF Own(o, i, s)
             THEN Moves(a.instr[i].side[s], b.instr[i].side[s], o.off, -v, v)
             ELSE b.instr[i].side[s] = a.instr[i].side[s]
  <2>1. CASE i = o.instr /\ s = w
    <3>1. b.instr[i].side[s] = Trd(a.instr[i].side[s], o.off, v)
      BY <1>4, <1>5, <1>6, <2>1
    <3>2. a.instr[i].side[s] \in SideType
      BY <1>5, <1>6
    <3> QED
      BY <1>1, <1>3, <2>1, <3>1, <3>2, TrdMoves DEF Own
  <2>2. CASE ~(i = o.instr /\ s = w)
    <3>1. b.instr[i].side[s] = a.instr[i].side[s]
      BY <1>4, <1>5, <1>6, <2>2
    <3> QED
      BY <1>3, <2>2, <3>1 DEF Own
  <2> QED
    BY <2>1, <2>2
<1>8. ASSUME NEW p \in Prds, NEW s \in Sides
      PROVE  IF OwnPrd(o, p, s)
             THEN Moves(a.prd[p].side[s], b.prd[p].side[s], o.off, -v, v)
             ELSE b.prd[p].side[s] = a.prd[p].side[s]
  <2>1. CASE p = PrdOf[o.instr] /\ s = w
    <3>1. b.prd[p].side[s] = Trd(a.prd[p].side[s], o.off, v)
      BY <1>1, <1>4, <1>5, <1>6, <2>1
    <3>2. a.prd[p].side[s] \in SideType
      BY <1>5, <1>6
    <3> QED
      BY <1>1, <1>3, <2>1, <3>1, <3>2, TrdMoves DEF OwnPrd
  <2>2. CASE ~(p = PrdOf[o.instr] /\ s = w)
    <3>1. b.prd[p].side[s] = a.prd[p].side[s]
      BY <1>1, <1>4, <1>5, <1>6, <2>2
    <3> QED
      BY <1>3, <2>2, <3>1 DEF OwnPrd
  <2> QED
    BY <2>1, <2>2
<1> QED
  BY <1>2, <1>4, <1>5, <1>7, <1>8 DEF AccMoves

(* The replay of an order *)
Replayed(o) == IF "EXECUTION" \in o.st THEN o.traded ELSE 0
Leaves(o) ==
  1 - (IF "CLOSED" \in o.st /\ o.vol # o.traded THEN 1 ELSE 0)
    - (IF "EXECUTION" \in o.st /\ o.vol = o.traded THEN 1 ELSE 0)

LEMMA OnOrderTrackMoves ==
  ASSUME NEW a \in AccType, NEW o \in OrderType, "TDSEND" \in o.st
  PROVE  /\ AccMoves(a, OnOrderTrack(a, o), o, Taken(o) - Replayed(o), Replayed(o))
         /\ OnOrderTrack(a, o).unfilled = a.unfilled + Leaves(o)
<1>1. o.vol \in Int /\ o.traded \in Int /\ o.vol - o.traded \in Int
  BY AccountAssumption DEF OrderType
<1>2. PICK b, c, d : /\ b = NewOf(a, o) /\ c = CxlOf(b, o)
                     /\ d = TrdOf(c, o)
  OBVIOUS
<1>3. b = OnNew(a, o) /\ b \in AccType
  BY <1>2, OnNewGood DEF NewOf
<1>4. c \in AccType
  BY <1>1, <1>2, <1>3, OnCxlGood DEF CxlOf
<1>5. d = OnOrderTrack(a, o) /\ d \in AccType
  BY <1>2, OnOrderTrackGood DEF OnOrderTrack
<1>6. /\ AccMoves(a, b, o, o.vol, 0)
      /\ b.unfilled = a.unfilled + 1
  BY <1>3, OnNewMoves
<1>7. /\ a.unfilled \in Int /\ b.unfilled \in Int /\ c.unfilled \in Int
  BY <1>3, <1>4 DEF AccType
<1>8. PICK v, n : /\ v = IF "CLOSED" \in o.st /\ o.vol # o.traded
                         THEN o.vol - o.traded ELSE 0
                  /\ n = IF "CLOSED" \in o.st /\ o.vol # o.traded THEN 1 ELSE 0
  OBVIOUS
<1>9. /\ AccMoves(b, c, o, -v, 0)
      /\ c.unfilled = b.unfilled - n
      /\ -v \in Int
  <2>1. CASE "CLOSED" \in o.st /\ o.vol # o.traded
    <3>1. c = OnCxl(b, o, o.vol - o.traded) /\ v = o.vol - o.traded /\ n = 1
      BY <1>2, <1>8, <2>1 DEF CxlOf
    <3> QED
      BY <1>1, <1>3, <3>1, OnCxlMoves
  <2>2. CASE ~("CLOSED" \in o.st /\ o.vol # o.traded)
    <3>1. c = b /\ v = 0 /\ n = 0
      BY <1>2, <1>8, <2>2 DEF CxlOf
    <3>5. v \in Int /\ v >= 0 /\ v <= 0
      BY <3>1
    <3>2. -v = 0
      BY <3>5
    <3>3. AccMoves(b, c, o, 0, 0)
      BY <1>3, <3>1, AccMovesNot
    <3>4. c.unfilled = b.unfilled - n /\ -v \in Int
      BY <1>7, <3>1, <3>2
    <3> QED
      BY <3>2, <3>3, <3>4
  <2> QED
    BY <2>1, <2>2
<1>10. PICK t, m : /\ t = Replayed(o)
                   /\ m = IF "EXECUTION" \in o.st /\ o.vol = o.traded THEN 1 ELSE 0
  OBVIOUS
<1>11. /\ AccMoves(c, d, o, -t, t)
       /\ d.unfilled = c.unfilled - m
       /\ t \in Int /\ -t \in Int
  <2>1. CASE "EXECUTION" \in o.st
    <3>1. /\ d = OnTrd(c, o, o.traded) /\ t = o.traded
          /\ m = IF o.vol = o.traded THEN 1 ELSE 0
      BY <1>2, <1>10, <2>1 DEF TrdOf, Replayed
    <3> QED
      BY <1>1, <1>4, <3>1, OnTrdMoves
  <2>2. CASE "EXECUTION" \notin o.st
    <3>1. d = c /\ t = 0 /\ m = 0
      BY <1>2, <1>10, <2>2 DEF TrdOf, Replayed
    <3>5. t \in Int /\ t >= 0 /\ t <= 0
      BY <3>1
    <3>2. -t = 0
      BY <3>5
    <3>3. AccMoves(c, d, o, 0, 0)
      BY <1>4, <3>1, AccMovesNot
    <3>4. d.unfilled = c.unfilled - m /\ t \in Int /\ -t \in Int
      BY <1>7, <3>1, <3>2
    <3> QED
      BY <3>1, <3>2, <3>3, <3>4
  <2> QED
    BY <2>1, <2>2
<1>12. AccMoves(a, c, o, o.vol + (-v), 0 + 0)
  BY <1>1, <1>3, <1>4, <1>6, <1>9, AccMovesThen
<1>13. AccMoves(a, d, o, (o.vol + (-v)) + (-t), (0 + 0) + t)
  <2>1. o.vol + (-v) \in Int /\ 0 + 0 \in Int
    BY <1>1, <1>9
  <2> QED
    BY <1>4, <1>5, <1>11, <1>12, <2>1, AccMovesThen
<1>14. (o.vol + (-v)) + (-t) = Taken(o) - t /\ (0 + 0) + t = t
  <2>1. v \in Int
    BY <1>1, <1>8
  <2>2. o.vol - v = Taken(o) /\ Taken(o) \in Int
    BY <1>1, <1>8 DEF Taken
  <2> QED
    BY <1>1, <1>11, <2>1, <2>2
<1>15. d.unfilled = a.unfilled + Leaves(o)
  <2>1. n \in Int /\ m \in Int
    BY <1>8, <1>10
  <2>2. Leaves(o) = 1 - n - m
    BY <1>8, <1>10 DEF Leaves
  <2> QED
    BY <1>6, <1>7, <1>9, <1>11, <2>1, <2>2
<1> QED
  BY <1>5, <1>10, <1>13, <1>14, <1>15

-----------------------------------------------------------------------------
(* An account that moves by d and t for order o still agrees with the      *)
(* orders, when their shares have changed as much.                         *)
FreeFits(a, o, d, t, new, old, replay, i, s) ==
  \A c \in Closes :
    LET diff == new[c] - old[c]
        by == IF Own(o, i, s) THEN Freed(o.off, c, d, t) ELSE 0
    IN  /\ by <= diff /\ (replay => diff = by)
        /\ 0 <= Free(a.instr[i].side[s], c) + by

IngFits(o, d, new, old, ok, i, s) ==
  \A c \in Offs :
    LET diff == new[c] - old[c]
        by == IF Own(o, i, s) /\ c = o.off THEN d ELSE 0
    IN  diff <= by /\ (ok => diff = by)

SharesOf(kind, i, s, tr, fr, k) ==
  [c \in Offs |-> Shares(kind, i, s, c, tr, fr, k)]

LEMMA FreeKept ==
  ASSUME NEW a \in AccType, NEW b \in AccType, NEW o \in OrderType,
         NEW d \in Int, NEW t \in Int, AccMoves(a, b, o, d, t),
         NEW S \in [Instrs -> PosType],
         NEW tr \in Seq(OrderType), NEW fr \in Seq(FrontType),
         Len(fr) = Len(tr), NEW k \in 0 .. Len(tr),
         NEW tr2 \in Seq(OrderType), NEW fr2 \in Seq(FrontType),
         Len(fr2) = Len(tr2), NEW k2 \in 0 .. Len(tr2),
         NEW replay, NEW i \in Instrs, NEW s \in Sides,
         FreeAgrees(a, S, tr, fr, k, replay, i, s),
         FreeFits(a, o, d, t, SharesOf("free", i, s, tr2, fr2, k2),
                  SharesOf("free", i, s, tr, fr, k), replay, i, s)
  PROVE  FreeAgrees(b, S, tr2, fr2, k2, replay, i, s)
<1> SUFFICES ASSUME NEW c \in Closes
             PROVE  LET most == Stock(S[i], s, c)
                                  + Shares("free", i, s, c, tr2, fr2, k2)
                        free == Free(b.instr[i].side[s], c)
                    IN  0 <= free /\ free <= most /\ (replay => free = most)
  BY DEF FreeAgrees
<1>1. PICK x, y : x = a.instr[i].side[s] /\ y = b.instr[i].side[s]
  OBVIOUS
<1>2. x \in SideType /\ y \in SideType
  BY <1>1, AccSides
<1>3. PICK e, f, p, q, h, by :
        /\ e = Free(x, c) /\ f = Free(y, c)
        /\ p = Shares("free", i, s, c, tr, fr, k)
        /\ q = Shares("free", i, s, c, tr2, fr2, k2)
        /\ h = Stock(S[i], s, c)
        /\ by = IF Own(o, i, s) THEN Freed(o.off, c, d, t) ELSE 0
  OBVIOUS
<1>4. e \in Int /\ f \in Int /\ p \in Int /\ q \in Int
  BY <1>2, <1>3, SideInts, SharesInt
<1>5. h \in Int
  BY <1>3 DEF Stock, PosType
<1>6. by \in Int
  BY <1>3 DEF Freed
<1>7. f = e + by
  <2>1. CASE Own(o, i, s)
    BY <1>1, <1>3, <2>1 DEF AccMoves, Moves
  <2>2. CASE ~Own(o, i, s)
    <3>1. y = x
      BY <1>1, <2>2 DEF AccMoves
    <3> QED
      BY <1>3, <1>4, <2>2, <3>1
  <2> QED
    BY <2>1, <2>2
<1>8. 0 <= e /\ e <= h + p /\ (replay => e = h + p)
  BY <1>1, <1>3 DEF FreeAgrees
<1>9. by <= q - p /\ (replay => q - p = by) /\ 0 <= e + by
  <2>1. c \in Offs
    BY DEF Closes, Offs
  <2> QED
    BY <1>1, <1>3, <2>1 DEF FreeFits, SharesOf
<1>10. 0 <= f /\ f <= h + q /\ (replay => f = h + q)
  BY <1>4, <1>5, <1>6, <1>7, <1>8, <1>9
<1> QED
  BY <1>1, <1>3, <1>10

LEMMA IngKept ==
  ASSUME NEW a \in AccType, NEW b \in AccType, NEW o \in OrderType,
         NEW d \in Int, NEW t \in Int, AccMoves(a, b, o, d, t),
         NEW tr \in Seq(OrderType), NEW fr \in Seq(FrontType),
         Len(fr) = Len(tr), NEW k \in 0 .. Len(tr),
         NEW tr2 \in Seq(OrderType), NEW fr2 \in Seq(FrontType),
         Len(fr2) = Len(tr2), NEW k2 \in 0 .. Len(tr2),
         NEW ok, NEW i \in Instrs, NEW s \in Sides,
         IngAgrees(a, tr, fr, k, ok, i, s),
         IngFits(o, d, SharesOf("ing", i, s, tr2, fr2, k2),
                 SharesOf("ing", i, s, tr, fr, k), ok, i, s)
  PROVE  IngAgrees(b, tr2, fr2, k2, ok, i, s)
<1> SUFFICES ASSUME NEW c \in Offs
             PROVE  LET least == Shares("ing", i, s, c, tr2, fr2, k2)
                        ing == Ing(b.instr[i].side[s], c)
                    IN  least <= ing /\ (ok => ing = least)
  BY DEF IngAgrees
<1>1. PICK x, y : x = a.instr[i].side[s] /\ y = b.instr[i].side[s]
  OBVIOUS
<1>2. x \in SideType /\ y \in SideType
  BY <1>1, AccSides
<1>3. PICK e, f, p, q, by :
        /\ e = Ing(x, c) /\ f = Ing(y, c)
        /\ p = Shares("ing", i, s, c, tr, fr, k)
        /\ q = Shares("ing", i, s, c, tr2, fr2, k2)
        /\ by = IF Own(o, i, s) /\ c = o.off THEN d ELSE 0
  OBVIOUS
<1>4. e \in Int /\ f \in Int /\ p \in Int /\ q \in Int
  BY <1>2, <1>3, SideInts, SharesInt
<1>6. by \in Int
  BY <1>3
<1>7. f = e + by
  <2>1. CASE Own(o, i, s)
    BY <1>1, <1>3, <2>1 DEF AccMoves, Moves
  <2>2. CASE ~Own(o, i, s)
    <3>1. y = x
      BY <1>1, <2>2 DEF AccMoves
    <3> QED
      BY <1>3, <1>4, <2>2, <3>1
  <2> QED
    BY <2>1, <2>2
<1>8. p <= e /\ (ok => e = p)
  BY <1>1, <1>3 DEF IngAgrees
<1>9. q - p <= by /\ (ok => q - p = by)
  BY <1>1, <1>3 DEF IngFits, SharesOf
<1>10. q <= f /\ (ok => f = q)
  BY <1>4, <1>6, <1>7, <1>8, <1>9
<1> QED
  BY <1>1, <1>3, <1>10

LEMMA GainKept ==
  ASSUME NEW a \in AccType, NEW b \in AccType, NEW o \in OrderType,
         NEW d \in Int, NEW t \in Int, AccMoves(a, b, o, d, t),
         NEW S \in [Instrs -> PosType],
         NEW tr \in Seq(OrderType), NEW fr \in Seq(FrontType),
         Len(fr) = Len(tr), NEW k \in 0 .. Len(tr),
         NEW tr2 \in Seq(OrderType), NEW fr2 \in Seq(FrontType),
         Len(fr2) = Len(tr2), NEW k2 \in 0 .. Len(tr2),
         NEW ok, NEW i \in Instrs, NEW s \in Sides,
         GainAgrees(a, S, tr, fr, k, ok, i, s),
         ok => Shares("gain", i, s, "Open", tr2, fr2, k2)
                 - Shares("gain", i, s, "Open", tr, fr, k)
                 = IF Own(o, i, s) THEN Opened(o.off, t) ELSE 0
  PROVE  GainAgrees(b, S, tr2, fr2, k2, ok, i, s)
<1> SUFFICES ASSUME ok
             PROVE  b.instr[i].side[s].pos
                      = S[i][s] + Shares("gain", i, s, "Open", tr2, fr2, k2)
  BY DEF GainAgrees
<1>1. PICK x, y : x = a.instr[i].side[s] /\ y = b.instr[i].side[s]
  OBVIOUS
<1>2. x \in SideType /\ y \in SideType
  BY <1>1, AccSides
<1>3. PICK e, f, p, q, h, by :
        /\ e = x.pos /\ f = y.pos
        /\ p = Shares("gain", i, s, "Open", tr, fr, k)
        /\ q = Shares("gain", i, s, "Open", tr2, fr2, k2)
        /\ h = S[i][s]
        /\ by = IF Own(o, i, s) THEN Opened(o.off, t) ELSE 0
  OBVIOUS
<1>4. e \in Int /\ f \in Int /\ p \in Int /\ q \in Int /\ h \in Int /\ by \in Int
  BY <1>2, <1>3, SideInts, SharesInt DEF PosType, Opened
<1>7. f = e + by
  <2>1. CASE Own(o, i, s)
    BY <1>1, <1>3, <2>1 DEF AccMoves, Moves
  <2>2. CASE ~Own(o, i, s)
    <3>1. y = x
      BY <1>1, <2>2 DEF AccMoves
    <3> QED
      BY <1>3, <1>4, <2>2, <3>1
  <2> QED
    BY <2>1, <2>2
<1>8. e = h + p
  BY <1>1, <1>3 DEF GainAgrees
<1>9. q - p = by
  BY <1>3
<1>10. f = h + q
  BY <1>4, <1>7, <1>8, <1>9
<1> QED
  BY <1>1, <1>3, <1>10

SumsFit(a, u, o, d, t, tr, fr, k, tr2, fr2, k2, replay, ok) ==
  /\ \A i \in Instrs, s \in Sides :
       /\ FreeFits(a, o, d, t, SharesOf("free", i, s, tr2, fr2, k2),
                   SharesOf("free", i, s, tr, fr, k), replay, i, s)
       /\ IngFits(o, d, SharesOf("ing", i, s, tr2, fr2, k2),
                  SharesOf("ing", i, s, tr, fr, k), ok, i, s)
       /\ ok => Shares("gain", i, s, "Open", tr2, fr2, k2)
                  - Shares("gain", i, s, "Open", tr, fr, k)
                  = IF Own(o, i, s) THEN Opened(o.off, t) ELSE 0
  /\ ok => u = a.unfilled
                 + (Shares("unfilled", "any", "any", "any", tr2, fr2, k2)
                    - Shares("unfilled", "any", "any", "any", tr, fr, k))

LEMMA AgreesKept ==
  ASSUME NEW a \in AccType, NEW b \in AccType, NEW o \in OrderType,
         NEW d \in Int, NEW t \in Int, AccMoves(a, b, o, d, t),
         NEW S \in [Instrs -> PosType],
         NEW tr \in Seq(OrderType), NEW fr \in Seq(FrontType),
         Len(fr) = Len(tr), NEW k \in 0 .. Len(tr),
         NEW tr2 \in Seq(OrderType), NEW fr2 \in Seq(FrontType),
         Len(fr2) = Len(tr2), NEW k2 \in 0 .. Len(tr2),
         NEW replay, NEW ok, AccAgrees(a, S, tr, fr, k, replay, ok),
         SumsFit(a, b.unfilled, o, d, t, tr, fr, k, tr2, fr2, k2, replay, ok)
  PROVE  AccAgrees(b, S, tr2, fr2, k2, replay, ok)
<1>1. ASSUME NEW i \in Instrs, NEW s \in Sides
      PROVE  /\ FreeAgrees(b, S, tr2, fr2, k2, replay, i, s)
             /\ IngAgrees(b, tr2, fr2, k2, ok, i, s)
             /\ GainAgrees(b, S, tr2, fr2, k2, ok, i, s)
  <2>1. /\ FreeAgrees(a, S, tr, fr, k, replay, i, s)
        /\ IngAgrees(a, tr, fr, k, ok, i, s)
        /\ GainAgrees(a, S, tr, fr, k, ok, i, s)
    BY DEF AccAgrees
  <2>2. FreeAgrees(b, S, tr2, fr2, k2, replay, i, s)
    BY <2>1, FreeKept DEF SumsFit
  <2>3. IngAgrees(b, tr2, fr2, k2, ok, i, s)
    BY <2>1, IngKept DEF SumsFit
  <2>4. GainAgrees(b, S, tr2, fr2, k2, ok, i, s)
    BY <2>1, GainKept DEF SumsFit
  <2> QED
    BY <2>2, <2>3, <2>4
<1>2. UnfilledAgrees(b, tr2, fr2, k2, ok)
  <2>1. PICK p, q : /\ p = Shares("unfilled", "any", "any", "any", tr, fr, k)
                    /\ q = Shares("unfilled", "any", "any", "any", tr2, fr2, k2)
    OBVIOUS
  <2>2. p \in Int /\ q \in Int
    BY <2>1, SharesInt
  <2>3. ok => a.unfilled = p
    BY <2>1 DEF AccAgrees, UnfilledAgrees
  <2>4. ok => b.unfilled = a.unfilled + (q - p)
    BY <2>1 DEF SumsFit
  <2>5. ok => b.unfilled = q
    BY <2>2, <2>3, <2>4
  <2> QED
    BY <2>1, <2>5 DEF UnfilledAgrees
<1> QED
  BY <1>1, <1>2 DEF AccAgrees

-----------------------------------------------------------------------------
(* The shares of an order of which n lots trade *)
LEMMA TradeShares ==
  ASSUME NEW o \in OrderType, NEW f \in FrontType, NEW n \in Nat,
         f.open, Fits(o, f), o.traded = f.traded, f.traded + n <= o.vol, n > 0,
         NEW o2 \in OrderType, NEW f2 \in FrontType,
         o2.instr = o.instr, o2.dir = o.dir, o2.off = o.off, o2.vol = o.vol,
         o2.traded = o.traded + n,
         o2.st = o.st \cup {"EXECUTION"} \cup
                   (IF o.traded + n >= o.vol THEN {"CLOSED"} ELSE {}),
         f2.traded = o.traded + n, f2.open <=> o.traded + n < o.vol,
         NEW i, NEW s
  PROVE  /\ Own(o2, i, s) <=> Own(o, i, s)
         /\ \A c \in Closes :
              (IF Own(o, i, s) THEN Freed(o.off, c, -n, n) ELSE 0)
                <= Share("free", i, s, c, o2, f2) - Share("free", i, s, c, o, f)
         /\ \A c \in Offs :
              Share("ing", i, s, c, o2, f2) - Share("ing", i, s, c, o, f)
                = IF Own(o, i, s) /\ c = o.off THEN -n ELSE 0
         /\ Share("gain", i, s, "Open", o2, f2) - Share("gain", i, s, "Open", o, f)
              = IF Own(o, i, s) THEN Opened(o.off, n) ELSE 0
         /\ Share("unfilled", i, s, "any", o2, f2) - Share("unfilled", i, s, "any", o, f)
              = -(IF o2.vol = o2.traded THEN 1 ELSE 0)
<1>1. /\ o.vol \in Int /\ o.traded \in Int /\ o.traded >= 0 /\ f.traded = o.traded
      /\ o.off \in Offs /\ n \in Int
  BY AccountAssumption DEF OrderType, FrontType
<1>2. PICK x, y, z, off : x = o.traded /\ y = o.traded + n /\ z = o.vol /\ off = o.off
  OBVIOUS
<1>3. /\ x \in Int /\ y \in Int /\ z \in Int /\ x >= 0 /\ y = x + n /\ y <= z
      /\ off \in Offs
  BY <1>1, <1>2
<1>4. "CLOSED" \notin o.st /\ "EXECUTION" \in o2.st
      /\ ("CLOSED" \in o2.st <=> y = z)
  <2>1. "CLOSED" \notin o.st
    BY DEF Fits
  <2>2. "CLOSED" \in o2.st <=> y >= z
    BY <1>2, <2>1
  <2> QED
    BY <1>3, <2>1, <2>2
<1>5. Own(o2, i, s) <=> Own(o, i, s)
  BY DEF Own
<1>6. Taken(o) = z /\ Taken(o2) = z
  BY <1>2, <1>3, <1>4 DEF Taken
<1>7. CASE ~Own(o, i, s)
  <2>1. \A kind \in {"free", "ing", "gain"}, c \in Offs :
          Share(kind, i, s, c, o2, f2) = 0 /\ Share(kind, i, s, c, o, f) = 0
    BY <1>5, <1>7 DEF Share
  <2>2. Share("unfilled", i, s, "any", o2, f2) - Share("unfilled", i, s, "any", o, f)
              = -(IF o2.vol = o2.traded THEN 1 ELSE 0)
    BY <1>1 DEF Share
  <2>3. /\ "free" \in {"free", "ing", "gain"} /\ "ing" \in {"free", "ing", "gain"}
        /\ "gain" \in {"free", "ing", "gain"} /\ "Open" \in Offs
        /\ Closes \subseteq Offs
    BY DEF Offs, Closes
  <2> QED
    BY <1>5, <1>7, <2>1, <2>2, <2>3
<1>8. CASE Own(o, i, s)
  <2>1. ASSUME NEW c \in Closes
        PROVE  Freed(o.off, c, -n, n)
                 <= Share("free", i, s, c, o2, f2) - Share("free", i, s, c, o, f)
    <3>1. /\ Share("free", i, s, c, o, f)
               = IF off = c THEN -z
                 ELSE IF off = "Open" /\ c = "CloseToday" /\ "EXECUTION" \in o.st
                      THEN x ELSE 0
          /\ Share("free", i, s, c, o2, f2)
               = IF off = c THEN -z
                 ELSE IF off = "Open" /\ c = "CloseToday" THEN y ELSE 0
      BY <1>2, <1>4, <1>5, <1>6, <1>8 DEF Share
    <3>2. /\ off # c \/ Freed(off, c, -n, n) = 0
          /\ off = c \/ Freed(off, c, -n, n)
                          = IF off = "Open" /\ c = "CloseToday" THEN n ELSE 0
      BY DEF Freed
    <3> QED
      BY <1>2, <1>3, <3>1, <3>2
  <2>2. ASSUME NEW c \in Offs
        PROVE  Share("ing", i, s, c, o2, f2) - Share("ing", i, s, c, o, f)
                 = IF c = o.off THEN -n ELSE 0
    <3>1. /\ Share("ing", i, s, c, o, f) = IF off = c THEN z - x ELSE 0
          /\ Share("ing", i, s, c, o2, f2) = IF off = c /\ y < z THEN z - y ELSE 0
      BY <1>2, <1>5, <1>8 DEF Share
    <3> QED
      BY <1>2, <1>3, <3>1
  <2>3. Share("gain", i, s, "Open", o2, f2) - Share("gain", i, s, "Open", o, f)
          = Opened(o.off, n)
    <3>1. /\ Share("gain", i, s, "Open", o, f) = IF off = "Open" THEN x ELSE -x
          /\ Share("gain", i, s, "Open", o2, f2) = IF off = "Open" THEN y ELSE -y
      BY <1>2, <1>5, <1>8 DEF Share
    <3> QED
      BY <1>2, <1>3, <3>1 DEF Opened
  <2>4. Share("unfilled", i, s, "any", o2, f2) - Share("unfilled", i, s, "any", o, f)
              = -(IF o2.vol = o2.traded THEN 1 ELSE 0)
    BY <1>1 DEF Share
  <2> QED
    BY <1>5, <1>8, <2>1, <2>2, <2>3, <2>4
<1> QED
  BY <1>7, <1>8

(* ... of one that is canceled or rejected ... *)
LEMMA ClosedShares ==
  ASSUME NEW o \in OrderType, NEW f \in FrontType,
         f.open, Fits(o, f), o.traded = f.traded,
         NEW o2 \in OrderType, NEW f2 \in FrontType,
         o2.instr = o.instr, o2.dir = o.dir, o2.off = o.off, o2.vol = o.vol,
         o2.traded = o.traded, o2.st = o.st \cup {"CANCELED", "CLOSED"},
         f2.traded = f.traded, ~f2.open,
         NEW i, NEW s
  PROVE  /\ \A c \in Closes :
              Share("free", i, s, c, o2, f2) - Share("free", i, s, c, o, f)
                = IF Own(o, i, s) THEN Freed(o.off, c, -(o.vol - f.traded), 0) ELSE 0
         /\ \A c \in Offs :
              Share("ing", i, s, c, o2, f2) - Share("ing", i, s, c, o, f)
                = IF Own(o, i, s) /\ c = o.off THEN -(o.vol - f.traded) ELSE 0
         /\ Share("gain", i, s, "Open", o2, f2) - Share("gain", i, s, "Open", o, f)
              = IF Own(o, i, s) THEN Opened(o.off, 0) ELSE 0
         /\ Share("unfilled", i, s, "any", o2, f2)
              - Share("unfilled", i, s, "any", o, f) = -1
<1>1. /\ o.vol \in Int /\ o.traded \in Int /\ o.traded >= 0 /\ f.traded = o.traded
      /\ o.off \in Offs
  BY AccountAssumption DEF OrderType, FrontType
<1>2. PICK x, z, off : x = o.traded /\ z = o.vol /\ off = o.off
  OBVIOUS
<1>3. x \in Int /\ z \in Int /\ x >= 0 /\ off \in Offs
  BY <1>1, <1>2
<1>4. /\ "CLOSED" \notin o.st /\ "CLOSED" \in o2.st
      /\ "EXECUTION" \in o2.st <=> "EXECUTION" \in o.st
  BY DEF Fits
<1>5. Own(o2, i, s) <=> Own(o, i, s)
  BY DEF Own
<1>6. Taken(o) = z /\ Taken(o2) = x
  BY <1>2, <1>3, <1>4 DEF Taken
<1>9. Share("unfilled", i, s, "any", o2, f2) - Share("unfilled", i, s, "any", o, f) = -1
  BY <1>1 DEF Share
<1>7. CASE ~Own(o, i, s)
  <2>1. \A kind \in {"free", "ing", "gain"}, c \in Offs :
          Share(kind, i, s, c, o2, f2) = 0 /\ Share(kind, i, s, c, o, f) = 0
    BY <1>5, <1>7 DEF Share
  <2>3. /\ "free" \in {"free", "ing", "gain"} /\ "ing" \in {"free", "ing", "gain"}
        /\ "gain" \in {"free", "ing", "gain"} /\ "Open" \in Offs
        /\ Closes \subseteq Offs
    BY DEF Offs, Closes
  <2> QED
    BY <1>9, <1>7, <2>1, <2>3
<1>8. CASE Own(o, i, s)
  <2>1. ASSUME NEW c \in Closes
        PROVE  Share("free", i, s, c, o2, f2) - Share("free", i, s, c, o, f)
                 = Freed(o.off, c, -(o.vol - f.traded), 0)
    <3>1. PICK e : e = IF off = "Open" /\ c = "CloseToday" /\ "EXECUTION" \in o.st
                       THEN x ELSE 0
      OBVIOUS
    <3>2. /\ Share("free", i, s, c, o, f) = IF off = c THEN -z ELSE e
          /\ Share("free", i, s, c, o2, f2) = IF off = c THEN -x ELSE e
          /\ e \in Int
      BY <1>2, <1>3, <1>4, <1>5, <1>6, <1>8, <3>1 DEF Share
    <3>3. Freed(off, c, -(z - x), 0) = IF off = c THEN z - x ELSE 0
      BY <1>3 DEF Freed
    <3> QED
      BY <1>1, <1>2, <1>3, <3>2, <3>3
  <2>2. ASSUME NEW c \in Offs
        PROVE  Share("ing", i, s, c, o2, f2) - Share("ing", i, s, c, o, f)
                 = IF c = o.off THEN -(o.vol - f.traded) ELSE 0
    <3>1. /\ Share("ing", i, s, c, o, f) = IF off = c THEN z - x ELSE 0
          /\ Share("ing", i, s, c, o2, f2) = 0
      BY <1>1, <1>2, <1>5, <1>8 DEF Share
    <3> QED
      BY <1>1, <1>2, <1>3, <3>1
  <2>3. Share("gain", i, s, "Open", o2, f2) - Share("gain", i, s, "Open", o, f)
          = Opened(o.off, 0)
    <3>1. /\ Share("gain", i, s, "Open", o, f) = IF off = "Open" THEN x ELSE -x
          /\ Share("gain", i, s, "Open", o2, f2) = IF off = "Open" THEN x ELSE -x
      BY <1>2, <1>5, <1>8 DEF Share
    <3> QED
      BY <1>2, <1>3, <3>1 DEF Opened
  <2> QED
    BY <1>8, <1>9, <2>1, <2>2, <2>3
<1> QED
  BY <1>7, <1>8

(* ... of a new one ... *)
LEMMA NewShares ==
  ASSUME NEW o \in OrderType, NEW f \in FrontType, o.traded = 0, f.traded = 0,
         f.open, o.st = {"TDSEND"}, NEW i, NEW s
  PROVE  /\ \A c \in Closes :
              Share("free", i, s, c, o, f)
                = IF Own(o, i, s) THEN Freed(o.off, c, o.vol, 0) ELSE 0
         /\ \A c \in Offs :
              Share("ing", i, s, c, o, f)
                = IF Own(o, i, s) /\ c = o.off THEN o.vol ELSE 0
         /\ Share("gain", i, s, "Open", o, f)
              = IF Own(o, i, s) THEN Opened(o.off, 0) ELSE 0
         /\ Share("unfilled", i, s, "any", o, f) = 1
<1>1. o.vol \in Int /\ o.off \in Offs
  BY AccountAssumption DEF OrderType
<1>2. Taken(o) = o.vol
  BY DEF Taken
<1>3. \A c \in Closes : Share("free", i, s, c, o, f)
                          = IF Own(o, i, s) THEN Freed(o.off, c, o.vol, 0) ELSE 0
  BY <1>1, <1>2 DEF Share, Freed
<1>4. \A c \in Offs : Share("ing", i, s, c, o, f)
                        = IF Own(o, i, s) /\ c = o.off THEN o.vol ELSE 0
  BY <1>1 DEF Share
<1>5. Share("gain", i, s, "Open", o, f)
        = IF Own(o, i, s) THEN Opened(o.off, 0) ELSE 0
  BY <1>1 DEF Share, Opened
<1>6. Share("unfilled", i, s, "any", o, f) = 1
  BY DEF Share
<1> QED
  BY <1>3, <1>4, <1>5, <1>6

(* ... and of one that is replayed. *)
LEMMA ReplayShares ==
  ASSUME NEW o \in OrderType, NEW f \in FrontType, Fits(o, f), o.traded = f.traded,
         NEW ok \in BOOLEAN, ok => Exact(o, f), NEW i, NEW s
  PROVE  /\ \A c \in Closes :
              Share("free", i, s, c, o, f)
                = IF Own(o, i, s)
                  THEN Freed(o.off, c, Taken(o) - Replayed(o), Replayed(o)) ELSE 0
         /\ \A c \in Offs :
              LET by == IF Own(o, i, s) /\ c = o.off
                        THEN Taken(o) - Replayed(o) ELSE 0
              IN  /\ Share("ing", i, s, c, o, f) <= by
                  /\ ok => Share("ing", i, s, c, o, f) = by
         /\ ok => Share("gain", i, s, "Open", o, f)
                    = IF Own(o, i, s) THEN Opened(o.off, Replayed(o)) ELSE 0
         /\ ok => Share("unfilled", i, s, "any", o, f) = Leaves(o)
<1>1. /\ o.vol \in Int /\ o.traded \in Int /\ o.traded >= 0 /\ f.traded = o.traded
      /\ o.off \in Offs /\ o.traded <= o.vol /\ f.open \in BOOLEAN
  BY AccountAssumption DEF OrderType, FrontType, Fits
<1>2. PICK x, z, off : x = o.traded /\ z = o.vol /\ off = o.off
  OBVIOUS
<1>3. x \in Int /\ z \in Int /\ x >= 0 /\ off \in Offs /\ x <= z
  BY <1>1, <1>2
<1>4. PICK e, cl \in BOOLEAN : (e <=> "EXECUTION" \in o.st) /\ (cl <=> "CLOSED" \in o.st)
  OBVIOUS
<1>5. /\ Taken(o) = IF cl THEN x ELSE z
      /\ Replayed(o) = IF e THEN x ELSE 0
      /\ cl => ~f.open
      /\ f.open => x < z
      /\ ok => (e <=> x > 0) /\ (cl <=> ~f.open)
  BY <1>1, <1>2, <1>4 DEF Taken, Replayed, Fits, Exact
<1>6. ASSUME NEW c \in Closes, Own(o, i, s)
      PROVE  Share("free", i, s, c, o, f)
               = Freed(o.off, c, Taken(o) - Replayed(o), Replayed(o))
  <2>1. PICK p, q : p = Taken(o) /\ q = Replayed(o)
    OBVIOUS
  <2>2. p \in Int /\ q \in Int
    BY <1>3, <1>5, <2>1
  <2>3. Share("free", i, s, c, o, f)
          = IF off = c THEN -p
            ELSE IF off = "Open" /\ c = "CloseToday" THEN q ELSE 0
    BY <1>2, <1>4, <1>5, <1>6, <2>1 DEF Share
  <2> QED
    BY <1>2, <2>1, <2>2, <2>3 DEF Freed
<1>7. ASSUME NEW c \in Offs, Own(o, i, s), c = off
      PROVE  /\ Share("ing", i, s, c, o, f) <= Taken(o) - Replayed(o)
             /\ ok => Share("ing", i, s, c, o, f) = Taken(o) - Replayed(o)
  <2>1. Share("ing", i, s, c, o, f) = IF f.open THEN z - x ELSE 0
    BY <1>1, <1>2, <1>7 DEF Share
  <2> QED
    BY <1>3, <1>5, <2>1
<1>8. ASSUME NEW c \in Offs, ~(Own(o, i, s) /\ c = off)
      PROVE  Share("ing", i, s, c, o, f) = 0
  BY <1>2, <1>8 DEF Share
<1>9. ASSUME Own(o, i, s), ok
      PROVE  Share("gain", i, s, "Open", o, f) = Opened(o.off, Replayed(o))
  <2>1. Replayed(o) = x
    BY <1>3, <1>5, <1>9
  <2> QED
    BY <1>2, <1>9, <2>1 DEF Share, Opened
<1>10. ASSUME ok
       PROVE  Share("unfilled", i, s, "any", o, f) = Leaves(o)
  <2>1. Share("unfilled", i, s, "any", o, f) = IF f.open THEN 1 ELSE 0
    BY DEF Share
  <2>2. Leaves(o) = 1 - (IF cl /\ z # x THEN 1 ELSE 0) - (IF e /\ z = x THEN 1 ELSE 0)
    BY <1>2, <1>4 DEF Leaves
  <2>3. z > 0
    BY <1>2 DEF OrderType
  <2>4. (cl <=> ~f.open) /\ (e <=> x > 0)
    BY <1>5, <1>10
  <2>5. CASE f.open
    BY <1>3, <1>5, <2>1, <2>2, <2>3, <2>4, <2>5
  <2>6. CASE ~f.open
    BY <1>3, <1>5, <2>1, <2>2, <2>3, <2>4, <2>6
  <2> QED
    BY <2>5, <2>6
<1>11. ASSUME ~Own(o, i, s)
       PROVE  /\ \A c \in Closes : Share("free", i, s, c, o, f) = 0
              /\ Share("gain", i, s, "Open", o, f) = 0
  BY <1>11 DEF Share
<1>12. \A c \in Offs :
         LET by == IF Own(o, i, s) /\ c = o.off
                   THEN Taken(o) - Replayed(o) ELSE 0
         IN  /\ Share("ing", i, s, c, o, f) <= by
             /\ ok => Share("ing", i, s, c, o, f) = by
  BY <1>2, <1>7, <1>8
<1> QED
  BY <1>6, <1>9, <1>10, <1>11, <1>12

-----------------------------------------------------------------------------
(* The shares of order o, known as f, that becomes o2, known as f2, change *)
(* as the account does: by d, t and u.                                     *)
SharesFit(o1, d, t, u, o, f, o2, f2) ==
  \A i, s :
    /\ \A c \in Closes :
         LET by == IF Own(o1, i, s) THEN Freed(o1.off, c, d, t) ELSE 0
         IN  /\ by <= Share("free", i, s, c, o2, f2) - Share("free", i, s, c, o, f)
             /\ 0 <= by
    /\ \A c \in Offs :
         Share("ing", i, s, c, o2, f2) - Share("ing", i, s, c, o, f)
           = IF Own(o1, i, s) /\ c = o1.off THEN d ELSE 0
    /\ Share("gain", i, s, "Open", o2, f2) - Share("gain", i, s, "Open", o, f)
         = IF Own(o1, i, s) THEN Opened(o1.off, t) ELSE 0
    /\ Share("unfilled", i, s, "any", o2, f2)
         - Share("unfilled", i, s, "any", o, f) = u

(* The positions change by d, for order o. *)
GainsBy(tr2, fr2, n, tr, fr, k, o, d) ==
  \A i, s : Shares("gain", i, s, "Open", tr2, fr2, n)
              = Shares("gain", i, s, "Open", tr, fr, k)
                  + (IF Own(o, i, s) THEN d ELSE 0)

(* The sums of the shares when one order changes *)
LEMMA ChangeShares ==
  ASSUME NEW tr \in Seq(OrderType), NEW fr \in Seq(FrontType),
         Len(fr) = Len(tr), NEW r \in 1 .. Len(tr),
         NEW o2 \in OrderType, NEW f2 \in FrontType,
         NEW tr2, Changed(tr2, tr, r, o2), NEW fr2, Changed(fr2, fr, r, f2),
         NEW n, n = Len(tr),
         NEW kind, NEW i, NEW s, NEW c, NEW m \in 0 .. n
  PROVE  /\ m < r => Shares(kind, i, s, c, tr2, fr2, m)
                        = Shares(kind, i, s, c, tr, fr, m)
         /\ m >= r => Shares(kind, i, s, c, tr2, fr2, m)
                         = Shares(kind, i, s, c, tr, fr, m)
                             - Share(kind, i, s, c, tr[r], fr[r])
                             + Share(kind, i, s, c, o2, f2)
         /\ Shares(kind, i, s, c, tr2, fr2, n) - Shares(kind, i, s, c, tr, fr, n)
              = Share(kind, i, s, c, o2, f2) - Share(kind, i, s, c, tr[r], fr[r])
<1>2. /\ n \in Nat /\ r \in 1 .. n /\ n \in 0 .. Len(tr)
      /\ tr[r] \in OrderType /\ fr[r] \in FrontType
  OBVIOUS
<1>3. ASSUME NEW k \in 0 .. n
      PROVE  /\ k < r => Shares(kind, i, s, c, tr2, fr2, k)
                           = Shares(kind, i, s, c, tr, fr, k)
             /\ k >= r => Shares(kind, i, s, c, tr2, fr2, k)
                            = Shares(kind, i, s, c, tr, fr, k)
                                - Share(kind, i, s, c, tr[r], fr[r])
                                + Share(kind, i, s, c, o2, f2)
  <2>1. CASE k < r
    <3>1. \A q \in 1 .. k : Share(kind, i, s, c, tr2[q], fr2[q])
                              = Share(kind, i, s, c, tr[q], fr[q])
      <4>1. \A q \in 1 .. k : tr2[q] = tr[q] /\ fr2[q] = fr[q]
        BY <1>2, <2>1 DEF Changed
      <4> QED
        BY <4>1
    <3>2. k \in Nat
      BY <1>2
    <3>3. Shares(kind, i, s, c, tr2, fr2, k) = Shares(kind, i, s, c, tr, fr, k)
      BY SMTT(30), <3>1, <3>2, SharesSame
    <3> QED
      BY <1>2, <2>1, <3>3
  <2>2. CASE k >= r
    <3>1. r \in 1 .. k /\ k \in 0 .. Len(tr)
      BY <1>2, <2>2
    <3>2. Shares(kind, i, s, c, tr2, fr2, k)
            = Shares(kind, i, s, c, tr, fr, k)
                - Share(kind, i, s, c, tr[r], fr[r])
                + Share(kind, i, s, c, o2, f2)
      BY <3>1, SharesChange
    <3> QED
      BY <1>2, <2>2, <3>2
  <2> QED
    BY <1>2, <2>1, <2>2
<1>4. Shares(kind, i, s, c, tr2, fr2, n) - Shares(kind, i, s, c, tr, fr, n)
               = Share(kind, i, s, c, o2, f2) - Share(kind, i, s, c, tr[r], fr[r])
  <2>1. n >= r /\ n \in 0 .. n
    BY <1>2
  <2>2. PICK p, q, x, y : /\ p = Shares(kind, i, s, c, tr, fr, n)
                          /\ q = Shares(kind, i, s, c, tr2, fr2, n)
                          /\ x = Share(kind, i, s, c, tr[r], fr[r])
                          /\ y = Share(kind, i, s, c, o2, f2)
    OBVIOUS
  <2>3. p \in Int /\ x \in Int /\ y \in Int
    BY <1>2, <2>2, SharesInt, ShareInt
  <2>4. q = p - x + y
    BY <1>3, <2>1, <2>2
  <2>5. q - p = y - x
    BY <2>3, <2>4
  <2> QED
    BY <2>2, <2>5
<1> QED
  BY <1>3, <1>4

(* One order changes, of an account that was told of all of them. *)
LEMMA ChangeKeeps ==
  ASSUME NEW a \in AccType, NEW b \in AccType,
         NEW S \in [Instrs -> PosType],
         NEW tr \in Seq(OrderType), NEW fr \in Seq(FrontType),
         Len(fr) = Len(tr), NEW r \in 1 .. Len(tr),
         NEW o2 \in OrderType, NEW f2 \in FrontType,
         NEW tr2, Changed(tr2, tr, r, o2), NEW fr2, Changed(fr2, fr, r, f2),
         NEW o \in OrderType, NEW d \in Int, NEW t \in Int, AccMoves(a, b, o, d, t),
         NEW replay, ~replay, NEW ok,
         AccAgrees(a, S, tr, fr, Len(tr), replay, ok), RoomKept(S, tr, fr),
         SharesFit(o, d, t, b.unfilled - a.unfilled, tr[r], fr[r], o2, f2)
  PROVE  /\ AccAgrees(b, S, tr2, fr2, Len(tr), replay, ok)
         /\ RoomKept(S, tr2, fr2)
         /\ GainsBy(tr2, fr2, Len(tr), tr, fr, Len(tr), o, Opened(o.off, t))
<1>1. PICK n : n = Len(tr)
  OBVIOUS
<1>2. /\ tr2 \in Seq(OrderType) /\ fr2 \in Seq(FrontType)
      /\ Len(tr2) = n /\ Len(fr2) = n /\ n \in Nat /\ r \in 1 .. n
      /\ n \in 0 .. Len(tr) /\ n \in 0 .. Len(tr2)
      /\ tr[r] \in OrderType /\ fr[r] \in FrontType
  BY <1>1 DEF Changed
<1>3. ASSUME NEW kind, NEW i, NEW s, NEW c, NEW m \in 0 .. n
      PROVE  /\ m < r => Shares(kind, i, s, c, tr2, fr2, m)
                            = Shares(kind, i, s, c, tr, fr, m)
             /\ m >= r => Shares(kind, i, s, c, tr2, fr2, m)
                             = Shares(kind, i, s, c, tr, fr, m)
                                 - Share(kind, i, s, c, tr[r], fr[r])
                                 + Share(kind, i, s, c, o2, f2)
  BY <1>1, ChangeShares
<1>4. ASSUME NEW kind, NEW i, NEW s, NEW c
      PROVE  Shares(kind, i, s, c, tr2, fr2, n) - Shares(kind, i, s, c, tr, fr, n)
               = Share(kind, i, s, c, o2, f2) - Share(kind, i, s, c, tr[r], fr[r])
  BY <1>1, <1>2, ChangeShares
<1>5. ASSUME NEW i \in Instrs, NEW s \in Sides
      PROVE  FreeFits(a, o, d, t, SharesOf("free", i, s, tr2, fr2, n),
                      SharesOf("free", i, s, tr, fr, n), replay, i, s)
  <2>1. SUFFICES ASSUME NEW c \in Closes
                 PROVE  LET diff == Shares("free", i, s, c, tr2, fr2, n)
                                      - Shares("free", i, s, c, tr, fr, n)
                            by == IF Own(o, i, s) THEN Freed(o.off, c, d, t) ELSE 0
                        IN  by <= diff /\ 0 <= Free(a.instr[i].side[s], c) + by
    <3>1. Closes \subseteq Offs
      BY DEF Closes, Offs
    <3> QED
      BY <2>1, <3>1 DEF FreeFits, SharesOf
  <2>2. PICK by, e : /\ by = IF Own(o, i, s) THEN Freed(o.off, c, d, t) ELSE 0
                     /\ e = Free(a.instr[i].side[s], c)
    OBVIOUS
  <2>3. by \in Int /\ 0 <= by
    <3>1. by \in Int
      BY <2>2 DEF Freed
    <3>2. 0 <= by
      BY <2>2 DEF SharesFit
    <3> QED
      BY <3>1, <3>2
  <2>4. e \in Int /\ 0 <= e
    <3>1. e \in Int
      BY <2>2, AccSides, SideInts
    <3>2. FreeAgrees(a, S, tr, fr, Len(tr), replay, i, s)
      BY DEF AccAgrees
    <3> QED
      BY <2>2, <3>1, <3>2 DEF FreeAgrees
  <2>5. 0 <= e + by
    BY <2>3, <2>4
  <2>6. by <= Share("free", i, s, c, o2, f2) - Share("free", i, s, c, tr[r], fr[r])
    BY <2>2 DEF SharesFit
  <2> QED
    BY <1>4, <2>2, <2>5, <2>6
<1>6. ASSUME NEW i \in Instrs, NEW s \in Sides
      PROVE  IngFits(o, d, SharesOf("ing", i, s, tr2, fr2, n),
                     SharesOf("ing", i, s, tr, fr, n), ok, i, s)
  <2>1. \A c \in Offs : Shares("ing", i, s, c, tr2, fr2, n)
                          - Shares("ing", i, s, c, tr, fr, n)
                          = IF Own(o, i, s) /\ c = o.off THEN d ELSE 0
    BY <1>4 DEF SharesFit
  <2>2. \A c \in Offs : LET by == IF Own(o, i, s) /\ c = o.off THEN d ELSE 0
                        IN  by <= by
    OBVIOUS
  <2> QED
    BY <2>1, <2>2 DEF IngFits, SharesOf
<1>7. \A i, s : Shares("gain", i, s, "Open", tr2, fr2, n)
                  - Shares("gain", i, s, "Open", tr, fr, n)
                  = IF Own(o, i, s) THEN Opened(o.off, t) ELSE 0
  BY <1>4 DEF SharesFit
<1>8. b.unfilled = a.unfilled
                     + (Shares("unfilled", "any", "any", "any", tr2, fr2, n)
                        - Shares("unfilled", "any", "any", "any", tr, fr, n))
  <2>1. Shares("unfilled", "any", "any", "any", tr2, fr2, n)
          - Shares("unfilled", "any", "any", "any", tr, fr, n)
          = b.unfilled - a.unfilled
    BY <1>4 DEF SharesFit
  <2>2. a.unfilled \in Int /\ b.unfilled \in Int
    BY DEF AccType
  <2> QED
    BY <2>1, <2>2
<1>9. AccAgrees(b, S, tr2, fr2, n, replay, ok)
  <2>1. AccAgrees(a, S, tr, fr, n, replay, ok) /\ Len(fr2) = Len(tr2)
    BY <1>1, <1>2
  <2>2. SumsFit(a, b.unfilled, o, d, t, tr, fr, n, tr2, fr2, n, replay, ok)
    BY <1>5, <1>6, <1>7, <1>8 DEF SumsFit
  <2> QED
    BY <1>2, <2>1, <2>2, AgreesKept
<1>10. RoomKept(S, tr2, fr2)
  <2>1. SUFFICES ASSUME NEW i \in Instrs, NEW s \in Sides, NEW c \in Closes,
                        NEW k \in 0 .. n
                 PROVE  Stock(S[i], s, c) + Shares("free", i, s, c, tr2, fr2, k) >= 0
    BY <1>2 DEF RoomKept
  <2>2. PICK h, p, q, x, y :
          /\ h = Stock(S[i], s, c)
          /\ p = Shares("free", i, s, c, tr, fr, k)
          /\ q = Shares("free", i, s, c, tr2, fr2, k)
          /\ x = Share("free", i, s, c, tr[r], fr[r])
          /\ y = Share("free", i, s, c, o2, f2)
    OBVIOUS
  <2>3. p \in Int /\ x \in Int /\ y \in Int
    BY <1>1, <1>2, <2>2, SharesInt, ShareInt
  <2>4. h \in Int
    BY <2>2 DEF Stock, PosType
  <2>5. h + p >= 0
    BY <1>1, <2>2 DEF RoomKept
  <2>6. y >= x
    <3>1. PICK by : by = IF Own(o, i, s) THEN Freed(o.off, c, d, t) ELSE 0
      OBVIOUS
    <3>2. by \in Int
      BY <3>1 DEF Freed
    <3>3. by <= y - x /\ 0 <= by
      BY <2>2, <3>1 DEF SharesFit
    <3> QED
      BY <2>3, <3>2, <3>3
  <2>7. (k < r => q = p) /\ (k >= r => q = p - x + y)
    BY <1>3, <2>2
  <2>8. h + q >= 0
    BY <1>2, <2>3, <2>4, <2>5, <2>6, <2>7
  <2> QED
    BY <2>2, <2>8
<1>11. ASSUME NEW i, NEW s
       PROVE  Shares("gain", i, s, "Open", tr2, fr2, n)
                = Shares("gain", i, s, "Open", tr, fr, n)
                    + (IF Own(o, i, s) THEN Opened(o.off, t) ELSE 0)
  <2>1. PICK p, q : /\ p = Shares("gain", i, s, "Open", tr, fr, n)
                    /\ q = Shares("gain", i, s, "Open", tr2, fr2, n)
    OBVIOUS
  <2>2. p \in Int /\ q \in Int
    BY <1>2, <2>1, SharesInt
  <2>3. q - p = IF Own(o, i, s) THEN Opened(o.off, t) ELSE 0
    BY <1>7, <2>1
  <2>4. q = p + (q - p)
    BY <2>2
  <2> QED
    BY <2>1, <2>3, <2>4
<1> QED
  BY <1>1, <1>9, <1>10, <1>11 DEF GainsBy

-----------------------------------------------------------------------------
(* What a step starts from *)
LEMMA OrderFacts ==
  ASSUME Parts, SharesOK, NEW r \in DOMAIN track, up # "down"
  PROVE  /\ r \in 1 .. Len(track) /\ Len(front) = Len(track)
         /\ track \in Seq(OrderType) /\ front \in Seq(FrontType)
         /\ track[r] \in OrderType /\ front[r] \in FrontType
         /\ Fits(track[r], front[r]) /\ track[r].traded = front[r].traded
         /\ missed = 0 => Exact(track[r], front[r])
         /\ saved.instr \in [Instrs -> PosType] /\ held \in [Instrs -> PosType]
         /\ Now \in AccType
BY NowGood DEF Parts, OrdersOK, SavedOK, TracksCount, SharesOK, OrdersFit

LEMMA NowBecomes ==
  ASSUME NEW a \in AccType, Becomes(a)
  PROVE  Now' = a
<1>1. a = [instr |-> a.instr, prd |-> a.prd, unfilled |-> a.unfilled]
  BY DEF AccType
<1> QED
  BY <1>1 DEF Becomes, Now, Account

(* The orders still fit when one of them changes. *)
LEMMA FitKept ==
  ASSUME NEW tr \in Seq(OrderType), NEW fr \in Seq(FrontType), Len(fr) = Len(tr),
         NEW ok, OrdersFit(tr, fr, ok), NEW r \in 1 .. Len(tr),
         NEW o, NEW f, Fits(o, f), ok => Exact(o, f),
         NEW tr2, Changed(tr2, tr, r, o), NEW fr2, Changed(fr2, fr, r, f)
  PROVE  OrdersFit(tr2, fr2, ok)
<1>1. Len(tr2) = Len(tr)
  BY DEF Changed
<1>2. ASSUME NEW q \in 1 .. Len(tr)
      PROVE  Fits(tr2[q], fr2[q]) /\ (ok => Exact(tr2[q], fr2[q]))
  <2>1. CASE q = r
    BY <2>1 DEF Changed
  <2>2. CASE q # r
    <3>1. tr2[q] = tr[q] /\ fr2[q] = fr[q]
      BY <2>2 DEF Changed
    <3> QED
      BY <3>1 DEF OrdersFit
  <2> QED
    BY <2>1, <2>2
<1> QED
  BY <1>1, <1>2 DEF OrdersFit

(* The positions at the front change with what is traded. *)
LEMMA HeldKept ==
  ASSUME NEW H \in [Instrs -> PosType], NEW S \in [Instrs -> PosType],
         NEW tr \in Seq(OrderType), NEW fr \in Seq(FrontType), Len(fr) = Len(tr),
         HeldAgrees(H, S, tr, fr), NEW o \in OrderType, NEW d \in Int,
         NEW tr2, NEW fr2, NEW n, n = Len(tr2),
         GainsBy(tr2, fr2, n, tr, fr, Len(tr), o, d),
         NEW H2, H2 = [H EXCEPT ![o.instr][SideOf(o.dir, o.off)] = @ + d]
  PROVE  HeldAgrees(H2, S, tr2, fr2)
<1>1. SUFFICES ASSUME NEW i \in Instrs, NEW s \in Sides
               PROVE  H2[i][s] = S[i][s] + Shares("gain", i, s, "Open", tr2, fr2, n)
  BY DEF HeldAgrees
<1>2. H2[i][s] = H[i][s] + (IF Own(o, i, s) THEN d ELSE 0)
  <2>1. PICK j, w : j = o.instr /\ w = SideOf(o.dir, o.off)
    OBVIOUS
  <2>2. H2 = [H EXCEPT ![j][w] = @ + d] /\ (Own(o, i, s) <=> j = i /\ w = s)
    BY <2>1 DEF Own
  <2>3. /\ j \in Instrs /\ w \in Sides /\ H[i][s] \in Int
        /\ H[i] \in [Sides -> Int]
    BY <2>1, SideOfType DEF OrderType, PosType
  <2>4. H2[i] = IF j = i THEN [H[i] EXCEPT ![w] = @ + d] ELSE H[i]
    BY <2>2, <2>3
  <2>5. CASE j = i /\ w = s
    BY <2>2, <2>3, <2>4, <2>5
  <2>6. CASE ~(j = i /\ w = s)
    <3>1. H2[i][s] = H[i][s]
      BY <2>3, <2>4, <2>6
    <3> QED
      BY <2>2, <2>3, <2>6, <3>1
  <2> QED
    BY <2>5, <2>6
<1>3. PICK p, e : /\ p = Shares("gain", i, s, "Open", tr, fr, Len(tr))
                  /\ e = IF Own(o, i, s) THEN d ELSE 0
  OBVIOUS
<1>4. p \in Int /\ e \in Int /\ S[i][s] \in Int
  <2>1. Len(tr) \in 0 .. Len(tr)
    OBVIOUS
  <2> QED
    BY SMTT(30), <1>3, <2>1, SharesInt DEF PosType
<1>5. H[i][s] = S[i][s] + p
  BY <1>3 DEF HeldAgrees
<1>6. Shares("gain", i, s, "Open", tr2, fr2, n) = p + e
  BY <1>3 DEF GainsBy
<1>7. H2[i][s] = (S[i][s] + p) + e
  BY <1>2, <1>3, <1>5
<1> QED
  BY <1>4, <1>6, <1>7

LEMMA OnRtnTradeShares ==
  ASSUME Parts, SharesOK, NEW r \in DOMAIN track, NEW n \in 1 .. MaxVol,
         OnRtnTrade(r, n)
  PROVE  SharesOK'
<1>1. PICK o, f, total : o = track[r] /\ f = front[r] /\ total = o.traded + n
  OBVIOUS
<1>2. up = "up"
  BY DEF OnRtnTrade
<1>3. /\ r \in 1 .. Len(track) /\ Len(front) = Len(track)
      /\ track \in Seq(OrderType) /\ front \in Seq(FrontType)
      /\ o \in OrderType /\ f \in FrontType
      /\ Fits(o, f) /\ o.traded = f.traded
      /\ missed = 0 => Exact(o, f)
      /\ saved.instr \in [Instrs -> PosType] /\ held \in [Instrs -> PosType]
      /\ Now \in AccType
  BY <1>1, <1>2, OrderFacts
<1>4. PICK s2 : s2 = o.st \cup {"EXECUTION"} \cup
                       (IF total >= o.vol THEN {"CLOSED"} ELSE {})
  OBVIOUS
<1>5. PICK o2, f2 : /\ o2 = [o EXCEPT !.traded = total, !.st = s2]
                    /\ f2 = [traded |-> total, open |-> total < o.vol]
  OBVIOUS
<1>6. /\ f.open /\ total <= o.vol
      /\ front' = [front EXCEPT ![r] = f2]
      /\ held' = [held EXCEPT ![o.instr][SideOf(o.dir, o.off)] =
                    @ + Opened(o.off, n)]
      /\ track' = [track EXCEPT ![r] = o2]
      /\ Becomes(OnTrd(Now, o2, n))
      /\ UNCHANGED <<up, saved, next, day, crashes, missed>>
  BY <1>1, <1>3, <1>4, <1>5 DEF OnRtnTrade, FrontTrades, Opened
<1>7. /\ n \in Int /\ n \in Nat /\ n > 0 /\ total \in Int
      /\ o.vol \in Int /\ o.traded \in Nat
  BY <1>1, <1>3, AccountAssumption DEF OrderType
<1>8. /\ o2.instr = o.instr /\ o2.dir = o.dir /\ o2.off = o.off /\ o2.vol = o.vol
      /\ o2.traded = total /\ o2.st = s2
      /\ f2.traded = total /\ (f2.open <=> total < o.vol)
  BY <1>3, <1>5 DEF OrderType
<1>9. Parts'
  BY OnRtnTradeStep
<1>10. o2 \in OrderType /\ f2 \in FrontType
  <2>1. track'[r] = o2 /\ front'[r] = f2 /\ r \in DOMAIN track' /\ r \in DOMAIN front'
    BY <1>3, <1>6
  <2>2. track' \in Seq(OrderType) /\ front' \in Seq(FrontType)
    BY <1>9 DEF Parts, OrdersOK
  <2> QED
    BY <2>1, <2>2
<1>11. Fits(o2, f2)
  BY <1>3, <1>4, <1>6, <1>7, <1>8 DEF Fits
<1>12. missed = 0 => Exact(o2, f2)
  <2>1. ASSUME Exact(o, f) PROVE Exact(o2, f2)
    <3>1. "CANCELED" \notin o2.st
      BY <1>4, <1>6, <1>8, <2>1 DEF Exact
    <3>2. "EXECUTION" \in o2.st /\ o2.traded > 0
      BY <1>1, <1>4, <1>7, <1>8
    <3>3. "CLOSED" \in o2.st <=> total >= o.vol
      BY <1>3, <1>4, <1>6, <1>8 DEF Fits
    <3> QED
      BY <1>6, <1>7, <1>8, <3>1, <3>2, <3>3 DEF Exact
  <2> QED
    BY <1>3, <2>1
<1>13. Changed(track', track, r, o2) /\ Changed(front', front, r, f2)
  BY <1>6 DEF Changed
<1>14. PICK a, b : a = Now /\ b = OnTrd(Now, o2, n)
  OBVIOUS
<1>15. /\ a \in AccType /\ b \in AccType /\ b = Now'
       /\ AccMoves(a, b, o2, -n, n)
       /\ b.unfilled = a.unfilled - (IF o2.vol = o2.traded THEN 1 ELSE 0)
  BY <1>3, <1>6, <1>7, <1>10, <1>14, OnTrdGood, OnTrdMoves, NowBecomes
<1>16. SharesFit(o2, -n, n, b.unfilled - a.unfilled, o, f, o2, f2)
  <2>1. SUFFICES ASSUME NEW i, NEW s
                 PROVE  /\ \A c \in Closes :
                             LET by == IF Own(o2, i, s) THEN Freed(o2.off, c, -n, n)
                                       ELSE 0
                             IN  /\ by <= Share("free", i, s, c, o2, f2)
                                            - Share("free", i, s, c, o, f)
                                 /\ 0 <= by
                        /\ \A c \in Offs :
                             Share("ing", i, s, c, o2, f2) - Share("ing", i, s, c, o, f)
                               = IF Own(o2, i, s) /\ c = o2.off THEN -n ELSE 0
                        /\ Share("gain", i, s, "Open", o2, f2)
                             - Share("gain", i, s, "Open", o, f)
                             = IF Own(o2, i, s) THEN Opened(o2.off, n) ELSE 0
                        /\ Share("unfilled", i, s, "any", o2, f2)
                             - Share("unfilled", i, s, "any", o, f)
                             = b.unfilled - a.unfilled
    BY DEF SharesFit
  <2>2. /\ Own(o2, i, s) <=> Own(o, i, s)
        /\ \A c \in Closes :
             (IF Own(o, i, s) THEN Freed(o.off, c, -n, n) ELSE 0)
               <= Share("free", i, s, c, o2, f2) - Share("free", i, s, c, o, f)
        /\ \A c \in Offs :
             Share("ing", i, s, c, o2, f2) - Share("ing", i, s, c, o, f)
               = IF Own(o, i, s) /\ c = o.off THEN -n ELSE 0
        /\ Share("gain", i, s, "Open", o2, f2) - Share("gain", i, s, "Open", o, f)
             = IF Own(o, i, s) THEN Opened(o.off, n) ELSE 0
        /\ Share("unfilled", i, s, "any", o2, f2) - Share("unfilled", i, s, "any", o, f)
             = -(IF o2.vol = o2.traded THEN 1 ELSE 0)
    <3>1. /\ o.traded + n = total /\ f.traded + n <= o.vol /\ f.open
          /\ o2.st = o.st \cup {"EXECUTION"} \cup
                       (IF o.traded + n >= o.vol THEN {"CLOSED"} ELSE {})
      BY <1>1, <1>3, <1>4, <1>6, <1>8
    <3>2. /\ o \in OrderType /\ f \in FrontType /\ Fits(o, f)
          /\ o.traded = f.traded /\ n \in Nat /\ n > 0
          /\ o2 \in OrderType /\ f2 \in FrontType
      BY <1>3, <1>7, <1>10
    <3>3. /\ o2.instr = o.instr /\ o2.dir = o.dir /\ o2.off = o.off
          /\ o2.vol = o.vol /\ o2.traded = o.traded + n
          /\ f2.traded = o.traded + n /\ (f2.open <=> o.traded + n < o.vol)
      BY <1>8, <3>1
    <3> QED
      BY <3>1, <3>2, <3>3, TradeShares
  <2>3. \A c \in Closes : 0 <= Freed(o.off, c, -n, n)
    BY <1>7 DEF Freed
  <2>4. b.unfilled - a.unfilled = -(IF o2.vol = o2.traded THEN 1 ELSE 0)
    <3>1. a.unfilled \in Int
      BY <1>15 DEF AccType
    <3> QED
      BY <1>15, <3>1
  <2> QED
    BY <1>8, <2>2, <2>3, <2>4
<1>17. /\ AccAgrees(b, saved.instr, track', front', Len(track), up = "replay",
                    missed = 0)
       /\ RoomKept(saved.instr, track', front')
       /\ GainsBy(track', front', Len(track), track, front, Len(track), o2,
                  Opened(o2.off, n))
  <2>1. /\ AccAgrees(a, saved.instr, track, front, Len(track), up = "replay",
                     missed = 0)
        /\ RoomKept(saved.instr, track, front)
    BY <1>2, <1>14 DEF SharesOK, Told
  <2>2. -n \in Int /\ up # "replay"
    BY <1>2, <1>7
  <2>3. PICK rp, ok \in BOOLEAN : rp = (up = "replay") /\ ok = (missed = 0)
    OBVIOUS
  <2>4. PICK S : S = saved.instr
    OBVIOUS
  <2>5. /\ AccAgrees(a, S, track, front, Len(track), rp, ok)
        /\ RoomKept(S, track, front) /\ ~rp /\ S \in [Instrs -> PosType]
    BY <1>3, <2>1, <2>2, <2>3, <2>4
  <2>6. SharesFit(o2, -n, n, b.unfilled - a.unfilled, track[r], front[r], o2, f2)
    BY <1>1, <1>16
  <2>7. /\ AccAgrees(b, S, track', front', Len(track), rp, ok)
        /\ RoomKept(S, track', front')
        /\ GainsBy(track', front', Len(track), track, front, Len(track), o2,
                   Opened(o2.off, n))
    BY ZenonT(60), <1>3, <1>7, <1>10, <1>13, <1>15, <2>2, <2>5, <2>6, ChangeKeeps
  <2> QED
    BY <2>3, <2>4, <2>7
<1>18. OrdersFit(track', front', missed = 0)
  BY <1>3, <1>11, <1>12, <1>13, FitKept DEF SharesOK
<1>19. missed = 0 => HeldAgrees(held', saved.instr, track', front')
  <2>1. Opened(o2.off, n) \in Int
    BY <1>7 DEF Opened
  <2>2. Len(track) = Len(track')
    BY <1>3, <1>6
  <2>3. held' = [held EXCEPT ![o2.instr][SideOf(o2.dir, o2.off)] =
                   @ + Opened(o2.off, n)]
    BY <1>6, <1>8
  <2> QED
    BY <1>3, <1>10, <1>17, <2>1, <2>2, <2>3, HeldKept DEF SharesOK
<1>20. Told' = Len(track) /\ Len(track') = Len(track) /\ Len(track) \in 0 .. Len(track)
  BY <1>2, <1>3, <1>6 DEF Told
<1> QED
  BY <1>2, <1>6, <1>15, <1>17, <1>18, <1>19, <1>20 DEF SharesOK

LEMMA OnRtnClosedShares ==
  ASSUME Parts, SharesOK, NEW r \in DOMAIN track, OnRtnClosed(r)
  PROVE  SharesOK'
<1>1. PICK o, f : o = track[r] /\ f = front[r]
  OBVIOUS
<1>2. up = "up"
  BY DEF OnRtnClosed
<1>3. /\ r \in 1 .. Len(track) /\ Len(front) = Len(track)
      /\ track \in Seq(OrderType) /\ front \in Seq(FrontType)
      /\ o \in OrderType /\ f \in FrontType
      /\ Fits(o, f) /\ o.traded = f.traded
      /\ missed = 0 => Exact(o, f)
      /\ saved.instr \in [Instrs -> PosType] /\ held \in [Instrs -> PosType]
      /\ Now \in AccType
  BY <1>1, <1>2, OrderFacts
<1>4. PICK s2, left : s2 = o.st \cup {"CANCELED", "CLOSED"} /\ left = o.vol - f.traded
  OBVIOUS
<1>5. PICK o2, f2 : /\ o2 = [o EXCEPT !.st = s2]
                    /\ f2 = [f EXCEPT !.open = FALSE]
  OBVIOUS
<1>6. /\ f.open
      /\ front' = [front EXCEPT ![r] = f2]
      /\ track' = [track EXCEPT ![r] = o2]
      /\ Becomes(OnCxl(Now, o, left))
      /\ UNCHANGED <<up, saved, next, held, day, crashes, missed>>
  BY <1>1, <1>3, <1>4, <1>5 DEF OnRtnClosed, FrontCancels
<1>7. /\ o.vol \in Int /\ f.traded \in Int /\ left \in Int /\ left >= 0 /\ left > 0
      /\ -left \in Int /\ f.traded < o.vol
  <2>1. o.vol \in Int /\ f.traded \in Int
    BY <1>3, AccountAssumption DEF OrderType, FrontType
  <2>2. f.traded < o.vol
    BY <1>3, <1>6 DEF Fits
  <2> QED
    BY <1>4, <2>1, <2>2
<1>8. /\ o2.instr = o.instr /\ o2.dir = o.dir /\ o2.off = o.off /\ o2.vol = o.vol
      /\ o2.traded = o.traded /\ o2.st = s2
      /\ f2.traded = f.traded /\ ~f2.open
  BY <1>3, <1>5 DEF OrderType, FrontType
<1>9. Parts'
  BY OnRtnClosedStep
<1>10. o2 \in OrderType /\ f2 \in FrontType
  <2>1. track'[r] = o2 /\ front'[r] = f2 /\ r \in DOMAIN track' /\ r \in DOMAIN front'
    BY <1>3, <1>6
  <2>2. track' \in Seq(OrderType) /\ front' \in Seq(FrontType)
    BY <1>9 DEF Parts, OrdersOK
  <2> QED
    BY <2>1, <2>2
<1>11. Fits(o2, f2)
  BY <1>3, <1>4, <1>8 DEF Fits
<1>12. missed = 0 => Exact(o2, f2)
  <2>1. ASSUME Exact(o, f) PROVE Exact(o2, f2)
    <3>1. "EXECUTION" \in o2.st <=> "EXECUTION" \in o.st
      BY <1>4, <1>8
    <3>2. "CLOSED" \in o2.st /\ "CANCELED" \in o2.st
      BY <1>4, <1>8
    <3> QED
      BY <1>7, <1>8, <2>1, <3>1, <3>2 DEF Exact
  <2> QED
    BY <1>3, <2>1
<1>13. Changed(track', track, r, o2) /\ Changed(front', front, r, f2)
  BY <1>6 DEF Changed
<1>14. PICK a, b : a = Now /\ b = OnCxl(Now, o, left)
  OBVIOUS
<1>15. /\ a \in AccType /\ b \in AccType /\ b = Now'
       /\ AccMoves(a, b, o, -left, 0)
       /\ b.unfilled = a.unfilled - 1
  BY <1>3, <1>6, <1>7, <1>14, OnCxlGood, OnCxlMoves, NowBecomes
<1>16. SharesFit(o, -left, 0, b.unfilled - a.unfilled, o, f, o2, f2)
  <2>1. SUFFICES ASSUME NEW i, NEW s
                 PROVE  /\ \A c \in Closes :
                             LET by == IF Own(o, i, s) THEN Freed(o.off, c, -left, 0)
                                       ELSE 0
                             IN  /\ by <= Share("free", i, s, c, o2, f2)
                                            - Share("free", i, s, c, o, f)
                                 /\ 0 <= by
                        /\ \A c \in Offs :
                             Share("ing", i, s, c, o2, f2) - Share("ing", i, s, c, o, f)
                               = IF Own(o, i, s) /\ c = o.off THEN -left ELSE 0
                        /\ Share("gain", i, s, "Open", o2, f2)
                             - Share("gain", i, s, "Open", o, f)
                             = IF Own(o, i, s) THEN Opened(o.off, 0) ELSE 0
                        /\ Share("unfilled", i, s, "any", o2, f2)
                             - Share("unfilled", i, s, "any", o, f)
                             = b.unfilled - a.unfilled
    BY DEF SharesFit
  <2>2. /\ \A c \in Closes :
             Share("free", i, s, c, o2, f2) - Share("free", i, s, c, o, f)
               = IF Own(o, i, s) THEN Freed(o.off, c, -left, 0) ELSE 0
        /\ \A c \in Offs :
             Share("ing", i, s, c, o2, f2) - Share("ing", i, s, c, o, f)
               = IF Own(o, i, s) /\ c = o.off THEN -left ELSE 0
        /\ Share("gain", i, s, "Open", o2, f2) - Share("gain", i, s, "Open", o, f)
             = IF Own(o, i, s) THEN Opened(o.off, 0) ELSE 0
        /\ Share("unfilled", i, s, "any", o2, f2)
             - Share("unfilled", i, s, "any", o, f) = -1
    <3>1. /\ o \in OrderType /\ f \in FrontType /\ Fits(o, f)
          /\ o.traded = f.traded /\ f.open
          /\ o2 \in OrderType /\ f2 \in FrontType
      BY <1>3, <1>6, <1>10
    <3>2. /\ o2.instr = o.instr /\ o2.dir = o.dir /\ o2.off = o.off
          /\ o2.vol = o.vol /\ o2.traded = o.traded
          /\ o2.st = o.st \cup {"CANCELED", "CLOSED"}
          /\ f2.traded = f.traded /\ ~f2.open
      BY <1>4, <1>8
    <3> QED
      BY <1>4, <3>1, <3>2, ClosedShares
  <2>3. \A c \in Closes : /\ Freed(o.off, c, -left, 0) \in Int
                          /\ 0 <= Freed(o.off, c, -left, 0)
    BY <1>7 DEF Freed
  <2>4. b.unfilled - a.unfilled = -1
    <3>1. a.unfilled \in Int
      BY <1>15 DEF AccType
    <3> QED
      BY <1>15, <3>1
  <2> QED
    BY <2>2, <2>3, <2>4
<1>17. /\ AccAgrees(b, saved.instr, track', front', Len(track), up = "replay",
                    missed = 0)
       /\ RoomKept(saved.instr, track', front')
       /\ GainsBy(track', front', Len(track), track, front, Len(track), o,
                  Opened(o.off, 0))
  <2>1. /\ AccAgrees(a, saved.instr, track, front, Len(track), up = "replay",
                     missed = 0)
        /\ RoomKept(saved.instr, track, front)
    BY <1>2, <1>14 DEF SharesOK, Told
  <2>2. PICK rp, ok \in BOOLEAN : rp = (up = "replay") /\ ok = (missed = 0)
    OBVIOUS
  <2>3. PICK S, d, z : S = saved.instr /\ d = -left /\ z = 0
    OBVIOUS
  <2>4. d \in Int /\ z \in Int /\ up # "replay" /\ AccMoves(a, b, o, d, z)
    BY <1>2, <1>7, <1>15, <2>3
  <2>5. /\ AccAgrees(a, S, track, front, Len(track), rp, ok)
        /\ RoomKept(S, track, front) /\ ~rp /\ S \in [Instrs -> PosType]
    BY <1>3, <2>1, <2>4, <2>2, <2>3
  <2>6. SharesFit(o, d, z, b.unfilled - a.unfilled, track[r], front[r], o2, f2)
    BY <1>1, <1>16, <2>3
  <2>7. /\ AccAgrees(b, S, track', front', Len(track), rp, ok)
        /\ RoomKept(S, track', front')
        /\ GainsBy(track', front', Len(track), track, front, Len(track), o,
                   Opened(o.off, z))
    BY ZenonT(60), <1>3, <1>7, <1>10, <1>13, <1>15, <2>4, <2>5, <2>6, ChangeKeeps
  <2> QED
    BY <2>2, <2>3, <2>7
<1>18. OrdersFit(track', front', missed = 0)
  BY <1>3, <1>11, <1>12, <1>13, FitKept DEF SharesOK
<1>19. missed = 0 => HeldAgrees(held', saved.instr, track', front')
  <2>1. SUFFICES ASSUME missed = 0, NEW i \in Instrs, NEW s \in Sides
                 PROVE  held[i][s] = saved.instr[i][s]
                          + Shares("gain", i, s, "Open", track', front', Len(track))
    <3>1. Len(track') = Len(track)
      BY <1>3, <1>6
    <3> QED
      BY <1>6, <2>1, <3>1 DEF HeldAgrees
  <2>2. PICK p, q : /\ p = Shares("gain", i, s, "Open", track, front, Len(track))
                    /\ q = Shares("gain", i, s, "Open", track', front', Len(track))
    OBVIOUS
  <2>3. q = p + (IF Own(o, i, s) THEN Opened(o.off, 0) ELSE 0) /\ p \in Int
    <3>1. Len(track) \in 0 .. Len(track)
      BY <1>3
    <3> QED
      BY <1>3, <1>17, <2>2, <3>1, SharesInt DEF GainsBy
  <2>4. q = p
    BY <2>3 DEF Opened
  <2> QED
    BY <2>1, <2>2, <2>4 DEF SharesOK, HeldAgrees
<1>20. Told' = Len(track) /\ Len(track') = Len(track) /\ Len(track) \in 0 .. Len(track)
  BY <1>2, <1>3, <1>6 DEF Told
<1> QED
  BY <1>2, <1>6, <1>15, <1>17, <1>18, <1>19, <1>20 DEF SharesOK

-----------------------------------------------------------------------------
(* One order more                                                          *)
ShareIs(d, t, u, o, f, ok) ==
  \A i, s :
    /\ \A c \in Closes :
         Share("free", i, s, c, o, f)
           = IF Own(o, i, s) THEN Freed(o.off, c, d, t) ELSE 0
    /\ \A c \in Offs :
         LET by == IF Own(o, i, s) /\ c = o.off THEN d ELSE 0
         IN  /\ Share("ing", i, s, c, o, f) <= by
             /\ ok => Share("ing", i, s, c, o, f) = by
    /\ ok => Share("gain", i, s, "Open", o, f)
               = IF Own(o, i, s) THEN Opened(o.off, t) ELSE 0
    /\ ok => Share("unfilled", i, s, "any", o, f) = u

(* There is as much to close as the order takes. *)
RoomFor(a, o, d, t) ==
  \A i \in Instrs, s \in Sides, c \in Closes :
    0 <= Free(a.instr[i].side[s], c)
           + (IF Own(o, i, s) THEN Freed(o.off, c, d, t) ELSE 0)

(* An account that is told of the next order still agrees. *)
LEMMA NextKeeps ==
  ASSUME NEW a \in AccType, NEW b \in AccType,
         NEW S \in [Instrs -> PosType],
         NEW tr \in Seq(OrderType), NEW fr \in Seq(FrontType),
         Len(fr) = Len(tr), NEW k \in 0 .. Len(tr) - 1,
         NEW o \in OrderType, o = tr[k + 1], NEW f \in FrontType, f = fr[k + 1],
         NEW d \in Int, NEW t \in Int, AccMoves(a, b, o, d, t),
         NEW replay, NEW ok,
         AccAgrees(a, S, tr, fr, k, replay, ok),
         ShareIs(d, t, b.unfilled - a.unfilled, o, f, ok), RoomFor(a, o, d, t)
  PROVE  AccAgrees(b, S, tr, fr, k + 1, replay, ok)
<1>1. PICK n : n = k + 1
  OBVIOUS
<1>2. n \in 0 .. Len(tr) /\ k \in 0 .. Len(tr)
  BY <1>1
<1>3. ASSUME NEW kind, NEW i, NEW s, NEW c
      PROVE  /\ Shares(kind, i, s, c, tr, fr, n) - Shares(kind, i, s, c, tr, fr, k)
                  = Share(kind, i, s, c, o, f)
  <2>1. PICK p, q, x : /\ p = Shares(kind, i, s, c, tr, fr, k)
                       /\ q = Shares(kind, i, s, c, tr, fr, n)
                       /\ x = Share(kind, i, s, c, o, f)
    OBVIOUS
  <2>2. p \in Int /\ x \in Int
    BY <1>2, <2>1, SharesInt, ShareInt
  <2>3. q = p + x
    BY <1>1, <2>1, SharesNext
  <2>4. q - p = x
    BY <2>2, <2>3
  <2> QED
    BY <2>1, <2>4
<1>4. ASSUME NEW i \in Instrs, NEW s \in Sides
      PROVE  FreeFits(a, o, d, t, SharesOf("free", i, s, tr, fr, n),
                      SharesOf("free", i, s, tr, fr, k), replay, i, s)
  <2>1. Closes \subseteq Offs
    BY DEF Closes, Offs
  <2>2. SUFFICES ASSUME NEW c \in Closes
                 PROVE  LET diff == Shares("free", i, s, c, tr, fr, n)
                                      - Shares("free", i, s, c, tr, fr, k)
                            by == IF Own(o, i, s) THEN Freed(o.off, c, d, t) ELSE 0
                        IN  /\ by <= diff /\ diff = by
                            /\ 0 <= Free(a.instr[i].side[s], c) + by
    BY <2>1 DEF FreeFits, SharesOf
  <2>3. PICK by : by = IF Own(o, i, s) THEN Freed(o.off, c, d, t) ELSE 0
    OBVIOUS
  <2>4. by \in Int /\ by <= by
    BY <2>3 DEF Freed
  <2>5. Share("free", i, s, c, o, f) = by
    BY <2>3 DEF ShareIs
  <2>6. 0 <= Free(a.instr[i].side[s], c) + by
    BY <2>3 DEF RoomFor
  <2> QED
    BY <1>3, <2>3, <2>4, <2>5, <2>6
<1>5. ASSUME NEW i \in Instrs, NEW s \in Sides
      PROVE  IngFits(o, d, SharesOf("ing", i, s, tr, fr, n),
                     SharesOf("ing", i, s, tr, fr, k), ok, i, s)
  BY <1>3 DEF IngFits, SharesOf, ShareIs
<1>6. \A i, s : ok => Shares("gain", i, s, "Open", tr, fr, n)
                        - Shares("gain", i, s, "Open", tr, fr, k)
                        = IF Own(o, i, s) THEN Opened(o.off, t) ELSE 0
  BY <1>3 DEF ShareIs
<1>7. ok => b.unfilled = a.unfilled
                           + (Shares("unfilled", "any", "any", "any", tr, fr, n)
                              - Shares("unfilled", "any", "any", "any", tr, fr, k))
  <2>1. ok => Share("unfilled", "any", "any", "any", o, f) = b.unfilled - a.unfilled
    BY DEF ShareIs
  <2>2. a.unfilled \in Int /\ b.unfilled \in Int
    BY DEF AccType
  <2> QED
    BY <1>3, <2>1, <2>2
<1>8. SumsFit(a, b.unfilled, o, d, t, tr, fr, k, tr, fr, n, replay, ok)
  BY <1>4, <1>5, <1>6, <1>7 DEF SumsFit
<1>9. AccAgrees(b, S, tr, fr, n, replay, ok)
  BY ZenonT(60), <1>2, <1>8, AgreesKept
<1> QED
  BY <1>1, <1>9

(* Appending an order leaves the shares of the others alone. *)
LEMMA AppendShares ==
  ASSUME NEW tr \in Seq(OrderType), NEW fr \in Seq(FrontType),
         Len(fr) = Len(tr), NEW o \in OrderType, NEW f \in FrontType,
         NEW k \in 0 .. Len(tr), NEW kind, NEW i, NEW s, NEW c
  PROVE  Shares(kind, i, s, c, Append(tr, o), Append(fr, f), k)
           = Shares(kind, i, s, c, tr, fr, k)
<1>1. \A r \in 1 .. k : Append(tr, o)[r] = tr[r] /\ Append(fr, f)[r] = fr[r]
  OBVIOUS
<1>2. \A r \in 1 .. k : Share(kind, i, s, c, Append(tr, o)[r], Append(fr, f)[r])
                          = Share(kind, i, s, c, tr[r], fr[r])
  BY <1>1
<1>3. [r \in 1 .. k |-> Share(kind, i, s, c, Append(tr, o)[r], Append(fr, f)[r])]
        = [r \in 1 .. k |-> Share(kind, i, s, c, tr[r], fr[r])]
  BY <1>2
<1> QED
  BY <1>3 DEF Shares

(* An account agrees with orders that have the same shares. *)
SameShares(tr2, fr2, tr, fr, k) ==
  \A kind, i, s, c : Shares(kind, i, s, c, tr2, fr2, k)
                       = Shares(kind, i, s, c, tr, fr, k)

LEMMA AgreesSame ==
  ASSUME NEW a, NEW S, NEW tr, NEW fr, NEW k, NEW tr2, NEW fr2,
         NEW replay, NEW ok,
         AccAgrees(a, S, tr, fr, k, replay, ok), SameShares(tr2, fr2, tr, fr, k)
  PROVE  AccAgrees(a, S, tr2, fr2, k, replay, ok)
<1>1. \A kind, i, s, c : Shares(kind, i, s, c, tr2, fr2, k)
                           = Shares(kind, i, s, c, tr, fr, k)
  BY DEF SameShares
<1>2. ASSUME NEW i \in Instrs, NEW s \in Sides
      PROVE  /\ FreeAgrees(a, S, tr2, fr2, k, replay, i, s)
             /\ IngAgrees(a, tr2, fr2, k, ok, i, s)
             /\ GainAgrees(a, S, tr2, fr2, k, ok, i, s)
  BY <1>1 DEF AccAgrees, FreeAgrees, IngAgrees, GainAgrees
<1>3. UnfilledAgrees(a, tr2, fr2, k, ok)
  BY <1>1 DEF AccAgrees, UnfilledAgrees
<1> QED
  BY <1>2, <1>3 DEF AccAgrees

(* NewOrder: the front has taken no more than there was to close. *)
LEMMA NewOrderShares ==
  ASSUME Parts, SharesOK, NEW i0 \in Instrs, NEW dir \in Dirs, NEW off \in Offs,
         NEW v \in 1 .. MaxVol, NewOrder(i0, dir, off, v)
  PROVE  SharesOK'
<1>1. PICK o, f : /\ o = [instr |-> i0, dir |-> dir, off |-> off, vol |-> v,
                          traded |-> 0, st |-> {"TDSEND"}]
                  /\ f = [traded |-> 0, open |-> TRUE]
  OBVIOUS
<1>2. PICK a, b : a = Now /\ b = OnNew(Now, o)
  OBVIOUS
<1>3. /\ track' = Append(track, o) /\ front' = Append(front, f)
      /\ Becomes(b) /\ up = "up" /\ Available(i0, dir, off, v)
      /\ UNCHANGED <<up, saved, next, held, day, crashes, missed>>
  BY <1>1, <1>2 DEF NewOrder
<1>4. /\ o \in OrderType /\ f \in FrontType /\ v \in Int /\ v > 0
      /\ o.traded = 0 /\ f.traded = 0 /\ f.open /\ o.st = {"TDSEND"}
      /\ o.vol = v /\ o.off = off /\ o.instr = i0 /\ o.dir = dir
  BY <1>1, AccountAssumption DEF OrderType, FrontType
<1>5. /\ track \in Seq(OrderType) /\ front \in Seq(FrontType)
      /\ Len(front) = Len(track) /\ a \in AccType
      /\ saved.instr \in [Instrs -> PosType] /\ held \in [Instrs -> PosType]
  BY <1>2, NowGood DEF Parts, OrdersOK, SavedOK
<1>6. /\ b \in AccType /\ b = Now'
      /\ AccMoves(a, b, o, v, 0) /\ b.unfilled = a.unfilled + 1
  BY <1>2, <1>3, <1>4, <1>5, OnNewGood, OnNewMoves, NowBecomes
<1>7. PICK n, tr, fr, S, z, rp, ok :
        /\ n = Len(track) /\ tr = Append(track, o) /\ fr = Append(front, f)
        /\ S = saved.instr /\ z = 0 /\ rp = (up = "replay") /\ ok = (missed = 0)
  OBVIOUS
<1>8. /\ tr \in Seq(OrderType) /\ fr \in Seq(FrontType)
      /\ Len(tr) = n + 1 /\ Len(fr) = n + 1 /\ n \in Nat
      /\ o = tr[n + 1] /\ f = fr[n + 1]
      /\ \A r \in 1 .. n : tr[r] = track[r] /\ fr[r] = front[r]
  BY <1>4, <1>5, <1>7
<1>9. ASSUME NEW k \in 0 .. n
      PROVE  SameShares(tr, fr, track, front, k)
  BY <1>4, <1>5, <1>7, AppendShares DEF SameShares
<1>10. AccAgrees(a, S, track, front, n, rp, ok) /\ RoomKept(S, track, front)
  BY <1>2, <1>3, <1>7 DEF SharesOK, Told
<1>11. AccAgrees(a, S, tr, fr, n, rp, ok)
  <2>1. SameShares(tr, fr, track, front, n)
    BY <1>8, <1>9
  <2> QED
    BY <1>10, <2>1, AgreesSame
<1>12. ShareIs(v, z, b.unfilled - a.unfilled, o, f, ok)
  <2>1. b.unfilled - a.unfilled = 1
    <3>1. a.unfilled \in Int
      BY <1>5 DEF AccType
    <3> QED
      BY <1>6, <3>1
  <2>2. ASSUME NEW i, NEW s
        PROVE  /\ \A c \in Closes :
                    Share("free", i, s, c, o, f)
                      = IF Own(o, i, s) THEN Freed(o.off, c, v, z) ELSE 0
               /\ \A c \in Offs :
                    Share("ing", i, s, c, o, f)
                      = IF Own(o, i, s) /\ c = o.off THEN v ELSE 0
               /\ Share("gain", i, s, "Open", o, f)
                    = IF Own(o, i, s) THEN Opened(o.off, z) ELSE 0
               /\ Share("unfilled", i, s, "any", o, f) = 1
    BY <1>4, <1>7, NewShares
  <2>3. ASSUME NEW i, NEW s, NEW c \in Offs
        PROVE  LET by == IF Own(o, i, s) /\ c = o.off THEN v ELSE 0
               IN  Share("ing", i, s, c, o, f) <= by /\ Share("ing", i, s, c, o, f) = by
    <3>1. PICK by, x : /\ by = IF Own(o, i, s) /\ c = o.off THEN v ELSE 0
                       /\ x = Share("ing", i, s, c, o, f)
      OBVIOUS
    <3>2. x = by /\ by \in Int
      BY <1>4, <2>2, <3>1
    <3> QED
      BY <3>1, <3>2
  <2> QED
    BY <2>1, <2>2, <2>3 DEF ShareIs
<1>13. RoomFor(a, o, v, z)
  <2>1. SUFFICES ASSUME NEW i \in Instrs, NEW s \in Sides, NEW c \in Closes
                 PROVE  0 <= Free(a.instr[i].side[s], c)
                               + (IF Own(o, i, s) THEN Freed(o.off, c, v, z) ELSE 0)
    BY DEF RoomFor
  <2>2. PICK x, e, by : /\ x = a.instr[i].side[s] /\ e = Free(x, c)
                        /\ by = IF Own(o, i, s) THEN Freed(o.off, c, v, z) ELSE 0
    OBVIOUS
  <2>3. e \in Int
    BY <1>5, <2>2, AccSides, SideInts
  <2>4. 0 <= e
    <3>1. FreeAgrees(a, S, track, front, n, rp, i, s)
      BY <1>10 DEF AccAgrees
    <3> QED
      BY <2>2, <3>1 DEF FreeAgrees
  <2>5. CASE Own(o, i, s) /\ c = off
    <3>1. x = instr[i0].side[SideOf(dir, off)]
      BY <1>2, <1>4, <2>2, <2>5 DEF Own, Now, Account
    <3>2. e >= v
      BY <1>3, <2>2, <2>5, <3>1 DEF Available, Free, Closes
    <3>3. by = -(v + z)
      BY <1>4, <2>2, <2>5 DEF Freed
    <3>4. 0 <= e + by
      BY <1>4, <1>7, <2>3, <3>2, <3>3
    <3> QED
      BY <2>2, <3>4
  <2>6. CASE ~(Own(o, i, s) /\ c = off)
    <3>1. by = 0
      BY <1>4, <1>7, <2>2, <2>6 DEF Freed
    <3>2. 0 <= e + by
      BY <2>3, <2>4, <3>1
    <3> QED
      BY <2>2, <3>2
  <2> QED
    BY <2>5, <2>6
<1>14. AccAgrees(b, S, tr, fr, n + 1, rp, ok)
  <2>1. n \in 0 .. Len(tr) - 1 /\ z \in Int /\ AccMoves(a, b, o, v, z)
    BY <1>6, <1>7, <1>8
  <2>2. S \in [Instrs -> PosType] /\ a \in AccType /\ b \in AccType /\ Len(fr) = Len(tr)
    BY <1>5, <1>6, <1>7, <1>8
  <2> QED
    BY <1>4, <1>8, <1>11, <1>12, <1>13, <2>1, <2>2, NextKeeps
<1>15. RoomKept(S, tr, fr)
  <2>1. SUFFICES ASSUME NEW i \in Instrs, NEW s \in Sides, NEW c \in Closes,
                        NEW k \in 0 .. n + 1
                 PROVE  Stock(S[i], s, c) + Shares("free", i, s, c, tr, fr, k) >= 0
    BY <1>8 DEF RoomKept
  <2>2. CASE k \in 0 .. n
    <3>1. Shares("free", i, s, c, tr, fr, k) = Shares("free", i, s, c, track, front, k)
      BY <1>9, <2>2 DEF SameShares
    <3>2. Stock(S[i], s, c) + Shares("free", i, s, c, track, front, k) >= 0
      BY <1>7, <1>10, <2>2 DEF RoomKept
    <3> QED
      BY <3>1, <3>2
  <2>3. CASE k = n + 1
    <3>1. FreeAgrees(b, S, tr, fr, n + 1, rp, i, s)
      BY <1>14 DEF AccAgrees
    <3>2. PICK e, m : /\ e = Free(b.instr[i].side[s], c)
                      /\ m = Stock(S[i], s, c) + Shares("free", i, s, c, tr, fr, n + 1)
      OBVIOUS
    <3>3. 0 <= e /\ e <= m
      BY <3>1, <3>2 DEF FreeAgrees
    <3>4. e \in Int
      BY <1>6, <3>2, AccSides, SideInts
    <3>5. m \in Int
      <4>1. n + 1 \in 0 .. Len(tr) /\ Len(fr) = Len(tr)
        BY <1>8
      <4>2. Shares("free", i, s, c, tr, fr, n + 1) \in Int
        BY <1>8, <4>1, SharesInt
      <4>3. Stock(S[i], s, c) \in Int
        BY <1>5, <1>7 DEF Stock, PosType
      <4> QED
        BY <3>2, <4>2, <4>3
    <3>6. m >= 0
      BY <3>3, <3>4, <3>5
    <3> QED
      BY <2>3, <3>2, <3>6
  <2> QED
    BY <1>8, <2>2, <2>3
<1>16. OrdersFit(tr, fr, ok)
  <2>1. Fits(o, f) /\ Exact(o, f)
    BY <1>4 DEF Fits, Exact
  <2>2. \A r \in 1 .. n : Fits(track[r], front[r]) /\ (ok => Exact(track[r], front[r]))
    BY <1>7 DEF SharesOK, OrdersFit
  <2>3. ASSUME NEW r \in 1 .. n + 1
        PROVE  Fits(tr[r], fr[r]) /\ (ok => Exact(tr[r], fr[r]))
    <3>1. CASE r = n + 1
      BY <1>8, <2>1, <3>1
    <3>2. CASE r # n + 1
      <4>1. r \in 1 .. n
        BY <1>8, <3>2
      <4> QED
        BY <1>8, <2>2, <4>1
    <3> QED
      BY <3>1, <3>2
  <2> QED
    BY <1>8, <2>3 DEF OrdersFit
<1>17. ok => HeldAgrees(held, S, tr, fr)
  <2>1. SUFFICES ASSUME ok, NEW i \in Instrs, NEW s \in Sides
                 PROVE  held[i][s]
                          = S[i][s] + Shares("gain", i, s, "Open", tr, fr, n + 1)
    BY <1>8, <2>1 DEF HeldAgrees
  <2>2. PICK p, q, x : /\ p = Shares("gain", i, s, "Open", track, front, n)
                       /\ q = Shares("gain", i, s, "Open", tr, fr, n + 1)
                       /\ x = Share("gain", i, s, "Open", o, f)
    OBVIOUS
  <2>3. x = 0
    <3>1. PICK y : y = o.traded
      OBVIOUS
    <3>2. y \in Int /\ y >= 0 /\ y <= 0
      BY <1>4, <3>1
    <3>3. -y = 0
      BY <3>2
    <3> QED
      BY <1>4, <2>2, <3>1, <3>3 DEF Share
  <2>4. q = p + x
    <3>1. n \in 0 .. Len(tr) - 1 /\ Len(fr) = Len(tr) /\ n \in 0 .. n
      BY <1>8
    <3>2. q = Shares("gain", i, s, "Open", tr, fr, n) + x
      BY <1>8, <2>2, <3>1, SharesNext
    <3>3. SameShares(tr, fr, track, front, n)
      BY <1>9, <3>1
    <3> QED
      BY <2>2, <3>2, <3>3 DEF SameShares
  <2>5. p \in Int
    <3>1. n \in 0 .. Len(track)
      BY <1>7, <1>8
    <3> QED
      BY <1>5, <2>2, <3>1, SharesInt
  <2>6. q = p
    BY <2>3, <2>4, <2>5
  <2>7. held[i][s] = S[i][s] + p
    BY <1>7, <2>1, <2>2 DEF SharesOK, HeldAgrees
  <2> QED
    BY <2>2, <2>6, <2>7
<1>18. Told' = n + 1 /\ Len(track') = n + 1 /\ n + 1 \in 0 .. n + 1
  BY <1>3, <1>7, <1>8 DEF Told
<1> QED
  BY <1>3, <1>6, <1>7, <1>14, <1>15, <1>16, <1>17, <1>18 DEF SharesOK

(* Replay: an order is replayed with what is known of it at the end, and   *)
(* there is room for it because the orders before it left it.              *)
LEMMA ReplayStepShares ==
  ASSUME Parts, SharesOK, Replay
  PROVE  SharesOK'
<1>1. PICK n, o, f, k : n = Len(track) /\ o = track[next] /\ f = front[next] /\ k = next - 1
  OBVIOUS
<1>2. PICK a, b : a = Now /\ b = OnOrderTrack(Now, o)
  OBVIOUS
<1>3. /\ Becomes(b) /\ up = "replay" /\ next <= Len(track) /\ next' = next + 1
      /\ UNCHANGED <<up, saved, track, front, held, day, crashes, missed>>
  BY <1>1, <1>2 DEF Replay
<1>4. /\ next \in Nat \ {0} /\ n \in Nat /\ k \in 0 .. n - 1 /\ next = k + 1
      /\ next \in DOMAIN track /\ k + 1 \in 0 .. n
  BY <1>1, <1>3 DEF Parts, RestOK, OrdersOK
<1>5. /\ track \in Seq(OrderType) /\ front \in Seq(FrontType) /\ Len(front) = n
      /\ o \in OrderType /\ f \in FrontType /\ Fits(o, f) /\ o.traded = f.traded
      /\ missed = 0 => Exact(o, f)
      /\ saved.instr \in [Instrs -> PosType]
      /\ a \in AccType
  BY <1>1, <1>2, <1>3, <1>4, OrderFacts
<1>6. PICK d, t : d = Taken(o) - Replayed(o) /\ t = Replayed(o)
  OBVIOUS
<1>7. d \in Int /\ t \in Int
  <2>1. o.vol \in Int /\ o.traded \in Int
    BY <1>5, AccountAssumption DEF OrderType
  <2> QED
    BY <1>6, <2>1 DEF Taken, Replayed
<1>8. /\ b \in AccType /\ b = Now' /\ AccMoves(a, b, o, d, t)
      /\ b.unfilled = a.unfilled + Leaves(o)
  <2>1. "TDSEND" \in o.st
    BY <1>5 DEF Fits
  <2> QED
    BY <1>2, <1>3, <1>5, <1>6, <2>1, OnOrderTrackGood, OnOrderTrackMoves, NowBecomes
<1>9. PICK S : S = saved.instr
  OBVIOUS
<1>10. PICK rp, ok \in BOOLEAN : rp = (up = "replay") /\ ok = (missed = 0)
  OBVIOUS
<1>11. /\ AccAgrees(a, S, track, front, k, rp, ok) /\ RoomKept(S, track, front)
       /\ rp
  BY <1>1, <1>2, <1>3, <1>9, <1>10 DEF SharesOK, Told
<1>12. ShareIs(d, t, b.unfilled - a.unfilled, o, f, ok)
  <2>1. b.unfilled - a.unfilled = Leaves(o)
    <3>1. a.unfilled \in Int /\ Leaves(o) \in Int
      BY <1>5 DEF AccType, Leaves
    <3> QED
      BY <1>8, <3>1
  <2>2. ASSUME NEW i, NEW s
        PROVE  /\ \A c \in Closes :
                    Share("free", i, s, c, o, f)
                      = IF Own(o, i, s) THEN Freed(o.off, c, d, t) ELSE 0
               /\ \A c \in Offs :
                    LET by == IF Own(o, i, s) /\ c = o.off THEN d ELSE 0
                    IN  /\ Share("ing", i, s, c, o, f) <= by
                        /\ ok => Share("ing", i, s, c, o, f) = by
               /\ ok => Share("gain", i, s, "Open", o, f)
                          = IF Own(o, i, s) THEN Opened(o.off, t) ELSE 0
               /\ ok => Share("unfilled", i, s, "any", o, f) = Leaves(o)
    <3>1. ok => Exact(o, f)
      BY <1>5, <1>10
    <3>2. /\ o \in OrderType /\ f \in FrontType /\ Fits(o, f) /\ o.traded = f.traded
          /\ ok \in BOOLEAN
      BY <1>5
    <3>3. /\ \A c \in Closes :
               Share("free", i, s, c, o, f)
                 = IF Own(o, i, s)
                   THEN Freed(o.off, c, Taken(o) - Replayed(o), Replayed(o)) ELSE 0
          /\ \A c \in Offs :
               LET by == IF Own(o, i, s) /\ c = o.off
                         THEN Taken(o) - Replayed(o) ELSE 0
               IN  /\ Share("ing", i, s, c, o, f) <= by
                   /\ ok => Share("ing", i, s, c, o, f) = by
          /\ ok => Share("gain", i, s, "Open", o, f)
                     = IF Own(o, i, s) THEN Opened(o.off, Replayed(o)) ELSE 0
          /\ ok => Share("unfilled", i, s, "any", o, f) = Leaves(o)
      BY <3>1, <3>2, ReplayShares
    <3> QED
      BY <1>6, <3>3
  <2> QED
    BY <2>1, <2>2 DEF ShareIs
<1>13. RoomFor(a, o, d, t)
  <2>1. SUFFICES ASSUME NEW i \in Instrs, NEW s \in Sides, NEW c \in Closes
                 PROVE  0 <= Free(a.instr[i].side[s], c)
                               + (IF Own(o, i, s) THEN Freed(o.off, c, d, t) ELSE 0)
    BY DEF RoomFor
  <2>2. PICK e, by, h, p, q :
          /\ e = Free(a.instr[i].side[s], c)
          /\ by = IF Own(o, i, s) THEN Freed(o.off, c, d, t) ELSE 0
          /\ h = Stock(S[i], s, c)
          /\ p = Shares("free", i, s, c, track, front, k)
          /\ q = Shares("free", i, s, c, track, front, k + 1)
    OBVIOUS
  <2>3. e = h + p
    <3>1. FreeAgrees(a, S, track, front, k, rp, i, s)
      BY <1>11 DEF AccAgrees
    <3> QED
      BY <1>11, <2>2, <3>1 DEF FreeAgrees
  <2>4. q = p + by
    <3>1. Share("free", i, s, c, o, f) = by
      BY <1>12, <2>2 DEF ShareIs
    <3>2. k \in 0 .. Len(track) - 1 /\ Len(front) = Len(track)
      BY <1>1, <1>4, <1>5
    <3>3. q = p + Share("free", i, s, c, track[k + 1], front[k + 1])
      BY <1>5, <2>2, <3>2, SharesNext
    <3> QED
      BY <1>1, <1>4, <3>1, <3>3
  <2>5. h + q >= 0
    BY <1>1, <1>4, <1>11, <2>2 DEF RoomKept
  <2>6. p \in Int /\ h \in Int /\ by \in Int
    <3>1. k \in 0 .. Len(track) /\ Len(front) = Len(track)
      BY <1>1, <1>4, <1>5
    <3>2. p \in Int
      BY <1>5, <2>2, <3>1, SharesInt
    <3>3. h \in Int
      BY <1>5, <1>9, <2>2 DEF Stock, PosType
    <3>4. by \in Int
      BY <1>7, <2>2 DEF Freed
    <3> QED
      BY <3>2, <3>3, <3>4
  <2>7. 0 <= e + by
    BY <2>3, <2>4, <2>5, <2>6
  <2> QED
    BY <2>2, <2>7
<1>14. AccAgrees(b, S, track, front, k + 1, rp, ok)
  <2>1. /\ k \in 0 .. Len(track) - 1 /\ Len(front) = Len(track)
        /\ o = track[k + 1] /\ f = front[k + 1] /\ S \in [Instrs -> PosType]
    BY <1>1, <1>4, <1>5, <1>9
  <2> QED
    BY <1>5, <1>7, <1>8, <1>11, <1>12, <1>13, <2>1, NextKeeps
<1>15. Told' = k + 1
  BY <1>3, <1>4 DEF Told
<1> QED
  BY <1>1, <1>3, <1>4, <1>8, <1>9, <1>10, <1>14, <1>15 DEF SharesOK

-----------------------------------------------------------------------------
(* What there is to close depends on the tracks alone. *)
LEMMA FreeOfTracks ==
  ASSUME NEW tr, NEW fr, NEW fr2, NEW k, NEW i, NEW s, NEW c
  PROVE  Shares("free", i, s, c, tr, fr2, k) = Shares("free", i, s, c, tr, fr, k)
<1>1. \A r \in 1 .. k : Share("free", i, s, c, tr[r], fr2[r])
                          = Share("free", i, s, c, tr[r], fr[r])
  BY DEF Share
<1>2. [r \in 1 .. k |-> Share("free", i, s, c, tr[r], fr2[r])]
        = [r \in 1 .. k |-> Share("free", i, s, c, tr[r], fr[r])]
  BY <1>1
<1> QED
  BY <1>2 DEF Shares

(* Missed: the front knows more of an order than its track. *)
LEMMA MissedShares ==
  ASSUME Parts, SharesOK, NEW r \in DOMAIN track, Missed(r)
  PROVE  SharesOK'
<1>1. /\ up = "down" /\ missed' = missed + 1 /\ missed \in Nat
      /\ UNCHANGED <<up, memVars, saved, track, next, day, crashes>>
  BY DEF Missed, Parts, RestOK
<1>2. missed' # 0 /\ up' = "down" /\ saved' = saved /\ track' = track
  BY <1>1
<1>3. /\ track \in Seq(OrderType) /\ front \in Seq(FrontType)
      /\ Len(front) = Len(track) /\ r \in 1 .. Len(track)
      /\ track[r] \in OrderType /\ front[r] \in FrontType
      /\ \A q \in 1 .. Len(track) : Fits(track[q], front[q])
  BY DEF Parts, OrdersOK, SharesOK, OrdersFit
<1>4. PICK o, f : o = track[r] /\ f = front[r]
  OBVIOUS
<1>5. PICK f2 : front' = [front EXCEPT ![r] = f2] /\ Fits(o, f2)
  <2>1. CASE \E n \in 1 .. MaxVol : FrontTrades(r, n)
    <3>1. PICK n \in 1 .. MaxVol : FrontTrades(r, n)
      BY <2>1
    <3>2. PICK total, f2 : total = f.traded + n
                           /\ f2 = [traded |-> total, open |-> total < o.vol]
      OBVIOUS
    <3>3. f.open /\ total <= o.vol /\ front' = [front EXCEPT ![r] = f2]
      BY <1>4, <3>1, <3>2 DEF FrontTrades
    <3>4. /\ n \in Int /\ n > 0 /\ f.traded \in Int /\ o.traded \in Int /\ o.vol \in Int
          /\ f2.traded = total /\ (f2.open <=> total < o.vol)
      <4>1. n \in Int /\ n > 0
        BY AccountAssumption
      <4>2. f.traded \in Int /\ o.traded \in Int /\ o.vol \in Int
        BY <1>3, <1>4, AccountAssumption DEF OrderType, FrontType
      <4>3. f2.traded = total /\ (f2.open <=> total < o.vol)
        BY <3>2
      <4> QED
        BY <4>1, <4>2, <4>3
    <3>5. Fits(o, f)
      BY <1>3, <1>4
    <3>6. Fits(o, f2)
      BY <3>2, <3>3, <3>4, <3>5 DEF Fits
    <3> QED
      BY <3>3, <3>6
  <2>2. CASE FrontCancels(r)
    <3>1. PICK f2 : f2 = [f EXCEPT !.open = FALSE]
      OBVIOUS
    <3>2. f.open /\ front' = [front EXCEPT ![r] = f2]
      BY <1>3, <1>4, <2>2, <3>1 DEF FrontCancels
    <3>3. f2.traded = f.traded /\ ~f2.open
      BY <1>3, <1>4, <3>1 DEF FrontType
    <3>4. Fits(o, f)
      BY <1>3, <1>4
    <3>5. Fits(o, f2)
      BY <3>2, <3>3, <3>4 DEF Fits
    <3> QED
      BY <3>2, <3>5
  <2> QED
    BY <2>1, <2>2 DEF Missed
<1>6. \A q \in 1 .. Len(track) : Fits(track[q], front'[q])
  <2>1. \A q \in 1 .. Len(track) : front'[q] = IF q = r THEN f2 ELSE front[q]
    BY <1>3, <1>5
  <2> QED
    BY <1>3, <1>4, <1>5, <2>1
<1>7. OrdersFit(track, front', missed' = 0)
  BY <1>2, <1>6 DEF OrdersFit
<1>8. RoomKept(saved.instr, track, front')
  <2>1. \A i, s, c, k : Shares("free", i, s, c, track, front', k)
                          = Shares("free", i, s, c, track, front, k)
    BY FreeOfTracks
  <2>2. RoomKept(saved.instr, track, front)
    BY DEF SharesOK
  <2> QED
    BY <2>1, <2>2 DEF RoomKept
<1> QED
  BY <1>2, <1>7, <1>8 DEF SharesOK

LEMMA CrashShares ==
  ASSUME SharesOK, Crash
  PROVE  SharesOK'
BY DEF SharesOK, Crash

LEMMA StutterShares ==
  ASSUME SharesOK, UNCHANGED vars
  PROVE  SharesOK'
BY DEF SharesOK, vars, Told, Now

(* Listen: the account was told of all orders. *)
LEMMA ListenShares ==
  ASSUME Parts, SharesOK, Listen
  PROVE  SharesOK'
<1>1. /\ up = "replay" /\ next > Len(track) /\ up' = "up"
      /\ UNCHANGED <<instr, prd, unfilled, saved, track, front, held, missed>>
  BY DEF Listen, memVars
<1>2. PICK n : n = Len(track)
  OBVIOUS
<1>3. n \in Nat /\ next \in Nat
  BY <1>2 DEF Parts, OrdersOK, RestOK
<1>4. Told = next - 1 /\ Told \in 0 .. n
  BY <1>1, <1>2 DEF SharesOK, Told
<1>5. Told = n /\ n \in 0 .. n
  BY <1>1, <1>2, <1>3, <1>4
<1>6. PICK a, S : a = Now /\ S = saved.instr
  OBVIOUS
<1>7. PICK ok \in BOOLEAN : ok = (missed = 0)
  OBVIOUS
<1>8. AccAgrees(a, S, track, front, n, up = "replay", ok)
  BY <1>1, <1>2, <1>5, <1>6, <1>7 DEF SharesOK
<1>9. AccAgrees(a, S, track, front, n, FALSE, ok)
  <2>1. ASSUME NEW i \in Instrs, NEW s \in Sides
        PROVE  FreeAgrees(a, S, track, front, n, FALSE, i, s)
    <3>1. FreeAgrees(a, S, track, front, n, up = "replay", i, s)
      BY <1>8 DEF AccAgrees
    <3> QED
      BY <3>1 DEF FreeAgrees
  <2> QED
    BY <1>8, <2>1 DEF AccAgrees
<1>10. Told' = n /\ Now' = a
  BY <1>1, <1>2, <1>6 DEF Told, Now
<1>11. (up' = "replay") = FALSE
  BY <1>1
<1>12. AccAgrees(Now', saved.instr, track, front, Told', up' = "replay", missed = 0)
  BY <1>6, <1>7, <1>9, <1>10, <1>11
<1> QED
  BY <1>1, <1>2, <1>5, <1>10, <1>12 DEF SharesOK

-----------------------------------------------------------------------------
(* An account that is loaded agrees with no order told. *)
LEMMA LoadedAgrees ==
  ASSUME NEW S \in [Instrs -> PosType], NEW a,
         \A i \in Instrs : a.instr[i] = CarriedOver(S[i]), a.unfilled = 0,
         \A i \in Instrs, s \in Sides : S[i][s] >= 0,
         NEW tr, NEW fr, NEW replay, NEW ok
  PROVE  AccAgrees(a, S, tr, fr, 0, replay, ok)
<1>1. ASSUME NEW i \in Instrs, NEW s \in Sides
      PROVE  /\ FreeAgrees(a, S, tr, fr, 0, replay, i, s)
             /\ IngAgrees(a, tr, fr, 0, ok, i, s)
             /\ GainAgrees(a, S, tr, fr, 0, ok, i, s)
  <2>1. PICK x, p : x = a.instr[i].side[s] /\ p = S[i][s]
    OBVIOUS
  <2>2. /\ x = [yd_ini |-> p, yd |-> p, td |-> 0, pos |-> p,
                yd_cls_ing |-> 0, td_cls_ing |-> 0, td_opn_ing |-> 0]
        /\ p \in Int /\ p >= 0
    <3>1. a.instr[i] = CarriedOver(S[i])
      OBVIOUS
    <3>2. x = CarriedOver(S[i]).side[s]
      BY <2>1, <3>1
    <3>3. S[i] \in PosType
      OBVIOUS
    <3>4. p \in Int /\ p >= 0
      BY <2>1, <3>3 DEF PosType
    <3> QED
      BY <2>1, <3>2, <3>4 DEF CarriedOver
  <2>3. ASSUME NEW c \in Closes
        PROVE  Free(x, c) = Stock(S[i], s, c) /\ Free(x, c) \in Int /\ Free(x, c) >= 0
    BY <2>1, <2>2 DEF Free, Stock
  <2>4. \A c \in Closes :
          /\ Stock(S[i], s, c) + Shares("free", i, s, c, tr, fr, 0) = Free(x, c)
          /\ Free(x, c) <= Free(x, c) /\ 0 <= Free(x, c)
    BY <2>3, SharesNone
  <2>5. FreeAgrees(a, S, tr, fr, 0, replay, i, s)
    BY <2>1, <2>4 DEF FreeAgrees
  <2>6. \A c \in Offs : Ing(x, c) = 0
    BY <2>2 DEF Ing
  <2>7. \A c \in Offs : Shares("ing", i, s, c, tr, fr, 0) = 0 /\ 0 <= 0
    BY SharesNone
  <2>8. IngAgrees(a, tr, fr, 0, ok, i, s)
    BY <2>1, <2>6, <2>7 DEF IngAgrees
  <2>9. x.pos = p + 0 /\ Shares("gain", i, s, "Open", tr, fr, 0) = 0
    BY <2>2, SharesNone
  <2>10. GainAgrees(a, S, tr, fr, 0, ok, i, s)
    BY <2>1, <2>9 DEF GainAgrees
  <2> QED
    BY <2>5, <2>8, <2>10
<1>2. UnfilledAgrees(a, tr, fr, 0, ok)
  BY SharesNone DEF UnfilledAgrees
<1> QED
  BY <1>1, <1>2 DEF AccAgrees

(* What is saved is not negative: there would be no room for an order. *)
LEMMA RoomAtStart ==
  ASSUME NEW S \in [Instrs -> PosType], NEW tr \in Seq(OrderType), NEW fr,
         RoomKept(S, tr, fr)
  PROVE  \A i \in Instrs, s \in Sides : S[i][s] >= 0
<1>1. 0 \in 0 .. Len(tr) /\ "CloseYesterday" \in Closes
  BY DEF Closes
<1>2. ASSUME NEW i \in Instrs, NEW s \in Sides
      PROVE  S[i][s] >= 0
  <2>1. Stock(S[i], s, "CloseYesterday")
          + Shares("free", i, s, "CloseYesterday", tr, fr, 0) >= 0
    BY <1>1 DEF RoomKept
  <2>2. Stock(S[i], s, "CloseYesterday") = S[i][s] /\ S[i][s] \in Int
    BY DEF Stock, PosType
  <2> QED
    BY <2>1, <2>2, SharesNone
<1> QED
  BY <1>2

(* The shares of an order that is brought up to what the front knows *)
LEMMA QueriedShares ==
  ASSUME NEW o \in OrderType, NEW f \in FrontType, Fits(o, f),
         NEW ok \in BOOLEAN, ok => Exact(o, f)
  PROVE  /\ Fits(OnRspQryOrder(o, f), f)
         /\ ok => Exact(OnRspQryOrder(o, f), f)
         /\ \A i, s, c : /\ Share("free", i, s, c, o, f)
                              <= Share("free", i, s, c, OnRspQryOrder(o, f), f)
                         /\ ok => Share("gain", i, s, c, OnRspQryOrder(o, f), f)
                                    = Share("gain", i, s, c, o, f)
<1>1. PICK o2 : o2 = OnRspQryOrder(o, f)
  OBVIOUS
<1>2. /\ o2.instr = o.instr /\ o2.dir = o.dir /\ o2.off = o.off
      /\ o2.vol = o.vol /\ o2.st = o.st /\ o2.traded = f.traded
  BY <1>1 DEF OnRspQryOrder, OrderType
<1>3. PICK x, y, z : x = o.traded /\ y = f.traded /\ z = o.vol
  OBVIOUS
<1>4. x \in Int /\ y \in Int /\ z \in Int
  BY <1>3, AccountAssumption DEF OrderType, FrontType
<1>5. x <= y /\ y <= z /\ ("CLOSED" \in o.st => x = y) /\ "TDSEND" \in o.st
      /\ (f.open => f.traded < o.vol) /\ ("CLOSED" \in o.st => ~f.open)
  BY <1>3 DEF Fits
<1>6. Fits(o2, f)
  <2>1. y <= y
    BY <1>4
  <2> QED
    BY <1>2, <1>3, <1>5, <2>1 DEF Fits
<1>7. ok => x = y
  BY <1>3 DEF Exact
<1>8. ok => Exact(o2, f)
  BY <1>2, <1>3, <1>7 DEF Exact
<1>9. Taken(o2) = Taken(o) /\ Taken(o) \in Int
  BY <1>2, <1>3, <1>4, <1>5 DEF Taken
<1>10. ASSUME NEW i, NEW s, NEW c
       PROVE  /\ Share("free", i, s, c, o, f) <= Share("free", i, s, c, o2, f)
              /\ ok => Share("gain", i, s, c, o2, f) = Share("gain", i, s, c, o, f)
  <2>1. PICK own, opn \in BOOLEAN :
          /\ own <=> Own(o, i, s)
          /\ opn <=> o.off = "Open" /\ c = "CloseToday" /\ "EXECUTION" \in o.st
    OBVIOUS
  <2>2. own <=> Own(o2, i, s)
    BY <1>2, <2>1 DEF Own
  <2>3. /\ Share("free", i, s, c, o, f)
             = IF ~own THEN 0 ELSE IF o.off = c THEN -Taken(o)
               ELSE IF opn THEN x ELSE 0
        /\ Share("free", i, s, c, o2, f)
             = IF ~own THEN 0 ELSE IF o.off = c THEN -Taken(o)
               ELSE IF opn THEN y ELSE 0
    BY <1>2, <1>3, <1>9, <2>1, <2>2 DEF Share
  <2>4. Share("free", i, s, c, o, f) <= Share("free", i, s, c, o2, f)
    BY <1>4, <1>5, <1>9, <2>3
  <2>5. /\ Share("gain", i, s, c, o, f)
             = IF ~own THEN 0 ELSE IF o.off = "Open" THEN x ELSE -x
        /\ Share("gain", i, s, c, o2, f)
             = IF ~own THEN 0 ELSE IF o.off = "Open" THEN y ELSE -y
    BY <1>2, <1>3, <2>1, <2>2 DEF Share
  <2> QED
    BY <1>7, <2>4, <2>5
<1> QED
  BY <1>1, <1>6, <1>8, <1>10

(* Start: what the replay will find leaves no less to close. *)
LEMMA StartShares ==
  ASSUME Parts, SharesOK, Start
  PROVE  SharesOK'
<1>1. /\ track' = [r \in DOMAIN track |-> OnRspQryOrder(track[r], front[r])]
      /\ Becomes(Loaded) /\ next' = 1 /\ up' = "replay"
      /\ UNCHANGED <<saved, front, held, day, crashes, missed>>
  BY DEF Start
<1>2. Parts'
  BY StartStep
<1>3. PICK n, tr, S : n = Len(track) /\ tr = track' /\ S = saved.instr
  OBVIOUS
<1>4. PICK ok \in BOOLEAN : ok = (missed = 0)
  OBVIOUS
<1>5. /\ track \in Seq(OrderType) /\ front \in Seq(FrontType) /\ Len(front) = n
      /\ saved.instr \in [Instrs -> PosType] /\ S \in [Instrs -> PosType]
      /\ n \in Nat /\ DOMAIN track = 1 .. n
  BY <1>3 DEF Parts, OrdersOK, SavedOK
<1>6. tr \in Seq(OrderType) /\ Len(tr) = n
  BY <1>1, <1>2, <1>3, <1>5 DEF Parts, OrdersOK
<1>7. /\ \A r \in 1 .. n : Fits(track[r], front[r]) /\ (ok => Exact(track[r], front[r]))
      /\ RoomKept(S, track, front)
      /\ ok => HeldAgrees(held, S, track, front)
  BY <1>3, <1>4 DEF SharesOK, OrdersFit
<1>8. ASSUME NEW r \in 1 .. n
      PROVE  /\ Fits(tr[r], front[r]) /\ (ok => Exact(tr[r], front[r]))
             /\ \A i, s, c : /\ Share("free", i, s, c, track[r], front[r])
                                  <= Share("free", i, s, c, tr[r], front[r])
                             /\ ok => Share("gain", i, s, c, tr[r], front[r])
                                        = Share("gain", i, s, c, track[r], front[r])
             /\ track[r] \in OrderType /\ tr[r] \in OrderType /\ front[r] \in FrontType
  <2>1. track[r] \in OrderType /\ tr[r] \in OrderType /\ front[r] \in FrontType
    BY <1>5, <1>6
  <2>2. tr[r] = OnRspQryOrder(track[r], front[r])
    BY <1>1, <1>3, <1>5
  <2>3. PICK o, f : o = track[r] /\ f = front[r]
    OBVIOUS
  <2>4. Fits(o, f) /\ (ok => Exact(o, f)) /\ o \in OrderType /\ f \in FrontType
    BY <1>7, <2>1, <2>3
  <2>5. /\ Fits(OnRspQryOrder(o, f), f)
        /\ ok => Exact(OnRspQryOrder(o, f), f)
        /\ \A i, s, c : /\ Share("free", i, s, c, o, f)
                             <= Share("free", i, s, c, OnRspQryOrder(o, f), f)
                        /\ ok => Share("gain", i, s, c, OnRspQryOrder(o, f), f)
                                   = Share("gain", i, s, c, o, f)
    BY <2>4, QueriedShares
  <2> QED
    BY <2>1, <2>2, <2>3, <2>5
<1>9. OrdersFit(tr, front, ok)
  BY <1>6, <1>8 DEF OrdersFit
<1>10. RoomKept(S, tr, front)
  <2>1. SUFFICES ASSUME NEW i \in Instrs, NEW s \in Sides, NEW c \in Closes,
                        NEW k \in 0 .. n
                 PROVE  Stock(S[i], s, c) + Shares("free", i, s, c, tr, front, k) >= 0
    BY <1>6 DEF RoomKept
  <2>2. PICK R, x, y : /\ R = 1 .. k
                       /\ x = [r \in R |-> Share("free", i, s, c, track[r], front[r])]
                       /\ y = [r \in R |-> Share("free", i, s, c, tr[r], front[r])]
    OBVIOUS
  <2>3. IsFiniteSet(R) /\ R \subseteq 1 .. n
    BY <1>5, <2>2, FS_Interval
  <2>4. ASSUME NEW r \in R
        PROVE  x[r] \in Int /\ y[r] \in Int /\ x[r] <= y[r]
    <3>1. r \in 1 .. n
      BY <2>3
    <3>2. x[r] \in Int
      BY <1>8, <2>2, <3>1, ShareInt
    <3>3. y[r] \in Int
      BY <1>8, <2>2, <3>1, ShareInt
    <3> QED
      BY <1>8, <2>2, <3>1, <3>2, <3>3
  <2>5. SumFunctionOnSet(x, R) <= SumFunctionOnSet(y, R)
    BY <2>3, <2>4, SumMono
  <2>6. SumFunctionOnSet(x, R) \in Int /\ SumFunctionOnSet(y, R) \in Int
    BY <2>3, <2>4, SumType
  <2>7. PICK h, p, q : /\ h = Stock(S[i], s, c) /\ p = SumFunctionOnSet(x, R)
                       /\ q = SumFunctionOnSet(y, R)
    OBVIOUS
  <2>8. h \in Int
    BY <1>5, <2>7 DEF Stock, PosType
  <2>9. h + p >= 0
    BY <1>3, <1>7, <2>2, <2>7 DEF RoomKept, Shares
  <2>10. h + q >= 0
    BY <2>5, <2>6, <2>7, <2>8, <2>9
  <2> QED
    BY <2>2, <2>7, <2>10 DEF Shares
<1>11. ok => HeldAgrees(held, S, tr, front)
  <2>1. SUFFICES ASSUME ok, NEW i \in Instrs, NEW s \in Sides
                 PROVE  held[i][s] = S[i][s] + Shares("gain", i, s, "Open", tr, front, n)
    BY <1>6, <2>1 DEF HeldAgrees
  <2>2. \A r \in 1 .. n : Share("gain", i, s, "Open", tr[r], front[r])
                            = Share("gain", i, s, "Open", track[r], front[r])
    BY <1>8, <2>1
  <2>3. [r \in 1 .. n |-> Share("gain", i, s, "Open", tr[r], front[r])]
          = [r \in 1 .. n |-> Share("gain", i, s, "Open", track[r], front[r])]
    BY <2>2
  <2>4. Shares("gain", i, s, "Open", tr, front, n)
          = Shares("gain", i, s, "Open", track, front, n)
    BY <2>3 DEF Shares
  <2> QED
    BY <1>3, <1>7, <2>1, <2>4 DEF HeldAgrees
<1>12. AccAgrees(Now', S, tr, front, 0, up' = "replay", ok)
  <2>1. PICK a : a = Loaded
    OBVIOUS
  <2>2. a \in AccType /\ a = Now'
    BY <1>1, <2>1, LoadedGood, NowBecomes DEF Parts, SavedOK
  <2>3. (\A i \in Instrs : a.instr[i] = CarriedOver(S[i])) /\ a.unfilled = 0
    BY <1>3, <2>1 DEF Loaded, Account, VolFromJson
  <2>4. \A i \in Instrs, s \in Sides : S[i][s] >= 0
    BY <1>5, <1>7, RoomAtStart
  <2>5. AccAgrees(a, S, tr, front, 0, up' = "replay", ok)
    BY <1>5, <2>3, <2>4, LoadedAgrees
  <2> QED
    BY <2>2, <2>5
<1>13. Told' = 0 /\ 0 \in 0 .. Len(track')
  BY <1>1, <1>3, <1>5, <1>6 DEF Told
<1> QED
  BY <1>1, <1>3, <1>4, <1>9, <1>10, <1>11, <1>12, <1>13 DEF SharesOK

-----------------------------------------------------------------------------
(* The positions of an account that was told of its orders: they are not   *)
(* negative, and if nothing was missed they are those at the front.        *)
LEMMA SharesIngNat ==
  ASSUME NEW tr \in Seq(OrderType), NEW fr \in Seq(FrontType),
         Len(fr) = Len(tr), NEW k \in 0 .. Len(tr), OrdersFit(tr, fr, FALSE),
         NEW i, NEW s, NEW c
  PROVE  Shares("ing", i, s, c, tr, fr, k) \in Nat
<1>1. PICK R : R = 1 .. k
  OBVIOUS
<1>2. PICK g : g = [r \in R |-> Share("ing", i, s, c, tr[r], fr[r])]
  OBVIOUS
<1>3. IsFiniteSet(R)
  BY <1>1, FS_Interval
<1>4. ASSUME NEW r \in R
      PROVE  g[r] \in Nat
  <2>1. /\ tr[r] \in OrderType /\ fr[r] \in FrontType /\ Fits(tr[r], fr[r])
    BY <1>1 DEF OrdersFit
  <2>2. PICK o, f : o = tr[r] /\ f = fr[r]
    OBVIOUS
  <2>3. o.vol \in Int /\ f.traded \in Int /\ f.traded <= o.vol
    BY <2>1, <2>2, AccountAssumption DEF OrderType, FrontType, Fits
  <2>4. o.vol - f.traded \in Nat
    BY <2>3
  <2>5. Share("ing", i, s, c, o, f) \in Nat
    BY <2>4 DEF Share
  <2> QED
    BY <1>2, <2>2, <2>5
<1>5. SumFunctionOnSet(g, R) \in Nat
  BY <1>3, <1>4, SumNat
<1> QED
  BY <1>1, <1>2, <1>5 DEF Shares

LEMMA PosNotNegative ==
  ASSUME Parts, SharesOK, up # "down", NEW i \in Instrs, NEW s \in Sides
  PROVE  instr[i].side[s].pos >= 0
<1>1. PICK x : x = instr[i].side[s]
  OBVIOUS
<1>2. x \in SideType /\ x.pos = x.yd + x.td
  BY <1>1 DEF Parts, MemOK, GoodVol, VolType, Balanced
<1>3. PICK n : n = Told
  OBVIOUS
<1>4. /\ FreeAgrees(Now, saved.instr, track, front, n, up = "replay", i, s)
      /\ IngAgrees(Now, track, front, n, missed = 0, i, s)
      /\ n \in 0 .. Len(track)
  BY <1>3 DEF SharesOK, AccAgrees
<1>5. Now.instr[i].side[s] = x
  BY <1>1 DEF Now, Account
<1>6. ASSUME NEW c \in Closes
      PROVE  Free(x, c) >= 0 /\ Ing(x, c) >= 0
  <2>1. 0 <= Free(x, c) /\ Free(x, c) \in Int
    BY <1>2, <1>4, <1>5, SideInts DEF FreeAgrees
  <2>2. c \in Offs
    BY DEF Closes, Offs
  <2>3. PICK p : p = Shares("ing", i, s, c, track, front, n)
    OBVIOUS
  <2>4. p \in Nat
    <3>1. OrdersFit(track, front, FALSE)
      BY DEF SharesOK, OrdersFit
    <3> QED
      BY <1>4, <2>3, <3>1, SharesIngNat DEF Parts, OrdersOK
  <2>5. p <= Ing(x, c) /\ Ing(x, c) \in Int
    BY <1>2, <1>4, <1>5, <2>2, <2>3, SideInts DEF IngAgrees
  <2> QED
    BY <2>1, <2>4, <2>5
<1>7. /\ x.yd - x.yd_cls_ing >= 0 /\ x.yd_cls_ing >= 0
      /\ x.td - x.td_cls_ing >= 0 /\ x.td_cls_ing >= 0
  BY <1>6 DEF Closes, Free, Ing
<1>8. /\ x.yd \in Int /\ x.yd_cls_ing \in Int /\ x.td \in Int /\ x.td_cls_ing \in Int
  BY <1>2 DEF SideType
<1>9. x.yd + x.td >= 0
  BY <1>7, <1>8
<1> QED
  BY <1>1, <1>2, <1>9

LEMMA PosIsHeld ==
  ASSUME Parts, SharesOK, up = "up", missed = 0, NEW i \in Instrs, NEW s \in Sides
  PROVE  instr[i].side[s].pos = held[i][s]
<1>1. Told = Len(track)
  BY DEF Told
<1>2. GainAgrees(Now, saved.instr, track, front, Len(track), missed = 0, i, s)
  BY <1>1 DEF SharesOK, AccAgrees
<1>3. instr[i].side[s].pos
        = saved.instr[i][s] + Shares("gain", i, s, "Open", track, front, Len(track))
  BY <1>2 DEF GainAgrees, Now, Account
<1> QED
  BY <1>3 DEF SharesOK, HeldAgrees

(* A day begins without orders, and with what was saved. *)
LEMMA EmptyDay ==
  ASSUME NEW S \in [Instrs -> PosType], \A i \in Instrs, s \in Sides : S[i][s] >= 0,
         NEW ok
  PROVE  OrdersFit(<<>>, <<>>, ok) /\ RoomKept(S, <<>>, <<>>)
<1>1. OrdersFit(<<>>, <<>>, ok)
  BY DEF OrdersFit
<1>2. ASSUME NEW i \in Instrs, NEW s \in Sides, NEW c \in Closes
      PROVE  Stock(S[i], s, c) + Shares("free", i, s, c, <<>>, <<>>, 0) >= 0
  <2>1. Shares("free", i, s, c, <<>>, <<>>, 0) = 0
    BY SharesNone
  <2>2. Stock(S[i], s, c) \in Int /\ Stock(S[i], s, c) >= 0
    BY DEF Stock, PosType
  <2> QED
    BY <2>1, <2>2
<1>3. RoomKept(S, <<>>, <<>>)
  <2>1. \A k \in 0 .. Len(<<>>) : k = 0
    OBVIOUS
  <2> QED
    BY <1>2, <2>1 DEF RoomKept
<1> QED
  BY <1>1, <1>3

LEMMA SavedDay ==
  ASSUME Parts, SharesOK, up = "up", DayOver, Save, held' = held, missed' = missed
  PROVE  /\ OrdersFit(track', front', missed' = 0)
         /\ RoomKept(saved'.instr, track', front')
         /\ missed' = 0 => HeldAgrees(held', saved'.instr, track', front')
         /\ saved'.instr \in [Instrs -> PosType]
         /\ \A i \in Instrs, s \in Sides : saved'.instr[i][s] >= 0
<1>1. track' = <<>> /\ front' = <<>>
  BY DEF DayOver
<1>2. saved'.instr = [i \in Instrs |-> Pos(instr[i])]
  BY DEF Save, VolToJson
<1>3. saved'.instr \in [Instrs -> PosType]
  BY SaveGood DEF Parts, SavedOK
<1>4. \A i \in Instrs, s \in Sides : saved'.instr[i][s] = instr[i].side[s].pos
  BY <1>2 DEF Pos
<1>5. \A i \in Instrs, s \in Sides : saved'.instr[i][s] >= 0
  BY <1>4, PosNotNegative
<1>6. OrdersFit(track', front', missed' = 0) /\ RoomKept(saved'.instr, track', front')
  BY <1>1, <1>3, <1>5, EmptyDay
<1>7. missed' = 0 => HeldAgrees(held', saved'.instr, track', front')
  <2>1. SUFFICES ASSUME missed = 0, NEW i \in Instrs, NEW s \in Sides
                 PROVE  held[i][s] = saved'.instr[i][s]
                          + Shares("gain", i, s, "Open", <<>>, <<>>, 0)
    <3>1. Len(<<>>) = 0
      OBVIOUS
    <3> QED
      BY <1>1, <2>1, <3>1 DEF HeldAgrees
  <2>2. held[i][s] = saved'.instr[i][s]
    BY <1>4, <2>1, PosIsHeld
  <2>3. saved'.instr[i][s] \in Int
    BY <1>3 DEF PosType
  <2> QED
    BY <2>2, <2>3, SharesNone
<1> QED
  BY <1>3, <1>5, <1>6, <1>7

LEMMA CloseShares ==
  ASSUME Parts, SharesOK, Close
  PROVE  SharesOK'
<1>1. /\ up = "up" /\ DayOver /\ Save /\ up' = "down"
      /\ held' = held /\ missed' = missed
  BY DEF Close
<1>2. /\ OrdersFit(track', front', missed' = 0)
      /\ RoomKept(saved'.instr, track', front')
      /\ missed' = 0 => HeldAgrees(held', saved'.instr, track', front')
  BY <1>1, SavedDay
<1> QED
  BY <1>1, <1>2 DEF SharesOK

LEMMA DownOverShares ==
  ASSUME Parts, SharesOK, DownOver
  PROVE  SharesOK'
<1>1. /\ up' = "down" /\ missed' # 0 /\ track' = <<>> /\ front' = <<>>
      /\ saved' = saved
  BY DEF DownOver, DayOver, Parts, RestOK
<1>2. saved.instr \in [Instrs -> PosType] /\ track \in Seq(OrderType)
  BY DEF Parts, SavedOK, OrdersOK
<1>3. \A i \in Instrs, s \in Sides : saved.instr[i][s] >= 0
  BY <1>2, RoomAtStart DEF SharesOK
<1>4. OrdersFit(track', front', missed' = 0) /\ RoomKept(saved'.instr, track', front')
  BY <1>1, <1>2, <1>3, EmptyDay
<1> QED
  BY <1>1, <1>4 DEF SharesOK

LEMMA SwitchDayShares ==
  ASSUME Parts, SharesOK, SwitchDay
  PROVE  SharesOK'
<1>1. /\ up = "up" /\ DayOver /\ Save /\ up' = "up"
      /\ held' = held /\ missed' = missed /\ track' = <<>> /\ front' = <<>>
  BY DEF SwitchDay, DayOver
<1>2. /\ OrdersFit(track', front', missed' = 0)
      /\ RoomKept(saved'.instr, track', front')
      /\ missed' = 0 => HeldAgrees(held', saved'.instr, track', front')
      /\ saved'.instr \in [Instrs -> PosType]
      /\ \A i \in Instrs, s \in Sides : saved'.instr[i][s] >= 0
  BY <1>1, SavedDay
<1>3. Now' = Loaded'
  BY SwitchDayLoads
<1>4. PICK a, S : a = Now' /\ S = saved'.instr
  OBVIOUS
<1>5. (\A i \in Instrs : a.instr[i] = CarriedOver(S[i])) /\ a.unfilled = 0
  BY <1>3, <1>4 DEF Loaded, Account, VolFromJson
<1>6. /\ S \in [Instrs -> PosType]
      /\ \A i \in Instrs, s \in Sides : S[i][s] >= 0
  BY <1>2, <1>4
<1>7. AccAgrees(a, S, <<>>, <<>>, 0, up' = "replay", missed' = 0)
  BY <1>5, <1>6, LoadedAgrees
<1>8. Told' = 0 /\ 0 \in 0 .. Len(track')
  BY <1>1 DEF Told
<1> QED
  BY <1>1, <1>2, <1>4, <1>7, <1>8 DEF SharesOK

LEMMA InitShares ==
  ASSUME Init
  PROVE  SharesOK
<1>1. Parts
  BY InitParts
<1>2. /\ up = "up" /\ track = <<>> /\ front = <<>> /\ missed = 0
      /\ saved.instr = held
      /\ instr = [i \in Instrs |-> ZeroVol] /\ unfilled = 0
      /\ held = [i \in Instrs |-> Pos(ZeroVol)]
  BY DEF Init
<1>3. held \in [Instrs -> PosType] /\ saved.instr \in [Instrs -> PosType]
  BY <1>1 DEF Parts, OrdersOK, SavedOK
<1>4. Pos(ZeroVol) = [s \in Sides |-> 0]
  BY DEF Pos, ZeroVol, ZeroSide
<1>5. \A i \in Instrs, s \in Sides : saved.instr[i][s] = 0
  BY <1>2, <1>4
<1>6. \A i \in Instrs, s \in Sides : saved.instr[i][s] >= 0
  BY <1>5
<1>7. OrdersFit(track, front, missed = 0) /\ RoomKept(saved.instr, track, front)
  BY <1>2, <1>3, <1>6, EmptyDay
<1>8. CarriedOver(Pos(ZeroVol)) = ZeroVol
  BY <1>4 DEF CarriedOver, ZeroVol, ZeroSide
<1>9. PICK a, S : a = Now /\ S = saved.instr
  OBVIOUS
<1>10. (\A i \in Instrs : a.instr[i] = CarriedOver(S[i])) /\ a.unfilled = 0
  BY <1>2, <1>8, <1>9 DEF Now, Account
<1>11. S \in [Instrs -> PosType] /\ \A i \in Instrs, s \in Sides : S[i][s] >= 0
  BY <1>3, <1>6, <1>9
<1>12. AccAgrees(a, S, <<>>, <<>>, 0, up = "replay", missed = 0)
  BY <1>10, <1>11, LoadedAgrees
<1>13. Told = 0 /\ 0 \in 0 .. Len(track)
  BY <1>2 DEF Told
<1>14. HeldAgrees(held, saved.instr, track, front)
  <2>1. SUFFICES ASSUME NEW i \in Instrs, NEW s \in Sides
                 PROVE  held[i][s] = saved.instr[i][s]
                          + Shares("gain", i, s, "Open", <<>>, <<>>, 0)
    <3>1. Len(<<>>) = 0
      OBVIOUS
    <3> QED
      BY <1>2, <2>1, <3>1 DEF HeldAgrees
  <2>2. held[i][s] = saved.instr[i][s] /\ held[i][s] \in Int
    BY <1>2, <1>3 DEF PosType
  <2> QED
    BY <2>2, SharesNone
<1> QED
  BY <1>2, <1>7, <1>9, <1>12, <1>13, <1>14 DEF SharesOK

-----------------------------------------------------------------------------
(* The positions of a product are those of its instruments. *)
SumsOfPrds(a) ==
  \A p \in Prds, s \in Sides, c \in Counters :
    Counter(a.prd[p].side[s], c) = OfPrd(Counts(a.instr, c), p, s)

SavedOfPrds(sv) ==
  \A p \in Prds, s \in Sides : sv.prd[p][s] = OfPrd(sv.instr, p, s)

LEMMA PrdsParts == PrdsAgree <=> SumsOfPrds(Now) /\ SavedOfPrds(saved)
BY DEF PrdsAgree, SumsOfPrds, SavedOfPrds, Now, Account

(* An order moves its product as it moves its instrument. *)
LEMMA CounterMoves ==
  ASSUME NEW x \in SideType, NEW y \in SideType, NEW off \in Offs,
         NEW d \in Int, NEW t \in Int, Moves(x, y, off, d, t), NEW c \in Counters
  PROVE  /\ Counter(x, c) \in Int /\ Counter(y, c) \in Int
         /\ Counter(y, c) = Counter(x, c) + (IF c = "pos" THEN Opened(off, t)
                                             ELSE IF c = off THEN d ELSE 0)
<1>1. CASE c = "pos"
  BY <1>1, SideInts DEF Counter, Moves
<1>2. CASE c # "pos"
  <2>1. c \in Offs /\ Counter(x, c) = Ing(x, c) /\ Counter(y, c) = Ing(y, c)
    BY <1>2 DEF Counters, Counter
  <2> QED
    BY <1>2, <2>1, SideInts DEF Moves
<1> QED
  BY <1>1, <1>2

LEMMA SumsOfPrdsKept ==
  ASSUME NEW a \in AccType, NEW b \in AccType, NEW o \in OrderType,
         NEW d \in Int, NEW t \in Int, AccMoves(a, b, o, d, t), SumsOfPrds(a)
  PROVE  SumsOfPrds(b)
<1>1. SUFFICES ASSUME NEW p \in Prds, NEW s \in Sides, NEW c \in Counters
               PROVE  Counter(b.prd[p].side[s], c) = OfPrd(Counts(b.instr, c), p, s)
  BY DEF SumsOfPrds
<1>2. PICK e, m : e = o.instr /\ m = IF c = "pos" THEN Opened(o.off, t)
                                     ELSE IF c = o.off THEN d ELSE 0
  OBVIOUS
<1>3. e \in Instrs /\ m \in Int /\ o.off \in Offs
  BY <1>2 DEF OrderType, Opened
<1>4. PICK f, g :
        /\ f = [i \in Instrs |-> IF PrdOf[i] = p THEN Counts(a.instr, c)[i][s] ELSE 0]
        /\ g = [i \in Instrs |-> IF PrdOf[i] = p THEN Counts(b.instr, c)[i][s] ELSE 0]
  OBVIOUS
<1>5. ASSUME NEW i \in Instrs
      PROVE  /\ Counts(a.instr, c)[i][s] \in Int /\ Counts(b.instr, c)[i][s] \in Int
             /\ Counts(b.instr, c)[i][s]
                  = Counts(a.instr, c)[i][s] + (IF Own(o, i, s) THEN m ELSE 0)
  <2>1. PICK x, y : x = a.instr[i].side[s] /\ y = b.instr[i].side[s]
    OBVIOUS
  <2>2. x \in SideType /\ y \in SideType
    BY <2>1, AccSides
  <2>3. /\ Counts(a.instr, c)[i][s] = Counter(x, c)
        /\ Counts(b.instr, c)[i][s] = Counter(y, c)
    BY <2>1 DEF Counts
  <2>4. Counter(x, c) \in Int /\ Counter(y, c) \in Int
    BY <2>2, SideInts DEF Counter, Counters
  <2>5. CASE Own(o, i, s)
    <3>1. Moves(x, y, o.off, d, t)
      BY <2>1, <2>5 DEF AccMoves
    <3> QED
      BY <1>2, <1>3, <2>2, <2>3, <2>4, <2>5, <3>1, CounterMoves
  <2>6. CASE ~Own(o, i, s)
    <3>1. y = x
      BY <2>1, <2>6 DEF AccMoves
    <3> QED
      BY <2>3, <2>4, <2>6, <3>1
  <2> QED
    BY <2>5, <2>6
<1>6. \A i \in Instrs : f[i] \in Int /\ g[i] \in Int
  BY <1>4, <1>5
<1>7. \A i \in Instrs : i # e => g[i] = f[i]
  <2>1. \A i \in Instrs : i # e => ~Own(o, i, s)
    BY <1>2 DEF Own
  <2> QED
    BY <1>4, <1>5, <2>1
<1>8. g[e] = f[e] + (IF OwnPrd(o, p, s) THEN m ELSE 0)
  <2>1. Own(o, e, s) /\ PrdOf[e] = p <=> OwnPrd(o, p, s)
    BY <1>2 DEF Own, OwnPrd
  <2>2. PICK x, y : x = Counts(a.instr, c)[e][s] /\ y = Counts(b.instr, c)[e][s]
    OBVIOUS
  <2>3. x \in Int /\ y = x + (IF Own(o, e, s) THEN m ELSE 0)
    BY <1>3, <1>5, <2>2
  <2>4. /\ f[e] = IF PrdOf[e] = p THEN x ELSE 0
        /\ g[e] = IF PrdOf[e] = p THEN y ELSE 0
    BY <1>3, <1>4, <2>2
  <2>5. PICK own, its \in BOOLEAN : (own <=> Own(o, e, s)) /\ (its <=> PrdOf[e] = p)
    OBVIOUS
  <2>6. g[e] = f[e] + (IF own /\ its THEN m ELSE 0)
    BY <1>3, <2>3, <2>4, <2>5
  <2> QED
    BY <2>1, <2>5, <2>6
<1>9. SumFunctionOnSet(g, Instrs) = SumFunctionOnSet(f, Instrs) - f[e] + g[e]
  <2>1. (\A i \in Instrs : f[i] \in Int) /\ g[e] \in Int /\ IsFiniteSet(Instrs)
    BY <1>3, <1>6, AccountAssumption
  <2> QED
    BY <1>3, <1>7, <2>1, SumChange
<1>10. SumFunctionOnSet(f, Instrs) \in Int
  BY <1>6, SumType, AccountAssumption
<1>11. Counter(a.prd[p].side[s], c) = SumFunctionOnSet(f, Instrs)
  BY <1>4 DEF SumsOfPrds, OfPrd
<1>12. Counter(b.prd[p].side[s], c)
         = Counter(a.prd[p].side[s], c) + (IF OwnPrd(o, p, s) THEN m ELSE 0)
  <2>1. PICK x, y : x = a.prd[p].side[s] /\ y = b.prd[p].side[s]
    OBVIOUS
  <2>2. x \in SideType /\ y \in SideType
    BY <2>1, AccSides
  <2>3. CASE OwnPrd(o, p, s)
    <3>1. Moves(x, y, o.off, d, t)
      BY <2>1, <2>3 DEF AccMoves
    <3> QED
      BY <1>2, <1>3, <2>1, <2>2, <2>3, <3>1, CounterMoves
  <2>4. CASE ~OwnPrd(o, p, s)
    <3>1. y = x
      BY <2>1, <2>4 DEF AccMoves
    <3>2. Counter(x, c) \in Int
      BY <2>2, SideInts DEF Counter, Counters
    <3> QED
      BY <2>1, <2>4, <3>1, <3>2
  <2> QED
    BY <2>3, <2>4
<1>13. SumFunctionOnSet(g, Instrs)
         = SumFunctionOnSet(f, Instrs) + (IF OwnPrd(o, p, s) THEN m ELSE 0)
  <2>1. PICK own \in BOOLEAN : own <=> OwnPrd(o, p, s)
    OBVIOUS
  <2>2. g[e] = f[e] + (IF own THEN m ELSE 0) /\ f[e] \in Int
    BY <1>3, <1>6, <1>8, <2>1
  <2>3. SumFunctionOnSet(g, Instrs)
         = SumFunctionOnSet(f, Instrs) + (IF own THEN m ELSE 0)
    BY <1>3, <1>9, <1>10, <2>2
  <2> QED
    BY <2>1, <2>3
<1> QED
  BY <1>4, <1>11, <1>12, <1>13 DEF OfPrd

(* So do saving, loading, and beginning with nothing. *)
LEMMA LoadedOfPrds ==
  ASSUME NEW sv \in [instr: [Instrs -> PosType], prd: [Prds -> PosType]],
         SavedOfPrds(sv), NEW a,
         \A i \in Instrs : a.instr[i] = CarriedOver(sv.instr[i]),
         \A p \in Prds : a.prd[p] = CarriedOver(sv.prd[p])
  PROVE  SumsOfPrds(a)
<1>1. \A q \in PosType, s \in Sides, c \in Counters :
        Counter(CarriedOver(q).side[s], c) = IF c = "pos" THEN q[s] ELSE 0
  BY DEF CarriedOver, Counter, Ing
<1>2. ASSUME NEW p \in Prds, NEW s \in Sides, NEW c \in Counters
      PROVE  Counter(a.prd[p].side[s], c) = OfPrd(Counts(a.instr, c), p, s)
  <2>1. Counter(a.prd[p].side[s], c) = IF c = "pos" THEN sv.prd[p][s] ELSE 0
    BY <1>1
  <2>2. \A i \in Instrs :
          Counts(a.instr, c)[i][s] = IF c = "pos" THEN sv.instr[i][s] ELSE 0
    BY <1>1 DEF Counts
  <2>3. CASE c = "pos"
    <3>1. [i \in Instrs |-> IF PrdOf[i] = p THEN Counts(a.instr, c)[i][s] ELSE 0]
            = [i \in Instrs |-> IF PrdOf[i] = p THEN sv.instr[i][s] ELSE 0]
      BY <2>2, <2>3
    <3>2. sv.prd[p][s] = OfPrd(sv.instr, p, s)
      BY DEF SavedOfPrds
    <3> QED
      BY <2>1, <2>3, <3>1, <3>2 DEF OfPrd
  <2>4. CASE c # "pos"
    <3>1. PICK f :
            f = [i \in Instrs |-> IF PrdOf[i] = p THEN Counts(a.instr, c)[i][s] ELSE 0]
      OBVIOUS
    <3>2. \A i \in Instrs : f[i] = 0
      BY <2>2, <2>4, <3>1
    <3>3. SumFunctionOnSet(f, Instrs) = 0
      BY <3>2, SumZero, AccountAssumption
    <3> QED
      BY <2>1, <2>4, <3>1, <3>3 DEF OfPrd
  <2> QED
    BY <2>3, <2>4
<1> QED
  BY <1>2 DEF SumsOfPrds

LEMMA SaveOfPrds ==
  ASSUME SumsOfPrds(Now), Save
  PROVE  SavedOfPrds(saved')
<1>1. /\ saved'.instr = Counts(instr, "pos") /\ "pos" \in Counters
      /\ \A p \in Prds, s \in Sides : saved'.prd[p][s] = Counter(prd[p].side[s], "pos")
  BY DEF Save, VolToJson, Pos, Counts, Counter, Counters
<1> QED
  BY <1>1 DEF SavedOfPrds, SumsOfPrds, Now, Account

LEMMA NothingOfPrds ==
  SumsOfPrds(Account([i \in Instrs |-> ZeroVol], [p \in Prds |-> ZeroVol], 0))
<1>1. PICK a : a = Account([i \in Instrs |-> ZeroVol], [p \in Prds |-> ZeroVol], 0)
  OBVIOUS
<1>2. ASSUME NEW p \in Prds, NEW s \in Sides, NEW c \in Counters
      PROVE  Counter(a.prd[p].side[s], c) = OfPrd(Counts(a.instr, c), p, s)
  <2>1. /\ Counter(a.prd[p].side[s], c) = 0
        /\ \A i \in Instrs : Counts(a.instr, c)[i][s] = 0
    BY <1>1 DEF Account, ZeroVol, ZeroSide, Counts, Counter, Ing
  <2>2. PICK f :
          f = [i \in Instrs |-> IF PrdOf[i] = p THEN Counts(a.instr, c)[i][s] ELSE 0]
    OBVIOUS
  <2>3. \A i \in Instrs : f[i] = 0
    BY <2>1, <2>2
  <2>4. SumFunctionOnSet(f, Instrs) = 0
    BY <2>3, SumZero, AccountAssumption
  <2> QED
    BY <2>1, <2>2, <2>4 DEF OfPrd
<1> QED
  BY <1>1, <1>2 DEF SumsOfPrds

LEMMA InitPrds ==
  ASSUME Init
  PROVE  PrdsAgree
<1>1. SumsOfPrds(Now)
  BY NothingOfPrds DEF Init, Now
<1>2. /\ saved.instr = Counts(instr, "pos") /\ "pos" \in Counters
      /\ \A p \in Prds, s \in Sides : saved.prd[p][s] = Counter(prd[p].side[s], "pos")
  BY DEF Init, Pos, Counts, Counter, Counters
<1>3. SavedOfPrds(saved)
  BY <1>1, <1>2 DEF SavedOfPrds, SumsOfPrds, Now, Account
<1> QED
  BY <1>1, <1>3, PrdsParts

(* The steps that move the account by an order *)
LEMMA MovePrds ==
  ASSUME Parts, PrdsAgree, NEW b \in AccType, Becomes(b), saved' = saved,
         NEW o \in OrderType, NEW d \in Int, NEW t \in Int, AccMoves(Now, b, o, d, t)
  PROVE  PrdsAgree'
<1>1. PICK a : a = Now
  OBVIOUS
<1>2. a \in AccType /\ SumsOfPrds(a) /\ AccMoves(a, b, o, d, t)
  BY <1>1, NowGood, PrdsParts DEF Parts
<1>3. SumsOfPrds(b)
  BY <1>2, SumsOfPrdsKept
<1>4. Now' = b
  BY NowBecomes
<1>5. SavedOfPrds(saved)
  BY PrdsParts
<1> QED
  BY <1>3, <1>4, <1>5 DEF PrdsAgree, SumsOfPrds, SavedOfPrds, Now, Account

LEMMA OrderPrds ==
  ASSUME Parts, SharesOK, PrdsAgree,
         \/ \E i \in Instrs, dir \in Dirs, off \in Offs, v \in 1 .. MaxVol :
              NewOrder(i, dir, off, v)
         \/ \E r \in DOMAIN track :
              (\E n \in 1 .. MaxVol : OnRtnTrade(r, n)) \/ OnRtnClosed(r)
         \/ Replay
  PROVE  PrdsAgree'
<1>1. /\ track \in Seq(OrderType) /\ front \in Seq(FrontType)
      /\ Len(front) = Len(track) /\ Now \in AccType
  BY NowGood DEF Parts, OrdersOK
<1>2. ASSUME NEW i \in Instrs, NEW dir \in Dirs, NEW off \in Offs,
             NEW v \in 1 .. MaxVol, NewOrder(i, dir, off, v)
      PROVE  PrdsAgree'
  <2>1. PICK o : o = [instr |-> i, dir |-> dir, off |-> off, vol |-> v,
                      traded |-> 0, st |-> {"TDSEND"}]
    OBVIOUS
  <2>2. o \in OrderType /\ o.vol \in Int /\ 0 \in Int
    BY <2>1, AccountAssumption DEF OrderType
  <2>3. Becomes(OnNew(Now, o)) /\ saved' = saved
    BY <1>2, <2>1 DEF NewOrder
  <2>4. PICK b, z : b = OnNew(Now, o) /\ z = 0
    OBVIOUS
  <2>5. b \in AccType /\ AccMoves(Now, b, o, o.vol, z) /\ Becomes(b) /\ z \in Int
    BY <1>1, <2>2, <2>3, <2>4, OnNewGood, OnNewMoves
  <2> QED
    BY <2>2, <2>3, <2>5, MovePrds
<1>3. ASSUME NEW r \in DOMAIN track, NEW n \in 1 .. MaxVol, OnRtnTrade(r, n)
      PROVE  PrdsAgree'
  <2>1. PICK o : o = [track[r] EXCEPT !.traded = track[r].traded + n,
                        !.st = @ \cup {"EXECUTION"} \cup
                          (IF track[r].traded + n >= track[r].vol
                           THEN {"CLOSED"} ELSE {})]
    OBVIOUS
  <2>2. /\ track' = [track EXCEPT ![r] = o] /\ saved' = saved
        /\ Becomes(OnTrd(Now, o, n))
    BY <1>3, <2>1 DEF OnRtnTrade
  <2>3. o \in OrderType
    <3>1. track' \in Seq(OrderType)
      BY <1>3, OnRtnTradeStep DEF Parts, OrdersOK
    <3>2. r \in DOMAIN track' /\ track'[r] = o
      BY <1>1, <2>2
    <3> QED
      BY <3>1, <3>2
  <2>4. n \in Int /\ -n \in Int
    BY AccountAssumption
  <2>5. PICK b, d : b = OnTrd(Now, o, n) /\ d = -n
    OBVIOUS
  <2>6. b \in AccType /\ AccMoves(Now, b, o, d, n) /\ Becomes(b) /\ d \in Int
    BY <1>1, <2>2, <2>3, <2>4, <2>5, OnTrdGood, OnTrdMoves
  <2> QED
    BY <2>2, <2>3, <2>4, <2>6, MovePrds
<1>4. ASSUME NEW r \in DOMAIN track, OnRtnClosed(r)
      PROVE  PrdsAgree'
  <2>1. PICK o, left : o = track[r] /\ left = track[r].vol - front[r].traded
    OBVIOUS
  <2>2. saved' = saved /\ Becomes(OnCxl(Now, o, left))
    BY <1>4, <2>1 DEF OnRtnClosed
  <2>3. o \in OrderType /\ left \in Int /\ -left \in Int
    <3>1. o \in OrderType /\ front[r] \in FrontType
      BY <1>1, <2>1
    <3>2. o.vol \in Int /\ front[r].traded \in Int
      BY <3>1, AccountAssumption DEF OrderType, FrontType
    <3> QED
      BY <2>1, <3>1, <3>2
  <2>4. PICK b, d, z : b = OnCxl(Now, o, left) /\ d = -left /\ z = 0
    OBVIOUS
  <2>5. b \in AccType /\ AccMoves(Now, b, o, d, z) /\ Becomes(b) /\ d \in Int /\ z \in Int
    BY <1>1, <2>2, <2>3, <2>4, OnCxlGood, OnCxlMoves
  <2> QED
    BY <2>2, <2>3, <2>5, MovePrds
<1>5. CASE Replay
  <2>1. PICK o : o = track[next]
    OBVIOUS
  <2>2. saved' = saved /\ Becomes(OnOrderTrack(Now, o)) /\ next \in 1 .. Len(track)
    BY <1>5, <2>1 DEF Replay, Parts, RestOK, OrdersOK
  <2>3. o \in OrderType /\ "TDSEND" \in o.st
    BY <1>1, <2>1, <2>2 DEF SharesOK, OrdersFit, Fits
  <2>4. PICK b, d, t : /\ b = OnOrderTrack(Now, o) /\ t = Replayed(o)
                       /\ d = Taken(o) - Replayed(o)
    OBVIOUS
  <2>5. d \in Int /\ t \in Int
    <3>1. o.vol \in Int /\ o.traded \in Int
      BY <2>3, AccountAssumption DEF OrderType
    <3> QED
      BY <2>4, <3>1 DEF Taken, Replayed
  <2>6. b \in AccType /\ AccMoves(Now, b, o, d, t) /\ Becomes(b)
    BY <1>1, <2>2, <2>3, <2>4, OnOrderTrackGood, OnOrderTrackMoves
  <2> QED
    BY <2>2, <2>3, <2>5, <2>6, MovePrds
<1> QED
  BY <1>2, <1>3, <1>4, <1>5

LEMMA OtherPrds ==
  ASSUME Parts, PrdsAgree,
         \/ \E r \in DOMAIN track : Missed(r)
         \/ Crash \/ Start \/ Listen \/ SwitchDay \/ Close \/ DownOver
         \/ UNCHANGED vars
  PROVE  PrdsAgree'
<1>1. SumsOfPrds(Now) /\ SavedOfPrds(saved)
  BY PrdsParts
<1>2. PrdsAgree' <=> SumsOfPrds(Now') /\ SavedOfPrds(saved')
  BY DEF PrdsAgree, SumsOfPrds, SavedOfPrds, Now, Account
<1>3. CASE (\E r \in DOMAIN track : Missed(r)) \/ Listen \/ DownOver \/ UNCHANGED vars
  <2>1. Now' = Now /\ saved' = saved
    BY <1>3 DEF Missed, Listen, DownOver, vars, memVars, Now
  <2> QED
    BY <1>1, <1>2, <2>1
<1>4. CASE Crash \/ Close
  <2>1. Now' = Account([i \in Instrs |-> ZeroVol], [p \in Prds |-> ZeroVol], 0)
    BY <1>4, EmptyGood, NowBecomes DEF Crash, Close
  <2>2. SumsOfPrds(Now')
    BY <2>1, NothingOfPrds
  <2>3. SavedOfPrds(saved')
    <3>1. CASE Crash
      BY <1>1, <3>1 DEF Crash
    <3>2. CASE Close
      BY <1>1, <3>2, SaveOfPrds DEF Close
    <3> QED
      BY <1>4, <3>1, <3>2
  <2> QED
    BY <1>2, <2>2, <2>3
<1>5. CASE Start
  <2>1. PICK a, sv : a = Loaded /\ sv = saved
    OBVIOUS
  <2>2. Now' = a /\ saved' = saved
    BY <1>5, <2>1, LoadedGood, NowBecomes DEF Start, Parts, SavedOK
  <2>3. /\ \A i \in Instrs : a.instr[i] = CarriedOver(sv.instr[i])
        /\ \A p \in Prds : a.prd[p] = CarriedOver(sv.prd[p])
    BY <2>1 DEF Loaded, Account, VolFromJson
  <2>4. SavedOfPrds(sv) /\ sv \in [instr: [Instrs -> PosType], prd: [Prds -> PosType]]
    BY <1>1, <2>1 DEF Parts, SavedOK
  <2>5. SumsOfPrds(a)
    BY <2>3, <2>4, LoadedOfPrds
  <2> QED
    BY <1>1, <1>2, <2>2, <2>5
<1>6. CASE SwitchDay
  <2>1. PICK a, sv : a = Now' /\ sv = saved'
    OBVIOUS
  <2>2. SavedOfPrds(sv)
    BY <1>1, <1>6, <2>1, SaveOfPrds DEF SwitchDay
  <2>3. sv \in [instr: [Instrs -> PosType], prd: [Prds -> PosType]]
    BY <1>6, <2>1, SaveGood DEF SwitchDay, Parts, SavedOK
  <2>4. Now' = Loaded'
    BY <1>6, SwitchDayLoads
  <2>5. /\ \A i \in Instrs : a.instr[i] = CarriedOver(sv.instr[i])
        /\ \A p \in Prds : a.prd[p] = CarriedOver(sv.prd[p])
    BY <2>1, <2>4 DEF Loaded, Account, VolFromJson
  <2>6. SumsOfPrds(a)
    BY <2>2, <2>3, <2>5, LoadedOfPrds
  <2> QED
    BY <1>2, <2>1, <2>2, <2>6
<1> QED
  BY <1>3, <1>4, <1>5, <1>6

-----------------------------------------------------------------------------
(* The shares of the orders, the room for them, and the products agree     *)
(* with the account in every reachable state.                              *)
THEOREM ShareInvHolds == Spec => [](Parts /\ ShareInv)
<1>1. Init => Parts /\ ShareInv
  BY InitParts, InitShares, InitPrds DEF ShareInv
<1>2. Parts /\ [Next]_vars => Parts'
  BY PartsStep
<1>3. Parts /\ ShareInv /\ [Next]_vars => ShareInv'
  <2> SUFFICES ASSUME Parts, SharesOK, PrdsAgree, [Next]_vars
               PROVE  SharesOK' /\ PrdsAgree'
    BY DEF ShareInv
  <2>1. ASSUME NEW i \in Instrs, NEW dir \in Dirs, NEW off \in Offs,
               NEW v \in 1 .. MaxVol, NewOrder(i, dir, off, v)
        PROVE  SharesOK' /\ PrdsAgree'
    BY <2>1, NewOrderShares, OrderPrds
  <2>2. ASSUME NEW r \in DOMAIN track, NEW n \in 1 .. MaxVol, OnRtnTrade(r, n)
        PROVE  SharesOK' /\ PrdsAgree'
    BY <2>2, OnRtnTradeShares, OrderPrds
  <2>3. ASSUME NEW r \in DOMAIN track, OnRtnClosed(r)
        PROVE  SharesOK' /\ PrdsAgree'
    BY <2>3, OnRtnClosedShares, OrderPrds
  <2>4. ASSUME NEW r \in DOMAIN track, Missed(r)
        PROVE  SharesOK' /\ PrdsAgree'
    BY <2>4, MissedShares, OtherPrds
  <2>5. CASE Crash
    BY <2>5, CrashShares, OtherPrds
  <2>6. CASE Start
    BY <2>6, StartShares, OtherPrds
  <2>7. CASE Replay
    BY <2>7, ReplayStepShares, OrderPrds
  <2>8. CASE Listen
    BY <2>8, ListenShares, OtherPrds
  <2>9. CASE SwitchDay
    BY <2>9, SwitchDayShares, OtherPrds
  <2>10. CASE Close
    BY <2>10, CloseShares, OtherPrds
  <2>11. CASE DownOver
    BY <2>11, DownOverShares, OtherPrds
  <2>12. CASE UNCHANGED vars
    BY <2>12, StutterShares, OtherPrds
  <2> QED
    BY <2>1, <2>2, <2>3, <2>4, <2>5, <2>6, <2>7, <2>8, <2>9, <2>10, <2>11,
       <2>12 DEF Next
<1> QED
  BY <1>1, <1>2, <1>3, PTL DEF Spec

(* The positions of a running engine are those at the front, whatever      *)
(* deaths, starts and replays are behind it, as long as it has missed      *)
(* nothing (save, load, onOrderTrack).                                     *)
THEOREM PositionsAlwaysAgree == Spec => []PositionsAgree
<1>1. Parts /\ ShareInv => PositionsAgree
  <2> SUFFICES ASSUME Parts, SharesOK, up = "up", missed = 0, NEW i \in Instrs
               PROVE  Pos(instr[i]) = held[i]
    BY DEF ShareInv, PositionsAgree
  <2>1. \A s \in Sides : instr[i].side[s].pos = held[i][s]
    BY PosIsHeld
  <2>2. held[i] \in [Sides -> Int]
    BY DEF Parts, OrdersOK, PosType
  <2>3. Pos(instr[i]) = [s \in Sides |-> held[i][s]]
    BY <2>1 DEF Pos
  <2> QED
    BY <2>2, <2>3
<1> QED
  BY <1>1, ShareInvHolds, PTL

(* The volume under way of an order is its share, when nothing was missed. *)
LEMMA LeftIsShare ==
  ASSUME NEW o \in OrderType, NEW f \in FrontType, Fits(o, f), Exact(o, f)
  PROVE  /\ Left(o) = IF f.open THEN o.vol - f.traded ELSE 0
         /\ Left(o) \in Int
         /\ Left(o) > 0 <=> f.open
<1>1. PICK x, z : x = o.traded /\ z = o.vol
  OBVIOUS
<1>2. x \in Int /\ z \in Int /\ x <= z /\ f.traded = x
  BY <1>1, AccountAssumption DEF OrderType, FrontType, Fits, Exact
<1>3. /\ "CANCELED" \in o.st <=> ~f.open /\ x < z
      /\ f.open => x < z
  BY <1>1, <1>2 DEF Fits, Exact
<1>4. Left(o) = IF "CANCELED" \in o.st THEN 0 ELSE z - x
  BY <1>1 DEF Left
<1>5. CASE f.open
  <2>1. Left(o) = z - x /\ z - x > 0 /\ z - x \in Int
    BY <1>2, <1>3, <1>4, <1>5
  <2> QED
    BY <1>1, <1>2, <1>5, <2>1
<1>6. CASE ~f.open
  <2>1. Left(o) = 0
    BY <1>2, <1>3, <1>4, <1>6
  <2> QED
    BY <1>6, <2>1
<1> QED
  BY <1>5, <1>6

(* The counters of volume under way are the orders under way, and the      *)
(* number of unfilled orders is theirs, whatever was replayed, as long as  *)
(* nothing was missed (onNew, onCxl, onTrd, onOrderTrack).                 *)
LEMMA FrozenFromShares ==
  ASSUME Parts, SharesOK
  PROVE  FrozenMatchesOrders
<1> SUFFICES ASSUME up = "up", missed = 0
             PROVE  /\ \A i \in Instrs, s \in Sides, off \in Offs :
                         Ing(instr[i].side[s], off)
                           = LET own == {r \in DOMAIN track :
                                           /\ track[r].instr = i /\ track[r].off = off
                                           /\ SideOf(track[r].dir, off) = s}
                             IN  SumFunctionOnSet([r \in own |-> Left(track[r])], own)
                    /\ unfilled = Cardinality({r \in DOMAIN track : Left(track[r]) > 0})
  BY DEF FrozenMatchesOrders, Ing
<1>1. PICK R, n : n = Len(track) /\ R = 1 .. n
  OBVIOUS
<1>2. /\ R = DOMAIN track /\ IsFiniteSet(R) /\ n \in Nat
  BY <1>1, FS_Interval DEF Parts, OrdersOK
<1>3. /\ Told = n
      /\ AccAgrees(Now, saved.instr, track, front, n, up = "replay", missed = 0)
  BY <1>1 DEF SharesOK, Told
<1>4. ASSUME NEW r \in R
      PROVE  /\ track[r] \in OrderType
             /\ Left(track[r]) = IF front[r].open THEN track[r].vol - front[r].traded
                                 ELSE 0
             /\ Left(track[r]) \in Int
             /\ Left(track[r]) > 0 <=> front[r].open
  <2>1. /\ track[r] \in OrderType /\ front[r] \in FrontType
        /\ Fits(track[r], front[r]) /\ Exact(track[r], front[r])
    BY <1>1 DEF Parts, OrdersOK, SharesOK, OrdersFit
  <2>2. PICK o, f : o = track[r] /\ f = front[r]
    OBVIOUS
  <2>3. /\ Left(o) = IF f.open THEN o.vol - f.traded ELSE 0
        /\ Left(o) \in Int
        /\ Left(o) > 0 <=> f.open
    BY <2>1, <2>2, LeftIsShare
  <2> QED
    BY <2>1, <2>2, <2>3
<1>5. ASSUME NEW i \in Instrs, NEW s \in Sides, NEW off \in Offs
      PROVE  Ing(instr[i].side[s], off)
               = LET own == {r \in DOMAIN track :
                               /\ track[r].instr = i /\ track[r].off = off
                               /\ SideOf(track[r].dir, off) = s}
                 IN  SumFunctionOnSet([r \in own |-> Left(track[r])], own)
  <2>1. PICK own : own = {r \in R : /\ track[r].instr = i /\ track[r].off = off
                                    /\ SideOf(track[r].dir, off) = s}
    OBVIOUS
  <2>2. PICK f, g : /\ f = [r \in own |-> Left(track[r])]
                    /\ g = [r \in R |-> Share("ing", i, s, off, track[r], front[r])]
    OBVIOUS
  <2>3. own \subseteq R /\ \A r \in own : f[r] \in Int
    BY <1>4, <2>1, <2>2
  <2>4. \A r \in R : g[r] = IF r \in own THEN f[r] ELSE 0
    <3>1. SUFFICES ASSUME NEW r \in R
                   PROVE  g[r] = IF r \in own THEN f[r] ELSE 0
      OBVIOUS
    <3>2. g[r] = Share("ing", i, s, off, track[r], front[r])
      BY <2>2
    <3>3. CASE r \in own
      <4>1. Own(track[r], i, s) /\ track[r].off = off
        BY <2>1, <3>3 DEF Own
      <4>2. f[r] = IF front[r].open THEN track[r].vol - front[r].traded ELSE 0
        BY <1>4, <2>2, <3>3
      <4> QED
        BY <3>2, <3>3, <4>1, <4>2 DEF Share
    <3>4. CASE r \notin own
      <4>1. ~(Own(track[r], i, s) /\ track[r].off = off)
        BY <2>1, <3>4 DEF Own
      <4> QED
        BY <3>2, <3>4, <4>1 DEF Share
    <3> QED
      BY <3>3, <3>4
  <2>5. SumFunctionOnSet(f, own) = SumFunctionOnSet(g, R)
    BY <1>2, <2>3, <2>4, SumRestrict
  <2>6. Ing(instr[i].side[s], off) = SumFunctionOnSet(g, R)
    <3>1. IngAgrees(Now, track, front, n, missed = 0, i, s)
      BY <1>3 DEF AccAgrees
    <3> QED
      BY <1>1, <2>2, <3>1 DEF IngAgrees, Shares, Now, Account
  <2> QED
    BY <1>2, <2>1, <2>2, <2>5, <2>6
<1>6. unfilled = Cardinality({r \in DOMAIN track : Left(track[r]) > 0})
  <2>1. PICK own : own = {r \in R : Left(track[r]) > 0}
    OBVIOUS
  <2>2. PICK f, g : /\ f = [r \in own |-> 1]
                    /\ g = [r \in R |-> Share("unfilled", "any", "any", "any",
                                             track[r], front[r])]
    OBVIOUS
  <2>3. own \subseteq R /\ IsFiniteSet(own) /\ \A r \in own : f[r] = 1 /\ f[r] \in Int
    BY <1>2, <2>1, <2>2, FS_Subset
  <2>4. \A r \in R : g[r] = IF r \in own THEN f[r] ELSE 0
    BY <1>4, <2>1, <2>2 DEF Share
  <2>5. SumFunctionOnSet(f, own) = SumFunctionOnSet(g, R)
    BY <1>2, <2>3, <2>4, SumRestrict
  <2>6. SumFunctionOnSet(f, own) = Cardinality(own)
    BY <2>3, SumOnes
  <2>7. unfilled = SumFunctionOnSet(g, R)
    BY <1>1, <1>3, <2>2 DEF AccAgrees, UnfilledAgrees, Shares, Now, Account
  <2> QED
    BY <1>2, <2>1, <2>5, <2>6, <2>7
<1> QED
  BY <1>5, <1>6

(* So they are in every reachable state: nothing stays frozen and nothing  *)
(* is given back twice.                                                    *)
THEOREM FrozenAlwaysMatches == Spec => []FrozenMatchesOrders
<1>1. Parts /\ ShareInv => FrozenMatchesOrders
  BY FrozenFromShares DEF ShareInv
<1> QED
  BY <1>1, ShareInvHolds, PTL

(* An engine that is down has nothing in memory. *)
DownIsEmpty == up = "down" => \A i \in Instrs : instr[i] = ZeroVol

LEMMA DownEmptyStep == DownIsEmpty /\ [Next]_vars => DownIsEmpty'
<1> SUFFICES ASSUME DownIsEmpty, [Next]_vars, up' = "down"
             PROVE  \A i \in Instrs : instr'[i] = ZeroVol
  BY DEF DownIsEmpty
<1>1. CASE Crash \/ Close
  BY <1>1 DEF Crash, Close, Becomes, Account
<1>2. CASE ~(Crash \/ Close)
  <2>1. up = "down" /\ instr' = instr
    BY <1>2 DEF Next, NewOrder, OnRtnTrade, OnRtnClosed, Missed, Start, Replay,
                Listen, SwitchDay, DownOver, vars, memVars
  <2> QED
    BY <2>1 DEF DownIsEmpty
<1> QED
  BY <1>1, <1>2

(* A product whose position is none has no instrument with one: positions  *)
(* are never negative and add up to that of the product, so that erasing   *)
(* the entry, in onSwitchDay, leaves no instrument that points to it.      *)
LEMMA NoDanglingFromShares ==
  ASSUME Parts, ShareInv, DownIsEmpty
  PROVE  NoDanglingProduct
<1> SUFFICES ASSUME NEW i \in Instrs, Flat(prd[PrdOf[i]])
             PROVE  Flat(instr[i])
  BY DEF NoDanglingProduct
<1>1. CASE up = "down"
  BY <1>1 DEF DownIsEmpty, Flat, ZeroVol, ZeroSide, Sides
<1>2. CASE up # "down"
  <2>1. ASSUME NEW s \in Sides
        PROVE  instr[i].side[s].pos = 0
    <3>1. PICK p : p = PrdOf[i]
      OBVIOUS
    <3>2. p \in Prds /\ prd[p].side[s].pos = 0
      BY <3>1, AccountAssumption DEF Flat, Sides
    <3>3. PICK f :
            f = [j \in Instrs |-> IF PrdOf[j] = p THEN Counts(instr, "pos")[j][s] ELSE 0]
      OBVIOUS
    <3>4. \A j \in Instrs : /\ Counts(instr, "pos")[j][s] = instr[j].side[s].pos
                            /\ instr[j].side[s].pos \in Int
                            /\ instr[j].side[s].pos >= 0
      <4>1. Now \in AccType /\ Now.instr = instr
        BY NowGood DEF Parts, Now, Account
      <4>2. \A j \in Instrs : instr[j].side[s].pos \in Int
        BY <4>1, AccSides, SideInts
      <4> QED
        BY <1>2, <4>2, PosNotNegative DEF ShareInv, Counts, Counter
    <3>5. \A j \in Instrs : f[j] \in Nat
      BY <3>3, <3>4
    <3>6. f[i] <= SumFunctionOnSet(f, Instrs)
      BY <3>5, SumNat, AccountAssumption
    <3>7. prd[p].side[s].pos = SumFunctionOnSet(f, Instrs)
      BY <3>2, <3>3 DEF ShareInv, PrdsAgree, OfPrd, Counters, Counter
    <3>8. f[i] = instr[i].side[s].pos
      BY <3>1, <3>3, <3>4
    <3> QED
      BY <3>2, <3>4, <3>6, <3>7, <3>8
  <2> QED
    BY <2>1 DEF Flat, Sides
<1> QED
  BY <1>1, <1>2

(* So onSwitchDay never erases a product while it keeps an instrument that *)
(* points to it (p_prd).                                                   *)
THEOREM ProductsNeverDangle == Spec => []NoDanglingProduct
<1>1. Init => DownIsEmpty
  BY DEF Init, DownIsEmpty
<1>2. Parts /\ ShareInv /\ DownIsEmpty => NoDanglingProduct
  BY NoDanglingFromShares
<1> QED
  BY <1>1, <1>2, DownEmptyStep, ShareInvHolds, PTL DEF Spec

-----------------------------------------------------------------------------
(***************************************************************************)
(* The money of one instrument, product or account, and what is added up   *)
(***************************************************************************)
AmtType == [amt: Int, ing: [Offs -> Int]]
MoneyType == [side: [Sides -> AmtType], buy: Int, sell: Int, pos_pnl: Int,
              trd_pnl: Int, last: Int, stl: Int]

(* The amounts that a product and the account add up. *)
Sorts == {"amt", "ing", "pos", "trd"}
Sum(m, k, s, off) ==
  IF k = "amt" THEN m.side[s].amt ELSE IF k = "ing" THEN m.side[s].ing[off]
  ELSE IF k = "pos" THEN m.pos_pnl ELSE m.trd_pnl
ChangeType == [Sorts -> [Sides -> [Offs -> Int]]]

(* Money n is money m with x added to it. *)
Adds(m, n, x) ==
  \A k \in Sorts, s \in Sides, off \in Offs :
    Sum(n, k, s, off) = Sum(m, k, s, off) + x[k][s][off]

(* What else there is *)
Kept(m, n) == n.buy = m.buy /\ n.sell = m.sell /\ n.stl = m.stl

LEMMA SumTyped ==
  ASSUME NEW m \in MoneyType, NEW k \in Sorts, NEW s \in Sides, NEW off \in Offs
  PROVE  Sum(m, k, s, off) \in Int
<1>1. m.side[s] \in AmtType /\ m.pos_pnl \in Int /\ m.trd_pnl \in Int
  BY DEF MoneyType
<1> QED
  BY <1>1 DEF AmtType, Sum

(* A change of price *)
PxAdded(u, d) ==
  [k \in Sorts |-> [s \in Sides |-> [off \in Offs |->
     IF k = "amt" THEN d * u.side[s].pos
     ELSE IF k = "pos" THEN d * (u.side["long"].yd_ini - u.side["short"].yd_ini)
     ELSE IF k = "trd" THEN d * (u.buy - u.sell)
     ELSE 0]]]

LEMMA PxChanges ==
  ASSUME NEW m \in MoneyType, NEW u \in VolType, NEW d \in Int
  PROVE  /\ PxChange(m, u, d) \in MoneyType /\ PxAdded(u, d) \in ChangeType
         /\ Adds(m, PxChange(m, u, d), PxAdded(u, d))
         /\ Kept(m, PxChange(m, u, d)) /\ PxChange(m, u, d).last = m.last
<1>1. PICK n, x : n = PxChange(m, u, d) /\ x = PxAdded(u, d)
  OBVIOUS
<1>2. \A s \in Sides : u.side[s].pos \in Int /\ u.side[s].yd_ini \in Int
  BY DEF VolType, SideType
<1>3. u.buy \in Int /\ u.sell \in Int /\ "long" \in Sides /\ "short" \in Sides
  BY DEF VolType, Sides
<1>4. \A s \in Sides : d * u.side[s].pos \in Int
  BY <1>2
<1>5. PICK y, z : /\ y = d * (u.side["long"].yd_ini - u.side["short"].yd_ini)
                  /\ z = d * (u.buy - u.sell)
  OBVIOUS
<1>6. y \in Int /\ z \in Int
  BY <1>2, <1>3, <1>5
<1>7. /\ m.side \in [Sides -> AmtType] /\ m.pos_pnl \in Int /\ m.trd_pnl \in Int
      /\ \A s \in Sides : m.side[s] \in AmtType
  BY DEF MoneyType
<1>8. n = [m EXCEPT !.side = [s \in Sides |-> [m.side[s] EXCEPT
                                                 !.amt = @ + d * u.side[s].pos]],
                    !.pos_pnl = @ + y, !.trd_pnl = @ + z]
  BY <1>1, <1>5 DEF PxChange
<1>9. PICK a : a = [s \in Sides |-> [m.side[s] EXCEPT !.amt = @ + d * u.side[s].pos]]
  OBVIOUS
<1>10. ASSUME NEW s \in Sides
       PROVE  /\ a[s] \in AmtType /\ a[s].amt = m.side[s].amt + d * u.side[s].pos
              /\ a[s].ing = m.side[s].ing
  <2>1. PICK w, v : w = m.side[s] /\ v = d * u.side[s].pos
    OBVIOUS
  <2>2. a[s] = [w EXCEPT !.amt = @ + v] /\ w \in AmtType /\ v \in Int
    BY <1>4, <1>7, <1>9, <2>1
  <2>3. [w EXCEPT !.amt = @ + v] = [amt |-> w.amt + v, ing |-> w.ing]
    BY <2>2 DEF AmtType
  <2> QED
    BY <2>1, <2>2, <2>3 DEF AmtType
<1>11. a \in [Sides -> AmtType]
  BY <1>9, <1>10
<1>12. n = [m EXCEPT !.side = a, !.pos_pnl = @ + y, !.trd_pnl = @ + z]
  BY <1>8, <1>9
<1>13. /\ n.side = a /\ n.pos_pnl = m.pos_pnl + y /\ n.trd_pnl = m.trd_pnl + z
       /\ n.buy = m.buy /\ n.sell = m.sell /\ n.stl = m.stl /\ n.last = m.last
  BY <1>12 DEF MoneyType
<1>14. n \in MoneyType
  <2>1. n = [side |-> a, buy |-> m.buy, sell |-> m.sell, pos_pnl |-> m.pos_pnl + y,
             trd_pnl |-> m.trd_pnl + z, last |-> m.last, stl |-> m.stl]
    BY <1>12 DEF MoneyType
  <2>2. m.pos_pnl + y \in Int /\ m.trd_pnl + z \in Int
    BY <1>6, <1>7
  <2> QED
    BY <1>11, <2>1, <2>2 DEF MoneyType
<1>15. x \in ChangeType
  BY <1>1, <1>4, <1>5, <1>6 DEF PxAdded, ChangeType
<1>16. ASSUME NEW k \in Sorts, NEW s \in Sides, NEW off \in Offs
       PROVE  Sum(n, k, s, off) = Sum(m, k, s, off) + x[k][s][off]
  <2>1. x[k][s][off] = IF k = "amt" THEN d * u.side[s].pos ELSE IF k = "pos" THEN y
                       ELSE IF k = "trd" THEN z ELSE 0
    BY <1>1, <1>5 DEF PxAdded
  <2>2. m.side[s].ing[off] \in Int
    BY <1>7 DEF AmtType
  <2>3. CASE k = "amt"
    BY <1>10, <1>13, <2>1, <2>3 DEF Sum
  <2>4. CASE k = "ing"
    BY <1>10, <1>13, <2>1, <2>2, <2>4 DEF Sum
  <2>5. CASE k = "pos"
    BY <1>13, <2>1, <2>5 DEF Sum
  <2>6. CASE k = "trd"
    BY <1>13, <2>1, <2>6 DEF Sum
  <2> QED
    BY <2>3, <2>4, <2>5, <2>6 DEF Sorts
<1> QED
  BY <1>1, <1>13, <1>14, <1>15, <1>16 DEF Adds, Kept

(* An amount under way *)
IngAdded(o, d) ==
  [k \in Sorts |-> [s \in Sides |-> [off \in Offs |->
     IF k = "ing" /\ s = SideOf(o.dir, o.off) /\ off = o.off THEN d ELSE 0]]]

LEMMA IngChanges ==
  ASSUME NEW m \in MoneyType, NEW o \in OrderType, NEW d \in Int
  PROVE  /\ IngChange(m, o, d) \in MoneyType /\ IngAdded(o, d) \in ChangeType
         /\ Adds(m, IngChange(m, o, d), IngAdded(o, d))
         /\ Kept(m, IngChange(m, o, d)) /\ IngChange(m, o, d).last = m.last
<1>1. PICK n, x, e, f : /\ n = IngChange(m, o, d) /\ x = IngAdded(o, d)
                        /\ e = SideOf(o.dir, o.off) /\ f = o.off
  OBVIOUS
<1>2. e \in Sides /\ f \in Offs
  BY <1>1, SideOfType DEF OrderType
<1>3. PICK w, g : w = m.side[e] /\ g = m.side[e].ing
  OBVIOUS
<1>4. m.side \in [Sides -> AmtType] /\ w \in AmtType /\ g \in [Offs -> Int]
  BY <1>2, <1>3 DEF MoneyType, AmtType
<1>5. PICK h, a : /\ h = [g EXCEPT ![f] = @ + d]
                  /\ a = [m.side EXCEPT ![e] = [amt |-> w.amt, ing |-> h]]
  OBVIOUS
<1>6. n = [m EXCEPT !.side[e].ing[f] = @ + d]
  BY <1>1 DEF IngChange
<1>7. n = [m EXCEPT !.side = a]
  <2>1. [w EXCEPT !.ing = h] = [amt |-> w.amt, ing |-> h]
    BY <1>4 DEF AmtType
  <2>2. a = [m.side EXCEPT ![e] = [w EXCEPT !.ing = h]]
    BY <1>5, <2>1
  <2> QED
    BY <1>3, <1>5, <1>6, <2>2
<1>8. n = [side |-> a, buy |-> m.buy, sell |-> m.sell, pos_pnl |-> m.pos_pnl,
           trd_pnl |-> m.trd_pnl, last |-> m.last, stl |-> m.stl]
  BY <1>7 DEF MoneyType
<1>9. /\ h \in [Offs -> Int] /\ h[f] = g[f] + d
      /\ \A off \in Offs : off # f => h[off] = g[off]
  BY <1>2, <1>4, <1>5
<1>10. /\ a \in [Sides -> AmtType] /\ a[e] = [amt |-> w.amt, ing |-> h]
       /\ \A s \in Sides : s # e => a[s] = m.side[s]
  BY <1>2, <1>4, <1>5, <1>9 DEF AmtType
<1>11. n \in MoneyType
  BY <1>8, <1>10 DEF MoneyType
<1>12. x \in ChangeType
  BY <1>1 DEF IngAdded, ChangeType
<1>13. ASSUME NEW k \in Sorts, NEW s \in Sides, NEW off \in Offs
       PROVE  Sum(n, k, s, off) = Sum(m, k, s, off) + x[k][s][off]
  <2>1. x[k][s][off] = IF k = "ing" /\ s = e /\ off = f THEN d ELSE 0
    BY <1>1 DEF IngAdded
  <2>2. Sum(m, k, s, off) \in Int
    BY SumTyped
  <2>3. a[s].amt = m.side[s].amt
    BY <1>3, <1>10
  <2>4. a[s].ing[off] = IF s = e /\ off = f THEN m.side[s].ing[off] + d
                        ELSE m.side[s].ing[off]
    BY <1>3, <1>9, <1>10
  <2>5. Sum(n, k, s, off) = IF k = "ing" /\ s = e /\ off = f
                            THEN Sum(m, k, s, off) + d ELSE Sum(m, k, s, off)
    BY <1>8, <2>3, <2>4 DEF Sum
  <2> QED
    BY <2>1, <2>2, <2>5
<1> QED
  BY <1>1, <1>8, <1>11, <1>12, <1>13 DEF Adds, Kept

(* The value of a position, when an order opens or closes *)
AmtAdded(o, d) ==
  [k \in Sorts |-> [s \in Sides |-> [off \in Offs |->
     IF k = "amt" /\ s = SideOf(o.dir, o.off)
     THEN IF o.off = "Open" THEN d ELSE -d ELSE 0]]]

LEMMA AmtChanges ==
  ASSUME NEW m \in MoneyType, NEW o \in OrderType, NEW d \in Int
  PROVE  /\ AmtChange(m, o, d) \in MoneyType /\ AmtAdded(o, d) \in ChangeType
         /\ Adds(m, AmtChange(m, o, d), AmtAdded(o, d))
         /\ Kept(m, AmtChange(m, o, d)) /\ AmtChange(m, o, d).last = m.last
<1>1. PICK n, x, e, v : /\ n = AmtChange(m, o, d) /\ x = AmtAdded(o, d)
                        /\ e = SideOf(o.dir, o.off)
                        /\ v = IF o.off = "Open" THEN d ELSE -d
  OBVIOUS
<1>2. e \in Sides /\ v \in Int
  BY <1>1, SideOfType DEF OrderType
<1>3. PICK w : w = m.side[e]
  OBVIOUS
<1>4. m.side \in [Sides -> AmtType] /\ w \in AmtType /\ w.amt \in Int
  BY <1>2, <1>3 DEF MoneyType, AmtType
<1>5. PICK a : a = [m.side EXCEPT ![e] = [amt |-> w.amt + v, ing |-> w.ing]]
  OBVIOUS
<1>6. n = [m EXCEPT !.side[e].amt = @ + v]
  BY <1>1 DEF AmtChange
<1>7. n = [m EXCEPT !.side = a]
  <2>1. [w EXCEPT !.amt = @ + v] = [amt |-> w.amt + v, ing |-> w.ing]
    BY <1>4 DEF AmtType
  <2>2. a = [m.side EXCEPT ![e] = [w EXCEPT !.amt = @ + v]]
    BY <1>5, <2>1
  <2> QED
    BY <1>3, <1>6, <2>2
<1>8. n = [side |-> a, buy |-> m.buy, sell |-> m.sell, pos_pnl |-> m.pos_pnl,
           trd_pnl |-> m.trd_pnl, last |-> m.last, stl |-> m.stl]
  BY <1>7 DEF MoneyType
<1>9. w.amt + v \in Int
  BY <1>2, <1>4
<1>10. /\ a \in [Sides -> AmtType] /\ a[e] = [amt |-> w.amt + v, ing |-> w.ing]
       /\ \A s \in Sides : s # e => a[s] = m.side[s]
  BY <1>2, <1>4, <1>5, <1>9 DEF AmtType
<1>11. n \in MoneyType
  BY <1>8, <1>10 DEF MoneyType
<1>12. x \in ChangeType
  BY <1>1, <1>2 DEF AmtAdded, ChangeType
<1>13. ASSUME NEW k \in Sorts, NEW s \in Sides, NEW off \in Offs
       PROVE  Sum(n, k, s, off) = Sum(m, k, s, off) + x[k][s][off]
  <2>1. x[k][s][off] = IF k = "amt" /\ s = e THEN v ELSE 0
    BY <1>1 DEF AmtAdded
  <2>2. Sum(m, k, s, off) \in Int
    BY SumTyped
  <2>3. a[s].ing = m.side[s].ing
    BY <1>3, <1>10
  <2>4. a[s].amt = IF s = e THEN m.side[s].amt + v ELSE m.side[s].amt
    BY <1>3, <1>10
  <2>5. Sum(n, k, s, off) = IF k = "amt" /\ s = e
                            THEN Sum(m, k, s, off) + v ELSE Sum(m, k, s, off)
    BY <1>8, <2>3, <2>4 DEF Sum
  <2> QED
    BY <2>1, <2>2, <2>5
<1> QED
  BY <1>1, <1>8, <1>11, <1>12, <1>13 DEF Adds, Kept

(* What the instrument alone keeps *)
LEMMA CashChanges ==
  ASSUME NEW m \in MoneyType, NEW o \in OrderType, NEW d \in Int
  PROVE  LET n == CashChange(m, o, d) IN
         /\ n \in MoneyType
         /\ n.buy = m.buy + (IF o.dir = "Buy" THEN d ELSE 0)
         /\ n.sell = m.sell + (IF o.dir = "Sell" THEN d ELSE 0)
         /\ n.stl = m.stl /\ n.last = m.last
         /\ \A k \in Sorts, s \in Sides, off \in Offs :
              Sum(n, k, s, off) = Sum(m, k, s, off)
<1>1. PICK n, b, c : /\ n = CashChange(m, o, d)
                     /\ b = m.buy + (IF o.dir = "Buy" THEN d ELSE 0)
                     /\ c = m.sell + (IF o.dir = "Sell" THEN d ELSE 0)
  OBVIOUS
<1>2. b \in Int /\ c \in Int
  BY <1>1 DEF MoneyType
<1>3. n = [m EXCEPT !.buy = b, !.sell = c]
  BY <1>1 DEF CashChange
<1>4. n = [side |-> m.side, buy |-> b, sell |-> c, pos_pnl |-> m.pos_pnl,
           trd_pnl |-> m.trd_pnl, last |-> m.last, stl |-> m.stl]
  BY <1>3 DEF MoneyType
<1>5. n \in MoneyType
  BY <1>2, <1>4 DEF MoneyType
<1> QED
  BY <1>1, <1>4, <1>5 DEF Sum

-----------------------------------------------------------------------------
(***************************************************************************)
(* Value and profit of an instrument                                       *)
(***************************************************************************)
UnitOK(m, u) ==
  /\ \A s \in Sides : m.side[s].amt = u.side[s].pos * m.last * Mult
  /\ m.pos_pnl + m.trd_pnl =
       (m.side["long"].amt - m.side["short"].amt)
       - (u.side["long"].yd_ini - u.side["short"].yd_ini) * m.stl * Mult
       - (m.buy - m.sell)

PricedAt(m, p) == m.last = p

(* The same positions of the same day *)
SamePos(u, w) ==
  \A s \in Sides : /\ w.side[s].pos = u.side[s].pos
                   /\ w.side[s].yd_ini = u.side[s].yd_ini

LEMMA UnitSame ==
  ASSUME NEW m \in MoneyType, NEW n \in MoneyType, NEW u, NEW w, UnitOK(m, u),
         NEW x, Adds(m, n, x), SamePos(u, w), Kept(m, n), PricedAt(n, m.last),
         \A s \in Sides, off \in Offs :
           x["amt"][s][off] = 0 /\ x["pos"][s][off] = 0 /\ x["trd"][s][off] = 0
  PROVE  UnitOK(n, w)
<1>1. "Open" \in Offs /\ {"amt", "pos", "trd"} \subseteq Sorts /\ "long" \in Sides
      /\ "short" \in Sides
  BY DEF Offs, Sorts, Sides
<1>2. \A s \in Sides : m.side[s].amt \in Int
  BY DEF MoneyType, AmtType
<1>3. m.pos_pnl \in Int /\ m.trd_pnl \in Int
  BY DEF MoneyType
<1>4. ASSUME NEW s \in Sides
      PROVE  n.side[s].amt = m.side[s].amt
  <2>1. Sum(n, "amt", s, "Open") = Sum(m, "amt", s, "Open") + x["amt"][s]["Open"]
    BY <1>1 DEF Adds
  <2> QED
    BY <1>1, <1>2, <2>1 DEF Sum
<1>5. n.pos_pnl = m.pos_pnl /\ n.trd_pnl = m.trd_pnl
  <2>1. /\ Sum(n, "pos", "long", "Open") = Sum(m, "pos", "long", "Open") + x["pos"]["long"]["Open"]
        /\ Sum(n, "trd", "long", "Open") = Sum(m, "trd", "long", "Open") + x["trd"]["long"]["Open"]
    BY <1>1 DEF Adds
  <2> QED
    BY <1>1, <1>3, <2>1 DEF Sum
<1>6. n.buy = m.buy /\ n.sell = m.sell /\ n.stl = m.stl /\ n.last = m.last
  BY DEF Kept, PricedAt
<1>7. \A s \in Sides : w.side[s].pos = u.side[s].pos /\ w.side[s].yd_ini = u.side[s].yd_ini
  BY DEF SamePos
<1> QED
  BY <1>1, <1>4, <1>5, <1>6, <1>7 DEF UnitOK

(* A change of price moves the value of what is held, and the two profits  *)
(* by what they are about, which together is what the value changes by:    *)
(* the books balance.                                                      *)
LEMMA UnitTick ==
  ASSUME NEW m \in MoneyType, NEW n \in MoneyType, NEW u \in GoodVol, UnitOK(m, u),
         NEW p \in Int, NEW d, d = (p - m.last) * Mult,
         Adds(m, n, PxAdded(u, d)), Kept(m, n), PricedAt(n, p)
  PROVE  UnitOK(n, u)
<1>1. "Open" \in Offs /\ {"amt", "pos", "trd"} \subseteq Sorts /\ "long" \in Sides
      /\ "short" \in Sides /\ Mult \in Int
  BY AmountsAssumption DEF Offs, Sorts, Sides
<1>2. /\ \A s \in Sides : m.side[s].amt \in Int
      /\ m.pos_pnl \in Int /\ m.trd_pnl \in Int /\ m.last \in Int /\ m.stl \in Int
      /\ m.buy \in Int /\ m.sell \in Int
  BY DEF MoneyType, AmtType
<1>3. u \in VolType /\ Balanced(u)
  BY DEF GoodVol
<1>4. /\ \A s \in Sides : u.side[s].pos \in Int /\ u.side[s].yd_ini \in Int
      /\ u.buy \in Int /\ u.sell \in Int
  BY <1>3 DEF VolType, SideType
<1>5. d \in Int
  <2>1. PICK a : a = m.last
    OBVIOUS
  <2> QED
    BY <1>1, <1>2, <2>1, AtPrice
<1>6. ASSUME NEW s \in Sides
      PROVE  /\ n.side[s].amt = m.side[s].amt + d * u.side[s].pos
             /\ n.side[s].amt = u.side[s].pos * n.last * Mult
  <2>1. Sum(n, "amt", s, "Open") = Sum(m, "amt", s, "Open") + PxAdded(u, d)["amt"][s]["Open"]
    BY <1>1 DEF Adds
  <2>2. PxAdded(u, d)["amt"][s]["Open"] = d * u.side[s].pos
    BY <1>1 DEF PxAdded
  <2>3. n.side[s].amt = m.side[s].amt + d * u.side[s].pos
    BY <2>1, <2>2 DEF Sum
  <2>4. PICK x, a : x = u.side[s].pos /\ a = m.last
    OBVIOUS
  <2>5. x * a * Mult + ((p - a) * Mult) * x = x * p * Mult
    BY <1>1, <1>2, <1>4, <2>4, AtPrice
  <2>6. m.side[s].amt = x * a * Mult
    BY <2>4 DEF UnitOK
  <2>7. d = (p - a) * Mult /\ n.last = p
    BY <2>4 DEF PricedAt
  <2> QED
    BY <2>3, <2>4, <2>5, <2>6, <2>7
<1>7. PICK a, b, c, e, x, y, g :
        /\ a = u.side["long"].pos /\ b = u.side["short"].pos
        /\ c = u.side["long"].yd_ini /\ e = u.side["short"].yd_ini
        /\ x = m.side["long"].amt /\ y = m.side["short"].amt
        /\ g = u.buy - u.sell
  OBVIOUS
<1>8. /\ a \in Int /\ b \in Int /\ c \in Int /\ e \in Int /\ x \in Int /\ y \in Int
      /\ g = (a - c) - (b - e)
  BY <1>1, <1>2, <1>3, <1>4, <1>7 DEF Balanced
<1>9. PICK s, t : s = d * (c - e) /\ t = d * g
  OBVIOUS
<1>10. n.pos_pnl = m.pos_pnl + s /\ n.trd_pnl = m.trd_pnl + t
  <2>1. /\ Sum(n, "pos", "long", "Open") = Sum(m, "pos", "long", "Open")
                                             + PxAdded(u, d)["pos"]["long"]["Open"]
        /\ Sum(n, "trd", "long", "Open") = Sum(m, "trd", "long", "Open")
                                             + PxAdded(u, d)["trd"]["long"]["Open"]
    BY <1>1 DEF Adds
  <2>2. PxAdded(u, d)["pos"]["long"]["Open"] = s /\ PxAdded(u, d)["trd"]["long"]["Open"] = t
    BY <1>1, <1>7, <1>9 DEF PxAdded
  <2> QED
    BY <2>1, <2>2 DEF Sum
<1>11. PICK da, db : da = d * a /\ db = d * b
  OBVIOUS
<1>12. /\ s + t = da - db /\ s \in Int /\ t \in Int /\ da \in Int /\ db \in Int
  BY <1>5, <1>8, <1>9, <1>11, ProfitSplit
<1>13. PICK z, q, f : /\ z = (c - e) * m.stl * Mult /\ q = m.buy - m.sell
                      /\ f = m.pos_pnl + m.trd_pnl
  OBVIOUS
<1>14. z \in Int /\ q \in Int
  <2>1. PICK w, v : w = c - e /\ v = m.stl
    OBVIOUS
  <2>2. w \in Int /\ v \in Int
    BY <1>2, <1>8, <2>1
  <2> QED
    BY <1>1, <1>2, <1>13, <2>1, <2>2, MoreAtPrice
<1>15. f = (x - y) - z - q
  BY <1>7, <1>13 DEF UnitOK
<1>16. n.pos_pnl + n.trd_pnl = f + (s + t)
  BY <1>2, <1>10, <1>12, <1>13
<1>17. n.side["long"].amt = x + da /\ n.side["short"].amt = y + db
  BY <1>1, <1>6, <1>7, <1>11
<1>18. n.buy - n.sell = q /\ (c - e) * n.stl * Mult = z
  BY <1>13 DEF Kept
<1>19. f + (s + t) = ((x + da) - (y + db)) - z - q
  BY <1>8, <1>12, <1>14, <1>15
<1> QED
  BY <1>6, <1>7, <1>16, <1>17, <1>18, <1>19 DEF UnitOK

(* The same positions, the same value and profit *)
LEMMA UnitPos ==
  ASSUME NEW m, NEW u, NEW w, SamePos(u, w), UnitOK(m, u)
  PROVE  UnitOK(m, w)
BY DEF UnitOK, SamePos, Sides

(* v lots traded at the last price change value and cash alike. *)
Paid(m, n, o, d) ==
  /\ n.buy = m.buy + (IF o.dir = "Buy" THEN d ELSE 0)
  /\ n.sell = m.sell + (IF o.dir = "Sell" THEN d ELSE 0)
  /\ n.stl = m.stl /\ n.last = m.last

LEMMA UnitTrd ==
  ASSUME NEW m \in MoneyType, NEW n \in MoneyType, NEW u \in VolType, UnitOK(m, u),
         NEW o \in OrderType, NEW v \in Int, NEW t \in Int, PricedAt(m, t),
         NEW d, d = t * v * Mult, Adds(m, n, AmtAdded(o, d)), Paid(m, n, o, d)
  PROVE  UnitOK(n, VolTrd(u, o.dir, o.off, v))
<1>1. "Open" \in Offs /\ {"amt", "pos", "trd"} \subseteq Sorts /\ "long" \in Sides
      /\ "short" \in Sides /\ Mult \in Int
  BY AmountsAssumption DEF Offs, Sorts, Sides
<1>2. /\ \A s \in Sides : m.side[s].amt \in Int
      /\ m.pos_pnl \in Int /\ m.trd_pnl \in Int /\ m.last \in Int /\ m.stl \in Int
      /\ m.buy \in Int /\ m.sell \in Int
  BY DEF MoneyType, AmtType
<1>3. PICK e, w : e = SideOf(o.dir, o.off) /\ w = VolTrd(u, o.dir, o.off, v)
  OBVIOUS
<1>4. e \in Sides
  BY <1>3, SideOfType
<1>5. u.side \in [Sides -> SideType] /\ (\A s \in Sides : u.side[s].pos \in Int /\ u.side[s].yd_ini \in Int)
  BY DEF VolType, SideType
<1>6. ASSUME NEW s \in Sides
      PROVE  /\ w.side[s].yd_ini = u.side[s].yd_ini
             /\ w.side[s].pos = u.side[s].pos
                  + (IF s = e THEN IF o.off = "Open" THEN v ELSE -v ELSE 0)
  <2>1. w.side = [u.side EXCEPT ![e] = Trd(u.side[e], o.off, v)]
    BY <1>3 DEF VolTrd
  <2>2. CASE s = e
    BY <1>5, <2>1, <2>2 DEF Trd
  <2>3. CASE s # e
    BY <1>5, <2>1, <2>3
  <2> QED
    BY <2>2, <2>3
<1>7. d \in Int
  BY <1>1, MoreAtPrice
<1>8. ASSUME NEW s \in Sides
      PROVE  n.side[s].amt = m.side[s].amt
               + (IF s = e THEN IF o.off = "Open" THEN d ELSE -d ELSE 0)
  <2>1. Sum(n, "amt", s, "Open") = Sum(m, "amt", s, "Open") + AmtAdded(o, d)["amt"][s]["Open"]
    BY <1>1 DEF Adds
  <2> QED
    BY <1>1, <1>3, <2>1 DEF Sum, AmtAdded
<1>9. ASSUME NEW s \in Sides
      PROVE  n.side[s].amt = w.side[s].pos * n.last * Mult
  <2>1. PICK x : x = u.side[s].pos
    OBVIOUS
  <2>2. x * t * Mult + t * v * Mult = (x + v) * t * Mult
        /\ x * t * Mult - t * v * Mult = (x - v) * t * Mult
        /\ x * t * Mult \in Int
    BY <1>1, <1>5, <2>1, MoreAtPrice
  <2>3. m.side[s].amt = x * t * Mult /\ n.last = t
    BY <2>1 DEF UnitOK, PricedAt, Paid
  <2>4. x + (-v) = x - v /\ x + 0 = x /\ x * t * Mult + (-d) = x * t * Mult - d
        /\ x * t * Mult + 0 = x * t * Mult
    BY <1>5, <1>7, <2>1, <2>2
  <2>5. CASE s # e
    BY <1>6, <1>8, <2>1, <2>3, <2>4, <2>5
  <2>6. CASE s = e /\ o.off = "Open"
    BY <1>6, <1>8, <2>1, <2>2, <2>3, <2>6
  <2>7. CASE s = e /\ o.off # "Open"
    <3>1. w.side[s].pos = x - v /\ n.side[s].amt = x * t * Mult - d
      BY <1>6, <1>8, <2>1, <2>3, <2>4, <2>7
    <3> QED
      BY <2>2, <2>3, <3>1
  <2> QED
    BY <2>5, <2>6, <2>7
<1>10. n.pos_pnl = m.pos_pnl /\ n.trd_pnl = m.trd_pnl
  <2>1. /\ Sum(n, "pos", "long", "Open") = Sum(m, "pos", "long", "Open")
                                             + AmtAdded(o, d)["pos"]["long"]["Open"]
        /\ Sum(n, "trd", "long", "Open") = Sum(m, "trd", "long", "Open")
                                             + AmtAdded(o, d)["trd"]["long"]["Open"]
    BY <1>1 DEF Adds
  <2> QED
    BY <1>1, <1>2, <2>1 DEF Sum, AmtAdded
<1>11. PICK x, y, z, f :
         /\ x = m.side["long"].amt /\ y = m.side["short"].amt
         /\ z = (u.side["long"].yd_ini - u.side["short"].yd_ini) * m.stl * Mult
         /\ f = m.pos_pnl + m.trd_pnl
  OBVIOUS
<1>12. f = (x - y) - z - (m.buy - m.sell) /\ x \in Int /\ y \in Int
  BY <1>1, <1>2, <1>11 DEF UnitOK
<1>13. z \in Int
  <2>1. PICK a, b : a = u.side["long"].yd_ini - u.side["short"].yd_ini /\ b = m.stl
    OBVIOUS
  <2>2. a \in Int /\ b \in Int
    BY <1>1, <1>2, <1>5, <2>1
  <2> QED
    BY <1>1, <1>11, <2>1, <2>2, MoreAtPrice
<1>14. PICK buy \in BOOLEAN, opn \in BOOLEAN :
         (buy <=> o.dir = "Buy") /\ (opn <=> o.off = "Open")
  OBVIOUS
<1>15. (e = "long" <=> (buy <=> opn)) /\ (e = "short" <=> ~(buy <=> opn))
       /\ (o.dir = "Sell" <=> ~buy)
  BY <1>3, <1>14 DEF SideOf, OrderType, Dirs
<1>16. /\ n.side["long"].amt = x + (IF buy <=> opn THEN IF opn THEN d ELSE -d ELSE 0)
       /\ n.side["short"].amt = y + (IF buy <=> opn THEN 0 ELSE IF opn THEN d ELSE -d)
       /\ n.buy = m.buy + (IF buy THEN d ELSE 0) /\ n.sell = m.sell + (IF buy THEN 0 ELSE d)
  BY <1>1, <1>8, <1>11, <1>14, <1>15 DEF Paid
<1>17. (n.side["long"].amt - n.side["short"].amt) - z - (n.buy - n.sell) = f
  <2>1. PICK xn, yn, bn, sn, b, s :
          /\ xn = n.side["long"].amt /\ yn = n.side["short"].amt
          /\ bn = n.buy /\ sn = n.sell /\ b = m.buy /\ s = m.sell
    OBVIOUS
  <2>2. (xn - yn) - z - (bn - sn) = (x - y) - z - (b - s)
    BY <1>2, <1>7, <1>12, <1>13, <1>16, <2>1
  <2> QED
    BY <1>12, <2>1, <2>2
<1>18. z = (w.side["long"].yd_ini - w.side["short"].yd_ini) * n.stl * Mult
  BY <1>1, <1>6, <1>11 DEF Paid
<1> QED
  BY <1>3, <1>9, <1>10, <1>11, <1>17, <1>18 DEF UnitOK

(* A day begins with the value of the positions it takes over: what was    *)
(* gained before is settled.                                               *)
LEMMA UnitDay ==
  ASSUME NEW m \in MoneyType, NEW q \in PosType,
         \A s \in Sides : m.side[s].amt = q[s] * m.last * Mult
  PROVE  /\ MoneySwitchDay(m) \in MoneyType
         /\ UnitOK(MoneySwitchDay(m), CarriedOver(q))
<1>1. PICK n, u, a, b, t : /\ n = MoneySwitchDay(m) /\ u = CarriedOver(q)
                           /\ a = q["long"] /\ b = q["short"] /\ t = m.last
  OBVIOUS
<1>2. /\ "long" \in Sides /\ "short" \in Sides /\ Mult \in Int
      /\ a \in Int /\ b \in Int /\ t \in Int
      /\ \A s \in Sides : m.side[s].amt \in Int
  BY <1>1, AmountsAssumption DEF Sides, PosType, MoneyType, AmtType
<1>3. n \in MoneyType
  <2>1. \A s \in Sides : [ZeroAmt EXCEPT !.amt = m.side[s].amt]
                           = [amt |-> m.side[s].amt, ing |-> [off \in Offs |-> 0]]
    BY DEF ZeroAmt
  <2>2. PICK y : y = [s \in Sides |-> [amt |-> m.side[s].amt, ing |-> [off \in Offs |-> 0]]]
    OBVIOUS
  <2>3. y \in [Sides -> AmtType]
    BY <1>2, <2>2 DEF AmtType
  <2>4. n = [side |-> y, buy |-> 0, sell |-> 0, pos_pnl |-> 0, trd_pnl |-> 0,
             last |-> t, stl |-> t]
    BY <1>1, <2>1, <2>2 DEF MoneySwitchDay
  <2> QED
    BY <1>2, <2>3, <2>4 DEF MoneyType
<1>4. /\ \A s \in Sides : n.side[s].amt = m.side[s].amt
      /\ n.pos_pnl = 0 /\ n.trd_pnl = 0 /\ n.buy = 0 /\ n.sell = 0
      /\ n.last = t /\ n.stl = t
  BY <1>1 DEF MoneySwitchDay, ZeroAmt
<1>5. \A s \in Sides : u.side[s].pos = q[s] /\ u.side[s].yd_ini = q[s]
  BY <1>1 DEF CarriedOver
<1>6. n.side["long"].amt = a * t * Mult /\ n.side["short"].amt = b * t * Mult
  BY <1>1, <1>2, <1>4
<1>7. a * t * Mult - b * t * Mult = (a - b) * t * Mult /\ (a - b) * t * Mult \in Int
  BY <1>2, LessAtPrice
<1>8. 0 + 0 = ((n.side["long"].amt - n.side["short"].amt) - (a - b) * t * Mult) - (0 - 0)
  BY <1>6, <1>7
<1>9. u.side["long"].yd_ini = a /\ u.side["short"].yd_ini = b
  BY <1>1, <1>2, <1>5
<1>10. \A s \in Sides : n.side[s].amt = u.side[s].pos * n.last * Mult
  BY <1>1, <1>4, <1>5
<1> QED
  BY <1>1, <1>3, <1>4, <1>8, <1>9, <1>10 DEF UnitOK

LEMMA UnitZero ==
  ZeroMoney \in MoneyType /\ UnitOK(ZeroMoney, ZeroVol)
  /\ \A q \in Int : 0 * q * Mult = 0
<1>1. Mult \in Int /\ \A s \in Sides : ZeroVol.side[s] = ZeroSide
  BY AmountsAssumption DEF ZeroVol
<1>2. (\A q \in Int : 0 * q * Mult = 0) /\ (0 - 0) * 0 * Mult = 0
  BY <1>1
<1>3. "long" \in Sides /\ "short" \in Sides
  BY DEF Sides
<1> QED
  BY <1>1, <1>2, <1>3 DEF ZeroMoney, ZeroAmt, MoneyType, AmtType, UnitOK, ZeroSide

-----------------------------------------------------------------------------
(***************************************************************************)
(* Products and account are the sums of their instruments                  *)
(***************************************************************************)
BookType == [instr: [Instrs -> MoneyType], prd: [Prds -> MoneyType], acc: MoneyType]

OfProduct(p) == {i \in Instrs : PrdOf[i] = p}
Values(M, k, s, off) == [i \in Instrs |-> Sum(M.instr[i], k, s, off)]

SumsOK(M) ==
  \A k \in Sorts, s \in Sides, off \in Offs :
    /\ \A p \in Prds : Sum(M.prd[p], k, s, off)
                         = SumFunctionOnSet(Values(M, k, s, off), OfProduct(p))
    /\ Sum(M.acc, k, s, off) = SumFunctionOnSet(Values(M, k, s, off), Instrs)

(* An operation that adds x to one instrument, to its product and to the   *)
(* account                                                                 *)
AddsToAll(M, N, i, x) ==
  /\ Adds(M.instr[i], N.instr[i], x) /\ Adds(M.prd[PrdOf[i]], N.prd[PrdOf[i]], x)
  /\ Adds(M.acc, N.acc, x)
  /\ \A j \in Instrs : j # i => N.instr[j] = M.instr[j]
  /\ \A q \in Prds : q # PrdOf[i] => N.prd[q] = M.prd[q]

LEMMA OfProductFinite ==
  ASSUME NEW p
  PROVE  IsFiniteSet(OfProduct(p)) /\ OfProduct(p) \subseteq Instrs
BY AccountAssumption, FS_Subset DEF OfProduct

LEMMA BookTyped ==
  ASSUME NEW M \in BookType
  PROVE  /\ \A i \in Instrs : M.instr[i] \in MoneyType
         /\ \A p \in Prds : M.prd[p] \in MoneyType
         /\ M.acc \in MoneyType
BY DEF BookType

LEMMA SumsKept ==
  ASSUME NEW M \in BookType, NEW N \in BookType, NEW i \in Instrs,
         NEW x \in ChangeType, AddsToAll(M, N, i, x), SumsOK(M)
  PROVE  SumsOK(N)
<1> SUFFICES ASSUME NEW k \in Sorts, NEW s \in Sides, NEW off \in Offs
             PROVE  /\ \A p \in Prds : Sum(N.prd[p], k, s, off)
                         = SumFunctionOnSet(Values(N, k, s, off), OfProduct(p))
                    /\ Sum(N.acc, k, s, off) = SumFunctionOnSet(Values(N, k, s, off), Instrs)
  BY DEF SumsOK
<1>1. PICK f, g, d : /\ f = Values(M, k, s, off) /\ g = Values(N, k, s, off)
                     /\ d = x[k][s][off]
  OBVIOUS
<1>2. d \in Int
  BY <1>1 DEF ChangeType
<1>3. \A j \in Instrs : f[j] \in Int /\ g[j] \in Int
  BY <1>1, BookTyped, SumTyped DEF Values
<1>4. g[i] = f[i] + d
  BY <1>1 DEF AddsToAll, Adds, Values
<1>5. \A j \in Instrs : j # i => g[j] = f[j]
  BY <1>1 DEF AddsToAll, Values
<1>6. ASSUME NEW S, S \subseteq Instrs, IsFiniteSet(S), i \in S
      PROVE  SumFunctionOnSet(g, S) = SumFunctionOnSet(f, S) + d
  <2>1. SumFunctionOnSet(g, S) = SumFunctionOnSet(f, S) - f[i] + g[i]
    <3>1. (\A j \in S : f[j] \in Int) /\ g[i] \in Int
          /\ (\A j \in S : j # i => g[j] = f[j])
      BY <1>3, <1>5, <1>6
    <3> QED
      BY <1>6, <3>1, SumChange
  <2>2. SumFunctionOnSet(f, S) \in Int
    BY <1>3, <1>6, SumType
  <2> QED
    BY <1>2, <1>3, <1>4, <2>1, <2>2
<1>7. Sum(N.acc, k, s, off) = SumFunctionOnSet(g, Instrs)
  <2>1. Sum(N.acc, k, s, off) = Sum(M.acc, k, s, off) + d
    BY <1>1 DEF AddsToAll, Adds
  <2>2. Sum(M.acc, k, s, off) = SumFunctionOnSet(f, Instrs)
    BY <1>1 DEF SumsOK
  <2> QED
    BY <1>6, <2>1, <2>2, AccountAssumption
<1>8. ASSUME NEW p \in Prds
      PROVE  Sum(N.prd[p], k, s, off) = SumFunctionOnSet(g, OfProduct(p))
  <2>1. Sum(M.prd[p], k, s, off) = SumFunctionOnSet(f, OfProduct(p))
    BY <1>1 DEF SumsOK
  <2>2. CASE p = PrdOf[i]
    <3>1. Sum(N.prd[p], k, s, off) = Sum(M.prd[p], k, s, off) + d
      BY <1>1, <2>2 DEF AddsToAll, Adds
    <3>2. i \in OfProduct(p)
      BY <2>2 DEF OfProduct
    <3> QED
      BY <1>6, <2>1, <3>1, <3>2, OfProductFinite
  <2>3. CASE p # PrdOf[i]
    <3>1. N.prd[p] = M.prd[p]
      BY <2>3 DEF AddsToAll
    <3>2. \A j \in OfProduct(p) : f[j] = g[j]
      BY <1>5, <2>3 DEF OfProduct
    <3>3. SumFunctionOnSet(f, OfProduct(p)) = SumFunctionOnSet(g, OfProduct(p))
      BY <3>2, OfProductFinite, SumSame
    <3> QED
      BY <2>1, <3>1, <3>3
  <2> QED
    BY <2>2, <2>3
<1> QED
  BY <1>1, <1>7, <1>8

(* What is changed in the instrument alone is not added up. *)
SameValues(M, N) ==
  /\ \A j \in Instrs, k \in Sorts, s \in Sides, off \in Offs :
       Sum(N.instr[j], k, s, off) = Sum(M.instr[j], k, s, off)
  /\ N.prd = M.prd /\ N.acc = M.acc

LEMMA SumsSame ==
  ASSUME NEW M, NEW N, SameValues(M, N), SumsOK(M)
  PROVE  SumsOK(N)
<1>1. ASSUME NEW k \in Sorts, NEW s \in Sides, NEW off \in Offs
      PROVE  Values(N, k, s, off) = Values(M, k, s, off)
  BY DEF Values, SameValues
<1> QED
  BY <1>1 DEF SumsOK, SameValues

(* An operation in its three parts *)
InParts(N, M, i, a, b, c) ==
  N = [instr |-> [M.instr EXCEPT ![i] = a],
       prd |-> [M.prd EXCEPT ![PrdOf[i]] = b], acc |-> c]

LEMMA AllParts ==
  ASSUME NEW M \in BookType, NEW i \in Instrs, NEW x \in ChangeType,
         NEW a \in MoneyType, NEW b \in MoneyType, NEW c \in MoneyType, NEW N,
         InParts(N, M, i, a, b, c),
         Adds(M.instr[i], a, x), Adds(M.prd[PrdOf[i]], b, x), Adds(M.acc, c, x)
  PROVE  /\ N \in BookType /\ AddsToAll(M, N, i, x) /\ N.instr[i] = a
         /\ \A j \in Instrs : j # i => N.instr[j] = M.instr[j]
<1>1. PrdOf[i] \in Prds /\ M.instr \in [Instrs -> MoneyType] /\ M.prd \in [Prds -> MoneyType]
  BY AccountAssumption DEF BookType
<1>2. /\ N = [instr |-> N.instr, prd |-> N.prd, acc |-> N.acc]
      /\ N.instr = [M.instr EXCEPT ![i] = a] /\ N.prd = [M.prd EXCEPT ![PrdOf[i]] = b]
      /\ N.acc = c
  BY DEF InParts
<1>3. N.instr \in [Instrs -> MoneyType] /\ N.prd \in [Prds -> MoneyType]
  BY <1>1, <1>2
<1>4. N.instr[i] = a /\ N.prd[PrdOf[i]] = b
  BY <1>1, <1>2
<1>5. /\ \A j \in Instrs : j # i => N.instr[j] = M.instr[j]
      /\ \A q \in Prds : q # PrdOf[i] => N.prd[q] = M.prd[q]
  BY <1>1, <1>2
<1>6. N \in BookType
  BY <1>2, <1>3 DEF BookType
<1> QED
  BY <1>2, <1>4, <1>5, <1>6 DEF AddsToAll

-----------------------------------------------------------------------------
(***************************************************************************)
(* The three operations of ModInstr                                        *)
(***************************************************************************)
LEMMA AmtNewMoves ==
  ASSUME NEW M \in BookType, NEW o \in OrderType, NEW p \in Int, NEW v \in Int
  PROVE  LET N == AmtNew(M, o, p, v)
             x == IngAdded(o, p * v * Mult)
         IN  /\ N \in BookType /\ x \in ChangeType /\ AddsToAll(M, N, o.instr, x)
             /\ Kept(M.instr[o.instr], N.instr[o.instr])
             /\ N.instr[o.instr].last = M.instr[o.instr].last
             /\ \A j \in Instrs : j # o.instr => N.instr[j] = M.instr[j]
<1>1. PICK i, d, x, N : /\ i = o.instr /\ d = p * v * Mult /\ x = IngAdded(o, d)
                        /\ N = AmtNew(M, o, p, v)
  OBVIOUS
<1>2. i \in Instrs /\ PrdOf[i] \in Prds /\ d \in Int
  BY <1>1, MoreAtPrice, AccountAssumption, AmountsAssumption DEF OrderType
<1>3. PICK a, b, c : /\ a = IngChange(M.instr[i], o, d) /\ c = IngChange(M.acc, o, d)
                     /\ b = IngChange(M.prd[PrdOf[i]], o, d)
  OBVIOUS
<1>4. /\ a \in MoneyType /\ b \in MoneyType /\ c \in MoneyType /\ x \in ChangeType
      /\ Adds(M.instr[i], a, x) /\ Adds(M.prd[PrdOf[i]], b, x) /\ Adds(M.acc, c, x)
      /\ Kept(M.instr[i], a) /\ a.last = M.instr[i].last
  BY <1>1, <1>2, <1>3, BookTyped, IngChanges
<1>5. InParts(N, M, i, a, b, c)
  BY <1>1, <1>3 DEF AmtNew, OnAll, InParts
<1>6. /\ N \in BookType /\ AddsToAll(M, N, i, x) /\ N.instr[i] = a
      /\ \A j \in Instrs : j # i => N.instr[j] = M.instr[j]
  BY <1>2, <1>4, <1>5, AllParts
<1> QED
  BY <1>1, <1>4, <1>6

(* The last price is the instrument's own. *)
LEMMA LastChanges ==
  ASSUME NEW m \in MoneyType, NEW p \in Int, NEW n, n = [m EXCEPT !.last = p]
  PROVE  /\ n \in MoneyType /\ n.last = p /\ Kept(m, n)
         /\ \A k \in Sorts, s \in Sides, off \in Offs :
              Sum(n, k, s, off) = Sum(m, k, s, off)
<1>1. n = [side |-> m.side, buy |-> m.buy, sell |-> m.sell, pos_pnl |-> m.pos_pnl,
           trd_pnl |-> m.trd_pnl, last |-> p, stl |-> m.stl]
  BY DEF MoneyType
<1>2. n \in MoneyType
  BY <1>1 DEF MoneyType
<1> QED
  BY <1>1, <1>2 DEF Kept, Sum

LEMMA TickPxMoves ==
  ASSUME NEW M \in BookType, NEW i \in Instrs, NEW u \in VolType, NEW p \in Int
  PROVE  LET N == TickPx(M, i, u, p)
             x == PxAdded(u, (p - M.instr[i].last) * Mult)
         IN  /\ N \in BookType /\ x \in ChangeType /\ AddsToAll(M, N, i, x)
             /\ Kept(M.instr[i], N.instr[i]) /\ N.instr[i].last = p
             /\ \A j \in Instrs : j # i => N.instr[j] = M.instr[j]
<1>1. PICK d, x, N, l : /\ l = M.instr[i].last /\ d = (p - l) * Mult
                        /\ x = PxAdded(u, d) /\ N = TickPx(M, i, u, p)
  OBVIOUS
<1>2. PrdOf[i] \in Prds /\ M.instr[i] \in MoneyType /\ l \in Int /\ Mult \in Int
  BY <1>1, BookTyped, AccountAssumption, AmountsAssumption DEF MoneyType
<1>3. d \in Int
  BY <1>1, <1>2, AtPrice
<1>4. PICK m, a, b, c :
        /\ m = PxChange(M.instr[i], u, d) /\ a = [m EXCEPT !.last = p]
        /\ b = PxChange(M.prd[PrdOf[i]], u, d) /\ c = PxChange(M.acc, u, d)
  OBVIOUS
<1>5. /\ m \in MoneyType /\ b \in MoneyType /\ c \in MoneyType /\ x \in ChangeType
      /\ Adds(M.instr[i], m, x) /\ Adds(M.prd[PrdOf[i]], b, x) /\ Adds(M.acc, c, x)
      /\ Kept(M.instr[i], m)
  BY <1>1, <1>2, <1>3, <1>4, BookTyped, PxChanges
<1>6. a \in MoneyType /\ a.last = p /\ Adds(M.instr[i], a, x) /\ Kept(M.instr[i], a)
  BY <1>4, <1>5, LastChanges DEF Adds, Kept
<1>7. InParts(N, M, i, a, b, c)
  <2>1. PICK I, P : I = [M.instr EXCEPT ![i] = m] /\ P = [M.prd EXCEPT ![PrdOf[i]] = b]
    OBVIOUS
  <2>2. N = [[instr |-> I, prd |-> P, acc |-> c] EXCEPT !.instr[i].last = p]
    BY <1>1, <1>4, <2>1 DEF TickPx, OnAll
  <2>3. N = [instr |-> [I EXCEPT ![i].last = p], prd |-> P, acc |-> c]
    BY <2>2
  <2>4. I \in [Instrs -> MoneyType] /\ I[i] = m
    BY <1>5, <2>1 DEF BookType
  <2>5. [I EXCEPT ![i].last = p] = [M.instr EXCEPT ![i] = a]
    BY <1>4, <1>5, <2>1, <2>4 DEF BookType
  <2> QED
    BY <2>1, <2>3, <2>5 DEF InParts
<1>8. /\ N \in BookType /\ AddsToAll(M, N, i, x) /\ N.instr[i] = a
      /\ \A j \in Instrs : j # i => N.instr[j] = M.instr[j]
  BY <1>2, <1>5, <1>6, <1>7, AllParts
<1> QED
  BY <1>1, <1>5, <1>6, <1>8

(* The trade itself, after the tick and what it no longer freezes: value   *)
(* in all three, cash in the instrument                                    *)
Bought(M, o, d) ==
  LET N == OnAll(M, o.instr, LAMBDA m : AmtChange(m, o, d))
  IN  [N EXCEPT !.instr[o.instr] = CashChange(@, o, d)]

LEMMA BoughtMoves ==
  ASSUME NEW M \in BookType, NEW o \in OrderType, NEW d \in Int
  PROVE  LET N == Bought(M, o, d)
             x == AmtAdded(o, d)
         IN  /\ N \in BookType /\ x \in ChangeType /\ AddsToAll(M, N, o.instr, x)
             /\ Paid(M.instr[o.instr], N.instr[o.instr], o, d)
             /\ \A j \in Instrs : j # o.instr => N.instr[j] = M.instr[j]
<1>1. PICK i, x, N : i = o.instr /\ x = AmtAdded(o, d) /\ N = Bought(M, o, d)
  OBVIOUS
<1>2. i \in Instrs /\ PrdOf[i] \in Prds /\ M.instr[i] \in MoneyType
  BY <1>1, BookTyped, AccountAssumption DEF OrderType
<1>3. PICK m, a, b, c :
        /\ m = AmtChange(M.instr[i], o, d) /\ a = CashChange(m, o, d)
        /\ b = AmtChange(M.prd[PrdOf[i]], o, d) /\ c = AmtChange(M.acc, o, d)
  OBVIOUS
<1>4. /\ m \in MoneyType /\ b \in MoneyType /\ c \in MoneyType /\ x \in ChangeType
      /\ Adds(M.instr[i], m, x) /\ Adds(M.prd[PrdOf[i]], b, x) /\ Adds(M.acc, c, x)
      /\ Kept(M.instr[i], m) /\ m.last = M.instr[i].last
  BY <1>1, <1>2, <1>3, BookTyped, AmtChanges
<1>5. a \in MoneyType /\ Adds(M.instr[i], a, x) /\ Paid(M.instr[i], a, o, d)
  BY <1>3, <1>4, CashChanges DEF Adds, Kept, Paid
<1>6. InParts(N, M, i, a, b, c)
  <2>1. PICK I, P : I = [M.instr EXCEPT ![i] = m] /\ P = [M.prd EXCEPT ![PrdOf[i]] = b]
    OBVIOUS
  <2>2. I \in [Instrs -> MoneyType] /\ I[i] = m
    BY <1>2, <1>4, <2>1 DEF BookType
  <2>3. N = [[instr |-> I, prd |-> P, acc |-> c] EXCEPT !.instr[i] = CashChange(@, o, d)]
    BY <1>1, <1>3, <2>1 DEF Bought, OnAll
  <2>4. N = [instr |-> [I EXCEPT ![i] = CashChange(I[i], o, d)], prd |-> P, acc |-> c]
    BY <2>3
  <2>5. [I EXCEPT ![i] = CashChange(I[i], o, d)] = [M.instr EXCEPT ![i] = a]
    BY <1>3, <2>1, <2>2 DEF BookType
  <2> QED
    BY <2>1, <2>4, <2>5 DEF InParts
<1>7. /\ N \in BookType /\ AddsToAll(M, N, i, x) /\ N.instr[i] = a
      /\ \A j \in Instrs : j # i => N.instr[j] = M.instr[j]
  BY <1>2, <1>4, <1>5, <1>6, AllParts
<1> QED
  BY <1>1, <1>4, <1>5, <1>7

LEMMA AmtTrdIs ==
  ASSUME NEW M, NEW o, NEW p, NEW u, NEW t, NEW v
  PROVE  AmtTrd(M, o, p, u, t, v)
           = Bought(AmtCxl(TickPx(M, o.instr, u, t), o, p, v), o, t * v * Mult)
BY DEF AmtTrd, Bought

-----------------------------------------------------------------------------
(***************************************************************************)
(* The books of the account, I being the volumes of the instruments        *)
(***************************************************************************)
BookOK(M, I) ==
  M \in BookType /\ SumsOK(M) /\ \A i \in Instrs : UnitOK(M.instr[i], I[i])

SamePositions(I, J) == \A i \in Instrs : SamePos(I[i], J[i])

LEMMA BookPos ==
  ASSUME NEW M, NEW I, NEW J, BookOK(M, I), SamePositions(I, J)
  PROVE  BookOK(M, J)
BY UnitPos DEF BookOK, SamePositions

LEMMA NewPositions ==
  ASSUME NEW I \in [Instrs -> VolType], NEW o \in OrderType, NEW v \in Int
  PROVE  SamePositions(I, [I EXCEPT ![o.instr] = VolNew(@, o.dir, o.off, v)])
<1>1. PICK e, i : e = SideOf(o.dir, o.off) /\ i = o.instr
  OBVIOUS
<1>2. e \in Sides /\ i \in Instrs /\ I[i].side \in [Sides -> SideType]
  BY <1>1, SideOfType DEF OrderType, VolType
<1>3. SamePos(I[i], VolNew(I[i], o.dir, o.off, v))
  <2>1. PICK w, x : w = VolNew(I[i], o.dir, o.off, v) /\ x = I[i].side
    OBVIOUS
  <2>2. w.side = [x EXCEPT ![e] = AddIng(x[e], o.off, v)]
    BY <1>1, <2>1 DEF VolNew
  <2>3. \A s \in Sides : w.side[s].pos = x[s].pos /\ w.side[s].yd_ini = x[s].yd_ini
    BY <1>2, <2>1, <2>2 DEF AddIng
  <2> QED
    BY <2>1, <2>3 DEF SamePos
<1>4. \A u : SamePos(u, u)
  BY DEF SamePos
<1> QED
  BY <1>1, <1>2, <1>3, <1>4 DEF SamePositions

LEMMA AmtNewKeeps ==
  ASSUME NEW M, NEW I, BookOK(M, I), NEW o \in OrderType, NEW p \in Int, NEW v \in Int
  PROVE  BookOK(AmtNew(M, o, p, v), I)
<1>1. PICK i, x, N : /\ i = o.instr /\ x = IngAdded(o, p * v * Mult)
                     /\ N = AmtNew(M, o, p, v)
  OBVIOUS
<1>2. /\ N \in BookType /\ x \in ChangeType /\ AddsToAll(M, N, i, x)
      /\ Kept(M.instr[i], N.instr[i]) /\ N.instr[i].last = M.instr[i].last
      /\ \A j \in Instrs : j # i => N.instr[j] = M.instr[j]
  BY <1>1, AmtNewMoves DEF BookOK
<1>3. i \in Instrs /\ M \in BookType
  BY <1>1 DEF OrderType, BookOK
<1>4. SumsOK(N)
  BY <1>2, <1>3, SumsKept DEF BookOK
<1>5. UnitOK(N.instr[i], I[i])
  <2>1. PICK m, n, u : m = M.instr[i] /\ n = N.instr[i] /\ u = I[i]
    OBVIOUS
  <2>2. m \in MoneyType /\ n \in MoneyType /\ UnitOK(m, u) /\ Adds(m, n, x)
    BY <1>2, <1>3, <2>1, BookTyped DEF BookOK, AddsToAll
  <2>3. SamePos(u, u) /\ Kept(m, n) /\ PricedAt(n, m.last)
    BY <1>2, <2>1 DEF SamePos, PricedAt
  <2>4. \A s \in Sides, off \in Offs :
          x["amt"][s][off] = 0 /\ x["pos"][s][off] = 0 /\ x["trd"][s][off] = 0
    BY <1>1 DEF IngAdded, Sorts
  <2>5. UnitOK(n, u)
    BY <2>2, <2>3, <2>4, UnitSame
  <2> QED
    BY <2>1, <2>5
<1> QED
  BY <1>1, <1>2, <1>3, <1>4, <1>5 DEF BookOK

LEMMA TickPxKeeps ==
  ASSUME NEW M, NEW I, BookOK(M, I), NEW i \in Instrs, NEW u \in GoodVol,
         SamePos(u, I[i]), NEW p \in Int
  PROVE  BookOK(TickPx(M, i, u, p), I) /\ TickPx(M, i, u, p).instr[i].last = p
<1>1. PICK d, x, N : /\ d = (p - M.instr[i].last) * Mult /\ x = PxAdded(u, d)
                     /\ N = TickPx(M, i, u, p)
  OBVIOUS
<1>2. M \in BookType /\ u \in VolType
  BY DEF BookOK, GoodVol
<1>3. /\ N \in BookType /\ x \in ChangeType /\ AddsToAll(M, N, i, x)
      /\ Kept(M.instr[i], N.instr[i]) /\ N.instr[i].last = p
      /\ \A j \in Instrs : j # i => N.instr[j] = M.instr[j]
  BY <1>1, <1>2, TickPxMoves
<1>4. SumsOK(N)
  BY <1>2, <1>3, SumsKept DEF BookOK
<1>5. UnitOK(N.instr[i], I[i])
  <2>1. PICK m, n, w : m = M.instr[i] /\ n = N.instr[i] /\ w = I[i]
    OBVIOUS
  <2>2. m \in MoneyType /\ n \in MoneyType /\ UnitOK(m, w) /\ Adds(m, n, PxAdded(u, d))
    BY <1>1, <1>2, <1>3, <2>1, BookTyped DEF BookOK, AddsToAll
  <2>3. SamePos(u, w) /\ SamePos(w, u) /\ Kept(m, n) /\ PricedAt(n, p)
    BY <1>3, <2>1 DEF SamePos, PricedAt
  <2>4. UnitOK(m, u) /\ d = (p - m.last) * Mult
    BY <1>1, <2>1, <2>2, <2>3, UnitPos
  <2>5. UnitOK(n, u)
    BY <2>2, <2>3, <2>4, UnitTick
  <2> QED
    BY <2>1, <2>3, <2>5, UnitPos
<1> QED
  BY <1>1, <1>3, <1>4, <1>5 DEF BookOK

LEMMA AmtTrdKeeps ==
  ASSUME NEW M, NEW I \in [Instrs -> VolType], BookOK(M, I), NEW o \in OrderType,
         NEW u \in GoodVol, SamePos(u, I[o.instr]),
         NEW p \in Int, NEW t \in Int, NEW v \in Int
  PROVE  BookOK(AmtTrd(M, o, p, u, t, v),
                [I EXCEPT ![o.instr] = VolTrd(@, o.dir, o.off, v)])
<1>1. PICK i, A, B, N, d, x, J :
        /\ i = o.instr /\ A = TickPx(M, i, u, t) /\ B = AmtCxl(A, o, p, v)
        /\ d = t * v * Mult /\ N = Bought(B, o, d) /\ x = AmtAdded(o, d)
        /\ J = [I EXCEPT ![i] = VolTrd(I[i], o.dir, o.off, v)]
  OBVIOUS
<1>2. i \in Instrs /\ d \in Int /\ Mult \in Int /\ -v \in Int
  BY <1>1, MoreAtPrice, AmountsAssumption DEF OrderType
<1>3. BookOK(A, I) /\ A.instr[i].last = t
  BY <1>1, <1>2, TickPxKeeps
<1>4. B = AmtNew(A, o, p, -v)
  BY <1>1 DEF AmtCxl
<1>5. BookOK(B, I)
  BY <1>2, <1>3, <1>4, AmtNewKeeps
<1>6. B.instr[i].last = t
  BY <1>1, <1>2, <1>3, <1>4, AmtNewMoves DEF BookOK
<1>7. /\ N \in BookType /\ x \in ChangeType /\ AddsToAll(B, N, i, x)
      /\ Paid(B.instr[i], N.instr[i], o, d)
      /\ \A j \in Instrs : j # i => N.instr[j] = B.instr[j]
  <2>1. B \in BookType /\ N = Bought(B, o, d) /\ x = AmtAdded(o, d) /\ i = o.instr
    BY <1>1, <1>5 DEF BookOK
  <2> QED
    BY <1>2, <2>1, BoughtMoves
<1>8. SumsOK(N)
  BY <1>2, <1>5, <1>7, SumsKept DEF BookOK
<1>9. UnitOK(N.instr[i], J[i])
  <2>1. PICK m, n, w : m = B.instr[i] /\ n = N.instr[i] /\ w = I[i]
    OBVIOUS
  <2>2. m \in MoneyType /\ n \in MoneyType /\ UnitOK(m, w) /\ w \in VolType
    BY SMTT(30), <1>2, <1>5, <1>7, <2>1, BookTyped DEF BookOK
  <2>3. Adds(m, n, AmtAdded(o, d)) /\ Paid(m, n, o, d) /\ PricedAt(m, t)
    BY <1>1, <1>6, <1>7, <2>1 DEF AddsToAll, PricedAt
  <2>4. UnitOK(n, VolTrd(w, o.dir, o.off, v))
    BY <1>1, <2>2, <2>3, UnitTrd
  <2> QED
    BY <1>1, <1>2, <2>1, <2>4
<1>10. \A j \in Instrs : j # i => J[j] = I[j]
  BY <1>1, <1>2
<1>11. BookOK(N, J)
  BY <1>5, <1>7, <1>8, <1>9, <1>10 DEF BookOK
<1> QED
  BY <1>1, <1>11, AmtTrdIs

LEMMA ReplayKeeps ==
  ASSUME NEW a \in AccType, NEW M, BookOK(M, a.instr), NEW o \in OrderType,
         NEW p \in Int, NEW amount \in Int
  PROVE  BookOK(AmtOrderTrack(M, o, p, a.instr[o.instr], amount),
                OnOrderTrack(a, o).instr)
<1>1. o.vol \in Int /\ o.traded \in Int /\ o.vol - o.traded \in Int /\ o.traded >= 0
      /\ -(o.vol - o.traded) \in Int /\ o.instr \in Instrs
  BY AccountAssumption DEF OrderType
<1>2. PICK b, c, d, i, u, t :
        /\ b = NewOf(a, o) /\ c = CxlOf(b, o) /\ d = TrdOf(c, o)
        /\ i = o.instr /\ u = a.instr[i]
        /\ t = IF o.traded = 0 THEN 0 ELSE amount \div o.traded
  OBVIOUS
<1>3. b \in AccType
  BY <1>2, OnNewGood DEF NewOf
<1>4. c \in AccType
  BY <1>1, <1>2, <1>3, OnCxlGood DEF CxlOf
<1>5. d = OnOrderTrack(a, o) /\ t \in Int
  <2>1. CASE o.traded = 0
    BY <1>2, <2>1 DEF OnOrderTrack
  <2>2. CASE o.traded # 0
    <3>1. PICK k : k = o.traded
      OBVIOUS
    <3>2. k \in Nat \ {0} /\ t = amount \div k
      BY <1>1, <1>2, <2>2, <3>1
    <3>3. amount \div k \in Int
      BY <3>2
    <3> QED
      BY <1>2, <3>2, <3>3 DEF OnOrderTrack
  <2> QED
    BY <2>1, <2>2
<1>6. PICK N, C, D :
        /\ N = (IF "TDSEND" \in o.st THEN AmtNew(M, o, p, o.vol) ELSE M)
        /\ C = (IF "CLOSED" \in o.st /\ o.vol # o.traded
                THEN AmtCxl(N, o, p, o.vol - o.traded) ELSE N)
        /\ D = (IF "EXECUTION" \in o.st THEN AmtTrd(C, o, p, u, t, o.traded) ELSE C)
  OBVIOUS
<1>7. D = AmtOrderTrack(M, o, p, u, amount)
  BY <1>2, <1>6 DEF AmtOrderTrack
<1>8. /\ a.instr \in [Instrs -> VolType] /\ b.instr \in [Instrs -> VolType]
      /\ c.instr \in [Instrs -> VolType] /\ u \in GoodVol
  BY <1>1, <1>2, <1>3, <1>4 DEF AccType, GoodVol
<1>9. \A I : SamePositions(I, I)
  BY DEF SamePositions, SamePos
<1>10. BookOK(N, b.instr) /\ SamePositions(a.instr, b.instr)
  <2>1. CASE "TDSEND" \in o.st
    <3>1. b.instr = [a.instr EXCEPT ![o.instr] = VolNew(@, o.dir, o.off, o.vol)]
          /\ N = AmtNew(M, o, p, o.vol)
      BY <1>2, <1>6, <2>1 DEF NewOf, OnNew, Account
    <3>2. SamePositions(a.instr, b.instr)
      BY <1>1, <1>8, <3>1, NewPositions
    <3>3. BookOK(N, a.instr)
      BY <1>1, <3>1, AmtNewKeeps
    <3> QED
      BY <3>2, <3>3, BookPos
  <2>2. CASE "TDSEND" \notin o.st
    BY <1>2, <1>6, <1>9, <2>2 DEF NewOf
  <2> QED
    BY <2>1, <2>2
<1>11. BookOK(C, c.instr) /\ SamePositions(b.instr, c.instr)
  <2>1. CASE "CLOSED" \in o.st /\ o.vol # o.traded
    <3>1. PICK v : v = -(o.vol - o.traded)
      OBVIOUS
    <3>2. c.instr = [b.instr EXCEPT ![o.instr] = VolNew(@, o.dir, o.off, v)]
          /\ C = AmtNew(N, o, p, v) /\ v \in Int
      BY <1>1, <1>2, <1>6, <2>1, <3>1 DEF CxlOf, OnCxl, Account, VolCxl, AmtCxl
    <3>3. SamePositions(b.instr, c.instr)
      BY <1>8, <3>2, NewPositions
    <3>4. BookOK(C, b.instr)
      BY <1>10, <3>2, AmtNewKeeps
    <3> QED
      BY <3>3, <3>4, BookPos
  <2>2. CASE ~("CLOSED" \in o.st /\ o.vol # o.traded)
    BY <1>2, <1>6, <1>9, <1>10, <2>2 DEF CxlOf
  <2> QED
    BY <2>1, <2>2
<1>12. BookOK(D, d.instr)
  <2>1. CASE "EXECUTION" \in o.st
    <3>1. d.instr = [c.instr EXCEPT ![o.instr] = VolTrd(@, o.dir, o.off, o.traded)]
          /\ D = AmtTrd(C, o, p, u, t, o.traded)
      BY <1>2, <1>6, <2>1 DEF TrdOf, OnTrd, Account
    <3>2. SamePos(u, c.instr[o.instr])
      BY <1>1, <1>2, <1>10, <1>11 DEF SamePositions, SamePos
    <3> QED
      BY <1>1, <1>5, <1>8, <1>11, <3>1, <3>2, AmtTrdKeeps
  <2>2. CASE "EXECUTION" \notin o.st
    BY <1>2, <1>6, <1>11, <2>2 DEF TrdOf
  <2> QED
    BY <2>1, <2>2
<1> QED
  BY <1>2, <1>5, <1>7, <1>12

-----------------------------------------------------------------------------
(***************************************************************************)
(* Days: the values that are saved, those of the positions S               *)
(***************************************************************************)
AmtsOf(F, s) == [i \in Instrs |-> F.instr[i].side[s].amt]

ValuesOK(F, S) ==
  /\ F \in BookType
  /\ \A i \in Instrs, s \in Sides :
       F.instr[i].side[s].amt = S[i][s] * F.instr[i].last * Mult
  /\ \A s \in Sides :
       /\ \A p \in Prds : F.prd[p].side[s].amt
                            = SumFunctionOnSet(AmtsOf(F, s), OfProduct(p))
       /\ F.acc.side[s].amt = SumFunctionOnSet(AmtsOf(F, s), Instrs)

(* The entry of a flat instrument, or of a flat product, may be left out. *)
Cleared(N, M, I, P) ==
  /\ N = [instr |-> [i \in Instrs |-> N.instr[i]],
          prd |-> [p \in Prds |-> N.prd[p]], acc |-> M.acc]
  /\ \A i \in Instrs :
       N.instr[i] = M.instr[i] \/ (N.instr[i] = ZeroMoney /\ Flat(I[i]))
  /\ \A p \in Prds :
       N.prd[p] = M.prd[p] \/ (N.prd[p] = ZeroMoney /\ Flat(P[p]))

NoneDangles(I, P) == \A i \in Instrs : Flat(P[PrdOf[i]]) => Flat(I[i])

LEMMA ClearedKeeps ==
  ASSUME NEW M, NEW I, BookOK(M, I), NEW P, NoneDangles(I, P),
         NEW N, Cleared(N, M, I, P), NEW S, S = [i \in Instrs |-> Pos(I[i])]
  PROVE  ValuesOK(N, S)
<1>1. M \in BookType /\ ZeroMoney \in MoneyType /\ "amt" \in Sorts /\ "Open" \in Offs
  BY UnitZero DEF BookOK, Sorts, Offs
<1>2. /\ \A i \in Instrs : N.instr[i] \in MoneyType
      /\ \A p \in Prds : N.prd[p] \in MoneyType
  BY <1>1, BookTyped DEF Cleared
<1>3. N \in BookType
  <2>1. [i \in Instrs |-> N.instr[i]] \in [Instrs -> MoneyType]
        /\ [p \in Prds |-> N.prd[p]] \in [Prds -> MoneyType] /\ M.acc \in MoneyType
    BY <1>1, <1>2, BookTyped
  <2> QED
    BY <2>1 DEF Cleared, BookType
<1>4. \A s \in Sides : ZeroMoney.side[s].amt = 0
  BY DEF ZeroMoney, ZeroAmt
<1>5. ASSUME NEW i \in Instrs, NEW s \in Sides
      PROVE  /\ N.instr[i].side[s].amt = M.instr[i].side[s].amt
             /\ N.instr[i].side[s].amt = S[i][s] * N.instr[i].last * Mult
             /\ Flat(I[i]) => M.instr[i].side[s].amt = 0
  <2>1. PICK x, l, n : /\ x = I[i].side[s].pos /\ l = M.instr[i].last
                       /\ n = N.instr[i].last
    OBVIOUS
  <2>2. M.instr[i].side[s].amt = x * l * Mult /\ S[i][s] = x
    BY <2>1 DEF BookOK, UnitOK, Pos
  <2>3. l \in Int /\ n \in Int
    BY <1>1, <1>2, <2>1, BookTyped DEF MoneyType
  <2>4. Flat(I[i]) => x = 0
    BY <2>1 DEF Flat, Sides
  <2>5. 0 * l * Mult = 0 /\ 0 * n * Mult = 0
    BY <2>3, UnitZero
  <2>6. CASE N.instr[i] = M.instr[i]
    BY <2>1, <2>2, <2>4, <2>5, <2>6
  <2>7. CASE N.instr[i] = ZeroMoney /\ Flat(I[i])
    BY <1>4, <2>1, <2>2, <2>4, <2>5, <2>7
  <2> QED
    BY <2>6, <2>7 DEF Cleared
<1>6. ASSUME NEW s \in Sides
      PROVE  AmtsOf(N, s) = Values(M, "amt", s, "Open")
  BY <1>5 DEF AmtsOf, Values, Sum
<1>7. ASSUME NEW s \in Sides
      PROVE  N.acc.side[s].amt = SumFunctionOnSet(AmtsOf(N, s), Instrs)
  <2>1. Sum(M.acc, "amt", s, "Open") = SumFunctionOnSet(Values(M, "amt", s, "Open"), Instrs)
    BY <1>1 DEF BookOK, SumsOK
  <2>2. N.acc = M.acc
    BY DEF Cleared
  <2> QED
    BY <1>6, <2>1, <2>2 DEF Sum
<1>8. ASSUME NEW s \in Sides, NEW p \in Prds
      PROVE  N.prd[p].side[s].amt = SumFunctionOnSet(AmtsOf(N, s), OfProduct(p))
  <2>1. Sum(M.prd[p], "amt", s, "Open")
          = SumFunctionOnSet(Values(M, "amt", s, "Open"), OfProduct(p))
    BY <1>1 DEF BookOK, SumsOK
  <2>2. CASE N.prd[p] = M.prd[p]
    BY <1>6, <2>1, <2>2 DEF Sum
  <2>3. CASE N.prd[p] = ZeroMoney /\ Flat(P[p])
    <3>1. \A i \in OfProduct(p) : Flat(I[i])
      BY <2>3 DEF OfProduct, NoneDangles
    <3>2. PICK f : f = AmtsOf(N, s)
      OBVIOUS
    <3>3. \A i \in OfProduct(p) : f[i] = 0
      BY <1>5, <3>1, <3>2, OfProductFinite DEF AmtsOf
    <3>4. SumFunctionOnSet(f, OfProduct(p)) = 0
      BY <3>3, OfProductFinite, SumZero
    <3> QED
      BY <1>4, <2>3, <3>2, <3>4
  <2> QED
    BY <2>2, <2>3 DEF Cleared
<1> QED
  BY <1>3, <1>5, <1>7, <1>8 DEF ValuesOK

(* A day begins with what was saved. *)
NewDay(F) == [instr |-> [i \in Instrs |-> MoneySwitchDay(F.instr[i])],
              prd |-> [p \in Prds |-> MoneySwitchDay(F.prd[p])],
              acc |-> MoneySwitchDay(F.acc)]

LEMMA NewDayTyped ==
  ASSUME NEW m \in MoneyType
  PROVE  /\ MoneySwitchDay(m) \in MoneyType
         /\ \A k \in Sorts, s \in Sides, off \in Offs :
              Sum(MoneySwitchDay(m), k, s, off) = IF k = "amt" THEN m.side[s].amt ELSE 0
<1>1. PICK n, y : /\ y = [s \in Sides |-> [amt |-> m.side[s].amt,
                                           ing |-> [off \in Offs |-> 0]]]
                  /\ n = MoneySwitchDay(m)
  OBVIOUS
<1>2. (\A s \in Sides : m.side[s].amt \in Int) /\ m.last \in Int
  BY DEF MoneyType, AmtType
<1>3. y \in [Sides -> AmtType]
  BY <1>1, <1>2 DEF AmtType
<1>4. \A s \in Sides : [ZeroAmt EXCEPT !.amt = m.side[s].amt]
                         = [amt |-> m.side[s].amt, ing |-> [off \in Offs |-> 0]]
  BY DEF ZeroAmt
<1>5. n = [side |-> y, buy |-> 0, sell |-> 0, pos_pnl |-> 0, trd_pnl |-> 0,
           last |-> m.last, stl |-> m.last]
  BY <1>1, <1>4 DEF MoneySwitchDay
<1>6. n \in MoneyType
  BY <1>2, <1>3, <1>5 DEF MoneyType
<1>7. \A k \in Sorts, s \in Sides, off \in Offs :
        Sum(n, k, s, off) = IF k = "amt" THEN m.side[s].amt ELSE 0
  BY <1>1, <1>5 DEF Sum, Sorts
<1> QED
  BY <1>1, <1>6, <1>7

LEMMA NewDayKeeps ==
  ASSUME NEW F, NEW S \in [Instrs -> PosType], ValuesOK(F, S)
  PROVE  BookOK(NewDay(F), [i \in Instrs |-> CarriedOver(S[i])])
<1>1. PICK N : N = NewDay(F)
  OBVIOUS
<1>2. /\ F \in BookType
      /\ \A i \in Instrs : N.instr[i] = MoneySwitchDay(F.instr[i])
      /\ \A p \in Prds : N.prd[p] = MoneySwitchDay(F.prd[p])
      /\ N.acc = MoneySwitchDay(F.acc)
  BY <1>1 DEF NewDay, ValuesOK
<1>3. N \in BookType
  <2>1. /\ [i \in Instrs |-> MoneySwitchDay(F.instr[i])] \in [Instrs -> MoneyType]
        /\ [p \in Prds |-> MoneySwitchDay(F.prd[p])] \in [Prds -> MoneyType]
        /\ MoneySwitchDay(F.acc) \in MoneyType
    BY <1>2, BookTyped, NewDayTyped
  <2> QED
    BY <1>1, <2>1 DEF NewDay, BookType
<1>4. ASSUME NEW i \in Instrs
      PROVE  UnitOK(N.instr[i], CarriedOver(S[i]))
  <2>1. PICK m, q : m = F.instr[i] /\ q = S[i]
    OBVIOUS
  <2>2. m \in MoneyType /\ q \in PosType
    BY <1>2, <2>1, BookTyped
  <2>3. \A s \in Sides : m.side[s].amt = q[s] * m.last * Mult
    BY <2>1 DEF ValuesOK
  <2>4. UnitOK(MoneySwitchDay(m), CarriedOver(q))
    BY <2>2, <2>3, UnitDay
  <2> QED
    BY <1>2, <2>1, <2>4
<1>5. ASSUME NEW k \in Sorts, NEW s \in Sides, NEW off \in Offs
      PROVE  /\ \A p \in Prds : Sum(N.prd[p], k, s, off)
                  = SumFunctionOnSet(Values(N, k, s, off), OfProduct(p))
             /\ Sum(N.acc, k, s, off) = SumFunctionOnSet(Values(N, k, s, off), Instrs)
  <2>1. PICK f : f = Values(N, k, s, off)
    OBVIOUS
  <2>2. \A i \in Instrs : f[i] = IF k = "amt" THEN F.instr[i].side[s].amt ELSE 0
    BY <1>2, <2>1, BookTyped, NewDayTyped DEF Values
  <2>3. /\ \A p \in Prds : Sum(N.prd[p], k, s, off)
                             = IF k = "amt" THEN F.prd[p].side[s].amt ELSE 0
        /\ Sum(N.acc, k, s, off) = IF k = "amt" THEN F.acc.side[s].amt ELSE 0
    BY <1>2, BookTyped, NewDayTyped
  <2>4. CASE k = "amt"
    <3>1. f = AmtsOf(F, s)
      BY <2>1, <2>2, <2>4 DEF AmtsOf, Values
    <3> QED
      BY <2>1, <2>3, <2>4, <3>1 DEF ValuesOK
  <2>5. CASE k # "amt"
    <3>1. \A p \in Prds : SumFunctionOnSet(f, OfProduct(p)) = 0
      <4>1. SUFFICES ASSUME NEW p \in Prds
                     PROVE  SumFunctionOnSet(f, OfProduct(p)) = 0
        OBVIOUS
      <4>2. \A i \in OfProduct(p) : f[i] = 0
        BY <2>2, <2>5, OfProductFinite
      <4> QED
        BY <4>2, OfProductFinite, SumZero
    <3>2. SumFunctionOnSet(f, Instrs) = 0
      BY <2>2, <2>5, SumZero, AccountAssumption
    <3> QED
      BY <2>1, <2>3, <2>5, <3>1, <3>2
  <2> QED
    BY <2>4, <2>5
<1>6. SumsOK(N)
  BY <1>5 DEF SumsOK
<1>7. \A i \in Instrs : [j \in Instrs |-> CarriedOver(S[j])][i] = CarriedOver(S[i])
  OBVIOUS
<1> QED
  BY <1>1, <1>3, <1>4, <1>6, <1>7 DEF BookOK

(* Nothing is held at nothing. *)
LEMMA NoMoneyOK ==
  /\ NoMoney = NewDay(NoMoney)
  /\ ValuesOK(NoMoney, [i \in Instrs |-> Pos(ZeroVol)])
  /\ [i \in Instrs |-> CarriedOver(Pos(ZeroVol))] = [i \in Instrs |-> ZeroVol]
<1>1. MoneySwitchDay(ZeroMoney) = ZeroMoney
  BY DEF MoneySwitchDay, ZeroMoney, ZeroAmt
<1>2. NoMoney = NewDay(NoMoney)
  BY <1>1 DEF NoMoney, NewDay
<1>3. CarriedOver(Pos(ZeroVol)) = ZeroVol
  BY DEF CarriedOver, Pos, ZeroVol, ZeroSide
<1>4. /\ NoMoney \in BookType /\ \A i \in Instrs : NoMoney.instr[i] = ZeroMoney
      /\ \A p \in Prds : NoMoney.prd[p] = ZeroMoney
      /\ NoMoney.acc = ZeroMoney
  BY UnitZero DEF NoMoney, BookType
<1>5. \A s \in Sides : ZeroMoney.side[s].amt = 0 /\ Pos(ZeroVol)[s] = 0
  BY DEF ZeroMoney, ZeroAmt, Pos, ZeroVol, ZeroSide
<1>6. ASSUME NEW s \in Sides, NEW T, IsFiniteSet(T), T \subseteq Instrs
      PROVE  SumFunctionOnSet(AmtsOf(NoMoney, s), T) = 0
  <2>1. PICK f : f = AmtsOf(NoMoney, s)
    OBVIOUS
  <2>2. \A i \in T : f[i] = 0
    BY <1>4, <1>5, <1>6, <2>1 DEF AmtsOf
  <2> QED
    BY <1>6, <2>1, <2>2, SumZero
<1>7. ZeroMoney.last = 0 /\ 0 * 0 * Mult = 0
  BY UnitZero DEF ZeroMoney
<1>8. PICK S : S = [i \in Instrs |-> Pos(ZeroVol)]
  OBVIOUS
<1>9. \A i \in Instrs, s \in Sides :
        NoMoney.instr[i].side[s].amt = S[i][s] * NoMoney.instr[i].last * Mult
  BY <1>4, <1>5, <1>7, <1>8
<1>10. ValuesOK(NoMoney, S)
  BY <1>4, <1>5, <1>6, <1>9, OfProductFinite, AccountAssumption DEF ValuesOK
<1> QED
  BY <1>2, <1>3, <1>8, <1>10

LEMMA NoBook == BookOK(NoMoney, [i \in Instrs |-> ZeroVol])
<1>1. PICK S : S = [i \in Instrs |-> Pos(ZeroVol)]
  OBVIOUS
<1>2. S \in [Instrs -> PosType]
  BY <1>1, ZeroGood
<1>3. BookOK(NewDay(NoMoney), [i \in Instrs |-> CarriedOver(S[i])])
  BY <1>1, <1>2, NoMoneyOK, NewDayKeeps
<1>4. [i \in Instrs |-> CarriedOver(S[i])] = [i \in Instrs |-> ZeroVol]
  BY <1>1, NoMoneyOK
<1> QED
  BY <1>3, <1>4, NoMoneyOK

-----------------------------------------------------------------------------
(***************************************************************************)
(* The invariant: the books are right, those of the saved file too, and    *)
(* every order has a price and an amount.                                  *)
(***************************************************************************)
PricesOK ==
  /\ px \in Seq(Int) /\ paid \in Seq(Int)
  /\ Len(px) = Len(track) /\ Len(paid) = Len(track)

MoneyInv == BookOK(money, instr) /\ ValuesOK(file, saved.instr) /\ PricesOK

LEMMA PriceType == Prices \subseteq Int
BY AmountsAssumption

LEMMA InstrsTyped ==
  ASSUME Parts
  PROVE  /\ instr \in [Instrs -> GoodVol] /\ instr \in [Instrs -> VolType]
         /\ saved.instr \in [Instrs -> PosType]
         /\ \A r \in DOMAIN track : track[r] \in OrderType /\ front[r] \in FrontType
BY DEF Parts, MemOK, SavedOK, OrdersOK, GoodVol

LEMMA NewOrderMoney ==
  ASSUME Parts, MoneyInv, NEW i \in Instrs, NEW dir \in Dirs, NEW off \in Offs,
         NEW p \in Prices, NEW v \in 1 .. MaxVol, ANewOrder(i, dir, off, p, v)
  PROVE  MoneyInv'
<1>1. PICK o : o = [instr |-> i, dir |-> dir, off |-> off, vol |-> v,
                    traded |-> 0, st |-> {"TDSEND"}]
  OBVIOUS
<1>2. /\ track' = Append(track, o) /\ Becomes(OnNew(Now, o)) /\ saved' = saved
      /\ px' = Append(px, p) /\ paid' = Append(paid, 0) /\ file' = file
      /\ money' = AmtNew(money, track'[Len(track')], p, v)
  BY <1>1 DEF ANewOrder, NewOrder
<1>3. o \in OrderType /\ v \in Int /\ p \in Int /\ track \in Seq(OrderType)
  BY <1>1, AccountAssumption, PriceType DEF OrderType, Parts, OrdersOK
<1>4. track'[Len(track')] = o /\ Len(track') = Len(track) + 1
  BY <1>2, <1>3
<1>5. instr' = [instr EXCEPT ![o.instr] = VolNew(@, o.dir, o.off, v)]
  BY <1>1, <1>2 DEF Becomes, OnNew, Now, Account
<1>6. SamePositions(instr, instr')
  BY <1>3, <1>5, InstrsTyped, NewPositions
<1>7. BookOK(money', instr)
  BY <1>2, <1>3, <1>4, AmtNewKeeps DEF MoneyInv
<1>8. BookOK(money', instr')
  BY <1>6, <1>7, BookPos
<1>9. PricesOK'
  BY <1>2, <1>3, <1>4 DEF PricesOK, MoneyInv
<1> QED
  BY <1>2, <1>8, <1>9 DEF MoneyInv

LEMMA OnRtnTradeMoney ==
  ASSUME Parts, MoneyInv, NEW r \in DOMAIN track, NEW n \in 1 .. MaxVol,
         NEW t \in Prices, AOnRtnTrade(r, n, t)
  PROVE  MoneyInv'
<1>1. PICK o, q : o = track[r] /\ q = [o EXCEPT !.traded = o.traded + n,
                        !.st = @ \cup {"EXECUTION"} \cup
                          (IF o.traded + n >= o.vol THEN {"CLOSED"} ELSE {})]
  OBVIOUS
<1>2. /\ track' = [track EXCEPT ![r] = q] /\ Becomes(OnTrd(Now, q, n)) /\ saved' = saved
      /\ paid' = [paid EXCEPT ![r] = @ + t * n] /\ px' = px /\ file' = file
      /\ money' = AmtTrd(money, o, px[r], instr[o.instr], t, n)
  BY <1>1 DEF AOnRtnTrade, OnRtnTrade
<1>3. /\ o \in OrderType /\ n \in Int /\ t \in Int /\ t * n \in Int
      /\ track \in Seq(OrderType) /\ r \in 1 .. Len(track)
  BY <1>1, AccountAssumption, PriceType DEF Parts, OrdersOK
<1>4. q.instr = o.instr /\ q.dir = o.dir /\ q.off = o.off /\ o.instr \in Instrs
  BY <1>1, <1>3 DEF OrderType
<1>5. instr' = [instr EXCEPT ![o.instr] = VolTrd(@, o.dir, o.off, n)]
  BY <1>2, <1>4 DEF Becomes, OnTrd, Now, Account
<1>6. px \in Seq(Int) /\ paid \in Seq(Int) /\ Len(px) = Len(track) /\ Len(paid) = Len(track)
  BY DEF MoneyInv, PricesOK
<1>7. px[r] \in Int /\ paid[r] + t * n \in Int
  BY <1>3, <1>6
<1>8. BookOK(money', instr')
  <2>1. PICK u : u = instr[o.instr]
    OBVIOUS
  <2>2. u \in GoodVol /\ SamePos(u, instr[o.instr])
    BY <1>4, <2>1, InstrsTyped DEF SamePos
  <2>3. instr \in [Instrs -> VolType] /\ BookOK(money, instr)
    BY InstrsTyped DEF MoneyInv
  <2> QED
    BY <1>2, <1>3, <1>5, <1>7, <2>1, <2>2, <2>3, AmtTrdKeeps
<1>9. PricesOK'
  <2>1. paid' \in Seq(Int) /\ Len(paid') = Len(paid) /\ Len(track') = Len(track)
    BY <1>2, <1>3, <1>6, <1>7
  <2> QED
    BY <1>2, <1>6, <2>1 DEF PricesOK
<1> QED
  BY <1>2, <1>8, <1>9 DEF MoneyInv

LEMMA OnRtnClosedMoney ==
  ASSUME Parts, MoneyInv, NEW r \in DOMAIN track, AOnRtnClosed(r)
  PROVE  MoneyInv'
<1>1. PICK o, v, w : o = track[r] /\ v = track[r].vol - front[r].traded /\ w = -v
  OBVIOUS
<1>2. /\ Becomes(OnCxl(Now, o, v)) /\ saved' = saved /\ px' = px /\ paid' = paid
      /\ file' = file /\ money' = AmtNew(money, o, px[r], w)
      /\ Len(track') = Len(track)
  BY <1>1 DEF AOnRtnClosed, OnRtnClosed, AmtCxl
<1>3. o \in OrderType /\ v \in Int /\ w \in Int
  <2>1. o \in OrderType /\ front[r] \in FrontType
    BY <1>1, InstrsTyped
  <2>2. o.vol \in Int /\ front[r].traded \in Int
    BY <2>1, AccountAssumption DEF OrderType, FrontType
  <2> QED
    BY <1>1, <2>1, <2>2
<1>4. instr' = [instr EXCEPT ![o.instr] = VolNew(@, o.dir, o.off, w)]
  BY <1>1, <1>2 DEF Becomes, OnCxl, VolCxl, Now, Account
<1>5. SamePositions(instr, instr')
  BY <1>3, <1>4, InstrsTyped, NewPositions
<1>6. px[r] \in Int
  BY DEF MoneyInv, PricesOK
<1>7. BookOK(money', instr)
  BY <1>2, <1>3, <1>6, AmtNewKeeps DEF MoneyInv
<1>8. BookOK(money', instr')
  BY <1>5, <1>7, BookPos
<1>9. PricesOK'
  BY <1>2 DEF PricesOK, MoneyInv
<1> QED
  BY <1>2, <1>8, <1>9 DEF MoneyInv

LEMMA OnTickPxMoney ==
  ASSUME Parts, MoneyInv, NEW i \in Instrs, NEW p \in Prices, OnTickPx(i, p)
  PROVE  MoneyInv'
<1>1. /\ money' = TickPx(money, i, instr[i], p) /\ instr' = instr /\ saved' = saved
      /\ track' = track /\ file' = file /\ px' = px /\ paid' = paid
  BY DEF OnTickPx, vars
<1>2. instr[i] \in GoodVol /\ SamePos(instr[i], instr[i]) /\ p \in Int
  BY InstrsTyped, PriceType DEF SamePos
<1>3. BookOK(money', instr)
  BY <1>1, <1>2, TickPxKeeps DEF MoneyInv
<1> QED
  BY <1>1, <1>3 DEF MoneyInv, PricesOK

LEMMA ReplayMoney ==
  ASSUME Parts, MoneyInv, AReplay
  PROVE  MoneyInv'
<1>1. PICK o, p, amount, a : /\ o = track[next] /\ p = px[next] /\ amount = paid[next]
                             /\ a = Now
  OBVIOUS
<1>2. /\ Becomes(OnOrderTrack(a, o)) /\ saved' = saved /\ track' = track
      /\ file' = file /\ px' = px /\ paid' = paid
      /\ money' = AmtOrderTrack(money, o, p, instr[o.instr], amount)
      /\ next <= Len(track)
  BY <1>1 DEF AReplay, Replay
<1>3. next \in 1 .. Len(track)
  BY <1>2 DEF Parts, RestOK, OrdersOK
<1>4. o \in OrderType /\ p \in Int /\ amount \in Int
  BY <1>1, <1>3 DEF MoneyInv, PricesOK, Parts, OrdersOK
<1>5. a \in AccType /\ a.instr = instr /\ BookOK(money, a.instr)
  BY <1>1, NowGood DEF Parts, MoneyInv, Now, Account
<1>6. instr' = OnOrderTrack(a, o).instr
  BY <1>2 DEF Becomes
<1>7. BookOK(AmtOrderTrack(money, o, p, a.instr[o.instr], amount),
             OnOrderTrack(a, o).instr)
  BY <1>4, <1>5, ReplayKeeps
<1>8. BookOK(money', instr')
  BY <1>2, <1>5, <1>6, <1>7
<1> QED
  BY <1>2, <1>8 DEF MoneyInv, PricesOK

LEMMA StartMoney ==
  ASSUME Parts, MoneyInv, AStart
  PROVE  MoneyInv'
<1>1. /\ money' = NewDay(file) /\ saved' = saved /\ file' = file /\ px' = px
      /\ paid' = paid /\ Becomes(Loaded) /\ Len(track') = Len(track)
  <2>1. Len(track') = Len(track)
    BY DEF AStart, Start, Parts, OrdersOK
  <2> QED
    BY <2>1 DEF AStart, Start, AmtLoaded, NewDay, MoneyFromJson
<1>2. instr' = [i \in Instrs |-> CarriedOver(saved.instr[i])]
  BY <1>1 DEF Becomes, Loaded, Account, VolFromJson
<1>3. BookOK(money', instr')
  BY <1>1, <1>2, InstrsTyped, NewDayKeeps DEF MoneyInv
<1> QED
  BY <1>1, <1>3 DEF MoneyInv, PricesOK

LEMMA CrashMoney ==
  ASSUME MoneyInv, ACrash
  PROVE  MoneyInv'
<1>1. /\ money' = NoMoney /\ instr' = [i \in Instrs |-> ZeroVol] /\ saved' = saved
      /\ track' = track /\ file' = file /\ px' = px /\ paid' = paid
  BY DEF ACrash, Crash, Becomes, Account
<1>2. BookOK(money', instr')
  BY <1>1, NoBook
<1> QED
  BY <1>1, <1>2 DEF MoneyInv, PricesOK

LEMMA MissedMoney ==
  ASSUME Parts, MoneyInv, NEW r \in DOMAIN track, AMissed(r)
  PROVE  MoneyInv'
<1>1. PICK t \in Prices :
        paid' = [paid EXCEPT ![r] = @ + t * (front'[r].traded - front[r].traded)]
  BY DEF AMissed
<1>2. /\ money' = money /\ instr' = instr /\ saved' = saved /\ track' = track
      /\ file' = file /\ px' = px
  BY DEF AMissed, Missed, memVars
<1>3. Parts'
  BY MissedStep DEF AMissed
<1>4. PICK d : d = front'[r].traded - front[r].traded
  OBVIOUS
<1>5. d \in Int /\ t \in Int
  <2>1. front[r] \in FrontType
    BY InstrsTyped
  <2>2. front'[r] \in FrontType
    BY <1>2, <1>3 DEF Parts, OrdersOK
  <2>3. front[r].traded \in Int /\ front'[r].traded \in Int
    BY <2>1, <2>2, AccountAssumption DEF FrontType
  <2> QED
    BY <1>4, <2>3, PriceType
<1>6. t * d \in Int /\ paid \in Seq(Int)
  BY <1>5 DEF MoneyInv, PricesOK
<1>7. paid' = [paid EXCEPT ![r] = @ + t * d]
  BY <1>1, <1>4
<1>8. paid' \in Seq(Int) /\ Len(paid') = Len(paid)
  <2>1. PICK e : e = t * d
    OBVIOUS
  <2>2. paid' = [paid EXCEPT ![r] = paid[r] + e] /\ e \in Int
    BY <1>6, <1>7, <2>1
  <2>3. r \in 1 .. Len(paid)
    BY DEF MoneyInv, PricesOK, Parts, OrdersOK
  <2> QED
    BY <1>6, <2>2, <2>3
<1> QED
  BY <1>2, <1>8 DEF MoneyInv, PricesOK

(* A day ends: what is erased, or left out of the file, was nothing. *)
LEMMA SavedMoney ==
  ASSUME MoneyInv, NoDanglingProduct, Save, AmtSave
  PROVE  ValuesOK(file', saved'.instr)
<1>1. Cleared(file', money, instr, prd)
  <2>1. \A u : Idle(u) => Flat(u)
    BY DEF Idle, Flat, Sides
  <2>2. PICK N : N = file'
    OBVIOUS
  <2>3. N = [instr |-> [i \in Instrs |->
                          IF Idle(instr[i]) THEN ZeroMoney ELSE money.instr[i]],
             prd |-> [p \in Prds |->
                        IF Idle(prd[p]) THEN ZeroMoney ELSE money.prd[p]],
             acc |-> money.acc]
    BY <2>2 DEF AmtSave
  <2>4. /\ \A i \in Instrs : N.instr[i]
             = IF Idle(instr[i]) THEN ZeroMoney ELSE money.instr[i]
        /\ \A p \in Prds : N.prd[p] = IF Idle(prd[p]) THEN ZeroMoney ELSE money.prd[p]
    BY <2>3
  <2>5. N = [instr |-> [i \in Instrs |-> N.instr[i]],
             prd |-> [p \in Prds |-> N.prd[p]], acc |-> money.acc]
    BY <2>3, <2>4
  <2>6. Cleared(N, money, instr, prd)
    BY <2>1, <2>4, <2>5 DEF Cleared
  <2> QED
    BY <2>2, <2>6
<1>2. saved'.instr = [i \in Instrs |-> Pos(instr[i])]
  BY DEF Save, VolToJson
<1>3. NoneDangles(instr, prd)
  BY DEF NoDanglingProduct, NoneDangles
<1> QED
  BY <1>1, <1>2, <1>3, ClearedKeeps DEF MoneyInv

LEMMA SwitchDayMoney ==
  ASSUME Parts, MoneyInv, NoDanglingProduct, ASwitchDay
  PROVE  MoneyInv'
<1>1. /\ SwitchDay /\ Save /\ AmtSave /\ track' = <<>> /\ px' = <<>> /\ paid' = <<>>
  BY DEF ASwitchDay, SwitchDay, DayOver, NoTracks
<1>2. PICK N : N = [instr |-> [i \in Instrs |->
                                 IF Flat(instr[i]) THEN ZeroMoney ELSE money.instr[i]],
                    prd |-> [p \in Prds |->
                               IF Flat(prd[p]) THEN ZeroMoney ELSE money.prd[p]],
                    acc |-> money.acc]
  OBVIOUS
<1>3. /\ \A i \in Instrs : N.instr[i]
           = IF Flat(instr[i]) THEN ZeroMoney ELSE money.instr[i]
      /\ \A p \in Prds : N.prd[p] = IF Flat(prd[p]) THEN ZeroMoney ELSE money.prd[p]
      /\ N.acc = money.acc
  BY <1>2
<1>4. Cleared(N, money, instr, prd)
  <2>1. N = [instr |-> [i \in Instrs |-> N.instr[i]],
             prd |-> [p \in Prds |-> N.prd[p]], acc |-> money.acc]
    BY <1>2, <1>3
  <2> QED
    BY <1>3, <2>1 DEF Cleared
<1>5. PICK S : S = [i \in Instrs |-> Pos(instr[i])]
  OBVIOUS
<1>6. S \in [Instrs -> PosType]
  BY <1>5, InstrsTyped, PosTyped DEF GoodVol
<1>7. ValuesOK(N, S)
  <2>1. NoneDangles(instr, prd)
    BY DEF NoDanglingProduct, NoneDangles
  <2> QED
    BY <1>4, <1>5, <2>1, ClearedKeeps DEF MoneyInv
<1>8. money' = NewDay(N)
  <2>1. MoneySwitchDay(ZeroMoney) = ZeroMoney
    BY DEF MoneySwitchDay, ZeroMoney, ZeroAmt
  <2>2. /\ \A i \in Instrs : MoneySwitchDay(N.instr[i])
             = IF Flat(instr[i]) THEN ZeroMoney ELSE MoneySwitchDay(money.instr[i])
        /\ \A p \in Prds : MoneySwitchDay(N.prd[p])
             = IF Flat(prd[p]) THEN ZeroMoney ELSE MoneySwitchDay(money.prd[p])
    BY <1>3, <2>1
  <2>3. money' =
          [instr |-> [i \in Instrs |-> IF Flat(instr[i]) THEN ZeroMoney
                                       ELSE MoneySwitchDay(money.instr[i])],
           prd |-> [p \in Prds |-> IF Flat(prd[p]) THEN ZeroMoney
                                   ELSE MoneySwitchDay(money.prd[p])],
           acc |-> MoneySwitchDay(money.acc)]
    BY DEF ASwitchDay
  <2> QED
    BY <1>3, <2>2, <2>3 DEF NewDay
<1>9. instr' = [i \in Instrs |-> CarriedOver(S[i])]
  <2>1. \A i \in Instrs : (IF Flat(instr[i]) THEN ZeroVol ELSE VolSwitchDay(instr[i]))
                            = CarriedOver(S[i])
    BY <1>5, FlatIsZero DEF VolSwitchDay
  <2>2. instr' = [i \in Instrs |-> IF Flat(instr[i]) THEN ZeroVol
                                   ELSE VolSwitchDay(instr[i])]
    BY <1>1 DEF SwitchDay, Becomes, Account
  <2> QED
    BY <2>1, <2>2
<1>10. BookOK(money', instr')
  BY <1>6, <1>7, <1>8, <1>9, NewDayKeeps
<1>11. ValuesOK(file', saved'.instr)
  BY <1>1, SavedMoney
<1>12. PricesOK'
  BY <1>1 DEF PricesOK
<1> QED
  BY <1>10, <1>11, <1>12 DEF MoneyInv

LEMMA CloseMoney ==
  ASSUME MoneyInv, NoDanglingProduct, AClose
  PROVE  MoneyInv'
<1>1. /\ Save /\ AmtSave /\ track' = <<>> /\ px' = <<>> /\ paid' = <<>>
      /\ money' = NoMoney /\ instr' = [i \in Instrs |-> ZeroVol]
  BY DEF AClose, Close, DayOver, NoTracks, Becomes, Account
<1>2. BookOK(money', instr')
  BY <1>1, NoBook
<1>3. ValuesOK(file', saved'.instr)
  BY <1>1, SavedMoney
<1>4. PricesOK'
  BY <1>1 DEF PricesOK
<1> QED
  BY <1>2, <1>3, <1>4 DEF MoneyInv

LEMMA StillMoney ==
  ASSUME MoneyInv, AListen \/ ADownOver \/ UNCHANGED avars
  PROVE  MoneyInv'
<1>1. money' = money /\ instr' = instr /\ file' = file /\ saved' = saved
  BY DEF AListen, Listen, ADownOver, DownOver, avars, amtVars, vars, memVars
<1>2. PricesOK'
  <2>1. CASE AListen \/ UNCHANGED avars
    <3>1. px' = px /\ paid' = paid /\ track' = track
      BY <2>1 DEF AListen, Listen, avars, amtVars, vars
    <3> QED
      BY <3>1 DEF MoneyInv, PricesOK
  <2>2. CASE ADownOver
    <3>1. px' = <<>> /\ paid' = <<>> /\ track' = <<>>
      BY <2>2 DEF ADownOver, DownOver, DayOver, NoTracks
    <3> QED
      BY <3>1 DEF PricesOK
  <2> QED
    BY <2>1, <2>2
<1> QED
  BY <1>1, <1>2 DEF MoneyInv

LEMMA InitMoney == AInit => MoneyInv
<1> SUFFICES ASSUME AInit PROVE MoneyInv
  OBVIOUS
<1>1. /\ money = NoMoney /\ instr = [i \in Instrs |-> ZeroVol] /\ file = NoMoney
      /\ saved.instr = [i \in Instrs |-> Pos(ZeroVol)]
      /\ px = <<>> /\ paid = <<>> /\ track = <<>>
  BY DEF AInit, Init
<1> QED
  BY <1>1, NoBook, NoMoneyOK DEF MoneyInv, PricesOK

LEMMA MoneyStep ==
  ASSUME Parts, MoneyInv, NoDanglingProduct, [ANext]_avars
  PROVE  MoneyInv'
<1>1. ASSUME NEW i \in Instrs, NEW dir \in Dirs, NEW off \in Offs, NEW p \in Prices,
             NEW v \in 1 .. MaxVol, ANewOrder(i, dir, off, p, v)
      PROVE  MoneyInv'
  BY <1>1, NewOrderMoney
<1>2. ASSUME NEW r \in DOMAIN track, NEW n \in 1 .. MaxVol, NEW t \in Prices,
             AOnRtnTrade(r, n, t)
      PROVE  MoneyInv'
  BY <1>2, OnRtnTradeMoney
<1>3. ASSUME NEW r \in DOMAIN track, AOnRtnClosed(r) \/ AMissed(r)
      PROVE  MoneyInv'
  BY <1>3, OnRtnClosedMoney, MissedMoney
<1>4. ASSUME NEW i \in Instrs, NEW p \in Prices, OnTickPx(i, p)
      PROVE  MoneyInv'
  BY <1>4, OnTickPxMoney
<1>5. CASE ACrash \/ AStart \/ AReplay
  BY <1>5, CrashMoney, StartMoney, ReplayMoney
<1>6. CASE ASwitchDay \/ AClose
  BY <1>6, SwitchDayMoney, CloseMoney
<1>7. CASE AListen \/ ADownOver \/ UNCHANGED avars
  BY <1>7, StillMoney
<1> QED
  BY <1>1, <1>2, <1>3, <1>4, <1>5, <1>6, <1>7 DEF ANext

-----------------------------------------------------------------------------
(* Every step of Amounts is a step of Account, or leaves it alone: what is *)
(* proved of the volumes holds here.                                       *)
LEMMA AStepIsStep == [ANext]_avars => [Next]_vars
<1> SUFFICES ASSUME [ANext]_avars PROVE [Next]_vars
  OBVIOUS
<1>1. ASSUME NEW i \in Instrs, NEW dir \in Dirs, NEW off \in Offs, NEW p \in Prices,
             NEW v \in 1 .. MaxVol, ANewOrder(i, dir, off, p, v)
      PROVE  Next
  BY <1>1 DEF ANewOrder, Next
<1>2. ASSUME NEW r \in DOMAIN track, NEW n \in 1 .. MaxVol, NEW t \in Prices,
             AOnRtnTrade(r, n, t)
      PROVE  Next
  BY <1>2 DEF AOnRtnTrade, Next
<1>3. ASSUME NEW r \in DOMAIN track, AOnRtnClosed(r) \/ AMissed(r)
      PROVE  Next
  BY <1>3 DEF AOnRtnClosed, AMissed, Next
<1>4. ASSUME NEW i \in Instrs, NEW p \in Prices, OnTickPx(i, p)
      PROVE  UNCHANGED vars
  BY <1>4 DEF OnTickPx
<1>5. CASE ACrash \/ AStart \/ AReplay \/ AListen \/ ASwitchDay \/ AClose \/ ADownOver
  BY <1>5 DEF ACrash, AStart, AReplay, AListen, ASwitchDay, AClose, ADownOver, Next
<1>6. CASE UNCHANGED avars
  BY <1>6 DEF avars
<1> QED
  BY <1>1, <1>2, <1>3, <1>4, <1>5, <1>6 DEF ANext

(* Spec is what the money leaves of ASpec: the theorems of AccountProofs   *)
(* are theorems of the account with its money (AccBase).                   *)
THEOREM AmountsKeepVolumes == ASpec => Spec
<1>1. AInit => Init
  BY DEF AInit
<1> QED
  BY <1>1, AStepIsStep, PTL DEF ASpec, Spec

LEMMA SumsExplained ==
  ASSUME MoneyInv, NEW m \in MoneyType, NEW T, IsFiniteSet(T), T \subseteq Instrs,
         NEW k \in Sorts, NEW s \in Sides, NEW off \in Offs,
         Sum(m, k, s, off) = SumFunctionOnSet(Values(money, k, s, off), T)
  PROVE  Sum(m, k, s, off)
           = SumFunctionOnSet([i \in T |-> Sum(money.instr[i], k, s, off)], T)
<1>1. PICK f, g : /\ f = Values(money, k, s, off)
                  /\ g = [i \in T |-> Sum(money.instr[i], k, s, off)]
  OBVIOUS
<1>2. \A i \in T : f[i] = g[i]
  BY <1>1 DEF Values
<1> QED
  BY <1>1, <1>2, SumSame

AddsUp(m, T) ==
  /\ \A s \in Sides :
       /\ m.side[s].amt
            = SumFunctionOnSet([i \in T |-> money.instr[i].side[s].amt], T)
       /\ \A off \in Offs : m.side[s].ing[off]
            = SumFunctionOnSet([i \in T |-> money.instr[i].side[s].ing[off]], T)
  /\ m.pos_pnl = SumFunctionOnSet([i \in T |-> money.instr[i].pos_pnl], T)
  /\ m.trd_pnl = SumFunctionOnSet([i \in T |-> money.instr[i].trd_pnl], T)

LEMMA ExplainedFromInv == MoneyInv => MoneyExplained
<1> SUFFICES ASSUME MoneyInv PROVE MoneyExplained
  OBVIOUS
<1>1. ValuesAtLastPrice /\ ProfitExplained
  BY DEF MoneyInv, BookOK, UnitOK, ValuesAtLastPrice, ProfitExplained
<1>2. /\ SumsOK(money) /\ money \in BookType /\ "Open" \in Offs /\ "long" \in Sides
      /\ "amt" \in Sorts /\ "ing" \in Sorts /\ "pos" \in Sorts /\ "trd" \in Sorts
  BY DEF MoneyInv, BookOK, Offs, Sides, Sorts
<1>3. ASSUME NEW m \in MoneyType, NEW T, IsFiniteSet(T), T \subseteq Instrs,
             \A k \in Sorts, s \in Sides, off \in Offs :
               Sum(m, k, s, off) = SumFunctionOnSet(Values(money, k, s, off), T)
      PROVE  AddsUp(m, T)
  <2>1. \A k \in Sorts, s \in Sides, off \in Offs : Sum(m, k, s, off)
          = SumFunctionOnSet([i \in T |-> Sum(money.instr[i], k, s, off)], T)
    BY <1>3, SumsExplained
  <2>2. \A s \in Sides : m.side[s].amt
          = SumFunctionOnSet([i \in T |-> money.instr[i].side[s].amt], T)
    <3> SUFFICES ASSUME NEW s \in Sides
                 PROVE  m.side[s].amt
                   = SumFunctionOnSet([i \in T |-> money.instr[i].side[s].amt], T)
      OBVIOUS
    <3>1. Sum(m, "amt", s, "Open")
            = SumFunctionOnSet([i \in T |-> Sum(money.instr[i], "amt", s, "Open")], T)
      BY <1>2, <2>1
    <3> QED
      BY <3>1 DEF Sum
  <2>3. \A s \in Sides, off \in Offs : m.side[s].ing[off]
          = SumFunctionOnSet([i \in T |-> money.instr[i].side[s].ing[off]], T)
    <3> SUFFICES ASSUME NEW s \in Sides, NEW off \in Offs
                 PROVE  m.side[s].ing[off]
                   = SumFunctionOnSet([i \in T |-> money.instr[i].side[s].ing[off]], T)
      OBVIOUS
    <3>1. Sum(m, "ing", s, off)
            = SumFunctionOnSet([i \in T |-> Sum(money.instr[i], "ing", s, off)], T)
      BY <1>2, <2>1
    <3> QED
      BY <3>1 DEF Sum
  <2>4. m.pos_pnl = SumFunctionOnSet([i \in T |-> money.instr[i].pos_pnl], T)
    <3>1. Sum(m, "pos", "long", "Open")
            = SumFunctionOnSet([i \in T |-> Sum(money.instr[i], "pos", "long", "Open")], T)
      BY <1>2, <2>1
    <3> QED
      BY <3>1 DEF Sum
  <2>5. m.trd_pnl = SumFunctionOnSet([i \in T |-> money.instr[i].trd_pnl], T)
    <3>1. Sum(m, "trd", "long", "Open")
            = SumFunctionOnSet([i \in T |-> Sum(money.instr[i], "trd", "long", "Open")], T)
      BY SMTT(30), <1>2, <2>1
    <3> QED
      BY <3>1 DEF Sum
  <2> QED
    BY <2>2, <2>3, <2>4, <2>5 DEF AddsUp
<1>4. SumsOfInstruments
  <2>1. ASSUME NEW p \in Prds
        PROVE  \A k \in Sorts, s \in Sides, off \in Offs : Sum(money.prd[p], k, s, off)
                 = SumFunctionOnSet(Values(money, k, s, off), OfProduct(p))
    BY <1>2 DEF SumsOK
  <2>2. \A k \in Sorts, s \in Sides, off \in Offs : Sum(money.acc, k, s, off)
          = SumFunctionOnSet(Values(money, k, s, off), Instrs)
    BY <1>2 DEF SumsOK
  <2>3. (\A p \in Prds : money.prd[p] \in MoneyType) /\ money.acc \in MoneyType
    BY <1>2, BookTyped
  <2>4. ASSUME NEW p \in Prds
        PROVE  AddsUp(money.prd[p], OfProduct(p))
    BY <1>3, <2>1, <2>3, OfProductFinite
  <2>5. AddsUp(money.acc, Instrs)
    BY <1>3, <2>2, <2>3, AccountAssumption
  <2> QED
    BY <2>4, <2>5 DEF SumsOfInstruments, OfProduct, AddsUp
<1> QED
  BY <1>1, <1>4 DEF MoneyExplained

(* The books of money are right in every reachable state, those that were  *)
(* saved too (AccBase::save and load, onSwitchDay, ModInstr).              *)
THEOREM MoneyInvHolds == ASpec => []MoneyInv
<1>1. Parts /\ ShareInv /\ DownIsEmpty => NoDanglingProduct
  BY NoDanglingFromShares
<1>2. Parts /\ MoneyInv /\ NoDanglingProduct /\ [ANext]_avars => MoneyInv'
  BY MoneyStep
<1>3. Spec => []NoDanglingProduct
  BY ProductsNeverDangle
<1>4. Spec => [](Parts /\ ShareInv)
  BY ShareInvHolds
<1> QED
  BY <1>2, <1>3, <1>4, InitMoney, AmountsKeepVolumes, PTL DEF ASpec

(* The value of every position is the position at the last price, profit   *)
(* is what value, cash and the settlement price explain, and product and   *)
(* account are the sums of their instruments (UnitAmt, UnitPnl, ModInstr). *)
THEOREM MoneyAlwaysExplained == ASpec => []MoneyExplained
BY ExplainedFromInv, MoneyInvHolds, PTL

-----------------------------------------------------------------------------
(***************************************************************************)
(* The amounts under way, in the account                                   *)
(***************************************************************************)
(* What order o freezes, of an amount a *)
Portion(o, a, s, off) == IF off = o.off /\ s = SideOf(o.dir, o.off) THEN a ELSE 0

Freezes(M, N, o, a) ==
  \A s \in Sides, off \in Offs :
    Sum(N.acc, "ing", s, off) = Sum(M.acc, "ing", s, off) + Portion(o, a, s, off)

(* The amount of v lots at price p *)
Price(p, v) == p * v * Mult

LEMMA PriceAdds ==
  ASSUME NEW p \in Int, NEW v \in Int, NEW w \in Int
  PROVE  /\ Price(p, v) + Price(p, w) = Price(p, v + w)
         /\ Price(p, v) \in Int /\ Price(p, 0) = 0
<1>1. PICK x : x = Mult
  OBVIOUS
<1>2. x \in Int
  BY <1>1, AmountsAssumption
<1>3. /\ p * v * x + p * w * x = p * (v + w) * x
      /\ p * v * x \in Int /\ p * 0 * x = 0
  BY <1>2
<1> QED
  BY <1>1, <1>3 DEF Price

LEMMA AccInt ==
  ASSUME NEW M \in BookType, NEW s \in Sides, NEW off \in Offs
  PROVE  Sum(M.acc, "ing", s, off) \in Int
BY BookTyped, SumTyped DEF Sorts

LEMMA NewFreezes ==
  ASSUME NEW M \in BookType, NEW o \in OrderType, NEW p \in Int, NEW v \in Int
  PROVE  AmtNew(M, o, p, v) \in BookType /\ Freezes(M, AmtNew(M, o, p, v), o, Price(p, v))
<1>1. PICK x, N : x = IngAdded(o, p * v * Mult) /\ N = AmtNew(M, o, p, v)
  OBVIOUS
<1>2. N \in BookType /\ AddsToAll(M, N, o.instr, x)
  BY <1>1, AmtNewMoves
<1>3. "ing" \in Sorts
  BY DEF Sorts
<1>4. \A s \in Sides, off \in Offs : x["ing"][s][off] = Portion(o, Price(p, v), s, off)
  BY <1>1, <1>3 DEF IngAdded, Portion, Price
<1> QED
  BY <1>1, <1>2, <1>3, <1>4 DEF AddsToAll, Adds, Freezes

LEMMA TickFreezes ==
  ASSUME NEW M \in BookType, NEW i \in Instrs, NEW u \in VolType, NEW p \in Int, NEW o
  PROVE  TickPx(M, i, u, p) \in BookType /\ Freezes(M, TickPx(M, i, u, p), o, 0)
<1>1. PICK x, N : /\ x = PxAdded(u, (p - M.instr[i].last) * Mult)
                  /\ N = TickPx(M, i, u, p)
  OBVIOUS
<1>2. N \in BookType /\ AddsToAll(M, N, i, x)
  BY <1>1, TickPxMoves
<1>3. "ing" \in Sorts
  BY DEF Sorts
<1>4. \A s \in Sides, off \in Offs : x["ing"][s][off] = Portion(o, 0, s, off)
  BY <1>1, <1>3 DEF PxAdded, Portion
<1> QED
  BY <1>1, <1>2, <1>3, <1>4 DEF AddsToAll, Adds, Freezes

LEMMA BoughtFreezes ==
  ASSUME NEW M \in BookType, NEW o \in OrderType, NEW d \in Int
  PROVE  Bought(M, o, d) \in BookType /\ Freezes(M, Bought(M, o, d), o, 0)
<1>1. PICK x, N : x = AmtAdded(o, d) /\ N = Bought(M, o, d)
  OBVIOUS
<1>2. N \in BookType /\ AddsToAll(M, N, o.instr, x)
  BY <1>1, BoughtMoves
<1>3. "ing" \in Sorts
  BY DEF Sorts
<1>4. \A s \in Sides, off \in Offs : x["ing"][s][off] = Portion(o, 0, s, off)
  BY <1>1, <1>3 DEF AmtAdded, Portion
<1> QED
  BY <1>1, <1>2, <1>3, <1>4 DEF AddsToAll, Adds, Freezes

LEMMA FreezesThen ==
  ASSUME NEW A \in BookType, NEW B, NEW C, NEW o, NEW a \in Int, NEW b \in Int,
         Freezes(A, B, o, a), Freezes(B, C, o, b)
  PROVE  Freezes(A, C, o, a + b)
<1> SUFFICES ASSUME NEW s \in Sides, NEW off \in Offs
             PROVE  Sum(C.acc, "ing", s, off)
                      = Sum(A.acc, "ing", s, off) + Portion(o, a + b, s, off)
  BY DEF Freezes
<1>1. PICK x, y, z : /\ x = Sum(A.acc, "ing", s, off) /\ y = Sum(B.acc, "ing", s, off)
                     /\ z = Sum(C.acc, "ing", s, off)
  OBVIOUS
<1>2. PICK own \in BOOLEAN : own <=> (off = o.off /\ s = SideOf(o.dir, o.off))
  OBVIOUS
<1>3. x \in Int
  BY <1>1, AccInt
<1>4. y = x + (IF own THEN a ELSE 0) /\ z = y + (IF own THEN b ELSE 0)
  BY <1>1, <1>2 DEF Freezes, Portion
<1>5. z = x + (IF own THEN a + b ELSE 0)
  BY <1>3, <1>4
<1> QED
  BY <1>1, <1>2, <1>5 DEF Portion

LEMMA TrdFreezes ==
  ASSUME NEW M \in BookType, NEW o \in OrderType, NEW p \in Int,
         NEW u \in VolType, NEW t \in Int, NEW v \in Int
  PROVE  /\ AmtTrd(M, o, p, u, t, v) \in BookType
         /\ Freezes(M, AmtTrd(M, o, p, u, t, v), o, Price(p, -v))
<1>1. PICK i, w, d, A, B, N :
        /\ i = o.instr /\ w = -v /\ d = t * v * Mult /\ A = TickPx(M, i, u, t)
        /\ B = AmtNew(A, o, p, w) /\ N = Bought(B, o, d)
  OBVIOUS
<1>2. i \in Instrs /\ w \in Int /\ d \in Int /\ Mult \in Int
  BY <1>1, MoreAtPrice, AmountsAssumption DEF OrderType
<1>3. N = AmtTrd(M, o, p, u, t, v)
  BY <1>1, AmtTrdIs DEF AmtCxl
<1>4. A \in BookType /\ Freezes(M, A, o, 0)
  BY <1>1, <1>2, TickFreezes
<1>5. B \in BookType /\ Freezes(A, B, o, Price(p, w))
  BY <1>1, <1>2, <1>4, NewFreezes
<1>6. N \in BookType /\ Freezes(B, N, o, 0)
  BY <1>1, <1>2, <1>5, BoughtFreezes
<1>7. PICK a : a = Price(p, w)
  OBVIOUS
<1>8. a \in Int /\ 0 + a \in Int /\ (0 + a) + 0 = a
  <2>1. a \in Int
    BY <1>2, <1>7, PriceAdds
  <2> QED
    BY <2>1
<1>9. Freezes(M, B, o, 0 + a)
  BY <1>4, <1>5, <1>7, <1>8, FreezesThen
<1>10. Freezes(M, N, o, (0 + a) + 0)
  BY <1>6, <1>8, <1>9, FreezesThen
<1> QED
  BY <1>1, <1>3, <1>6, <1>7, <1>8, <1>10

(* A replay freezes what the order has left. *)
LEMMA FreezesNot ==
  ASSUME NEW M \in BookType, NEW o
  PROVE  Freezes(M, M, o, 0)
BY AccInt DEF Freezes, Portion

LEMMA ReplayFreezes ==
  ASSUME NEW M \in BookType, NEW o \in OrderType, "TDSEND" \in o.st, NEW p \in Int,
         NEW u \in VolType, NEW amount \in Int
  PROVE  Freezes(M, AmtOrderTrack(M, o, p, u, amount), o,
                 Price(p, Taken(o) - Replayed(o)))
<1>1. /\ o.vol \in Int /\ o.traded \in Int /\ o.vol - o.traded \in Int /\ o.traded >= 0
      /\ -(o.vol - o.traded) \in Int /\ -o.traded \in Int
  BY AccountAssumption DEF OrderType
<1>2. PICK t, N, C, D :
        /\ t = (IF o.traded = 0 THEN 0 ELSE amount \div o.traded)
        /\ N = AmtNew(M, o, p, o.vol)
        /\ C = (IF "CLOSED" \in o.st /\ o.vol # o.traded
                THEN AmtCxl(N, o, p, o.vol - o.traded) ELSE N)
        /\ D = (IF "EXECUTION" \in o.st THEN AmtTrd(C, o, p, u, t, o.traded) ELSE C)
  OBVIOUS
<1>3. D = AmtOrderTrack(M, o, p, u, amount)
  BY <1>2 DEF AmtOrderTrack
<1>4. t \in Int
  <2>1. CASE o.traded = 0
    BY <1>2, <2>1
  <2>2. CASE o.traded # 0
    <3>1. PICK k : k = o.traded
      OBVIOUS
    <3>2. k \in Nat \ {0} /\ t = amount \div k
      BY <1>1, <1>2, <2>2, <3>1
    <3>3. amount \div k \in Int
      BY <3>2
    <3> QED
      BY <3>2, <3>3
  <2> QED
    BY <2>1, <2>2
<1>5. PICK x, y, z : /\ x = o.vol
                     /\ z = IF "EXECUTION" \in o.st THEN -o.traded ELSE 0
                     /\ y = IF "CLOSED" \in o.st /\ o.vol # o.traded
                            THEN -(o.vol - o.traded) ELSE 0
  OBVIOUS
<1>6. /\ x \in Int /\ y \in Int /\ z \in Int
      /\ (x + y) + z = Taken(o) - Replayed(o) /\ x + y \in Int
  <2>1. x \in Int /\ y \in Int /\ z \in Int
    BY <1>1, <1>5
  <2>2. x + y = Taken(o)
    BY <1>1, <1>5 DEF Taken
  <2>3. (x + y) + z = (x + y) - Replayed(o)
    BY <1>1, <1>5, <2>1 DEF Replayed
  <2> QED
    BY <2>1, <2>2, <2>3
<1>7. N \in BookType /\ Freezes(M, N, o, Price(p, x))
  BY <1>1, <1>2, <1>5, NewFreezes
<1>8. Price(p, 0) = 0
  <2>1. 0 \in Int
    OBVIOUS
  <2> QED
    BY <2>1, PriceAdds
<1>9. C \in BookType /\ Freezes(N, C, o, Price(p, y))
  <2>1. CASE "CLOSED" \in o.st /\ o.vol # o.traded
    <3>1. C = AmtNew(N, o, p, y) /\ y \in Int
      BY <1>1, <1>2, <1>5, <2>1 DEF AmtCxl
    <3> QED
      BY <1>7, <3>1, NewFreezes
  <2>2. CASE ~("CLOSED" \in o.st /\ o.vol # o.traded)
    BY <1>2, <1>5, <1>7, <1>8, <2>2, FreezesNot
  <2> QED
    BY <2>1, <2>2
<1>10. D \in BookType /\ Freezes(C, D, o, Price(p, z))
  <2>1. CASE "EXECUTION" \in o.st
    <3>1. D = AmtTrd(C, o, p, u, t, o.traded) /\ z = -o.traded
      BY <1>2, <1>5, <2>1
    <3> QED
      BY <1>1, <1>4, <1>9, <3>1, TrdFreezes
  <2>2. CASE "EXECUTION" \notin o.st
    <3>1. D = C /\ z = 0
      BY <1>2, <1>5, <2>2
    <3> QED
      BY <1>8, <1>9, <3>1, FreezesNot
  <2> QED
    BY <2>1, <2>2
<1>11. /\ Price(p, x) + Price(p, y) = Price(p, x + y)
       /\ Price(p, x + y) + Price(p, z) = Price(p, (x + y) + z)
       /\ Price(p, x) \in Int /\ Price(p, y) \in Int /\ Price(p, z) \in Int
       /\ Price(p, x + y) \in Int
  <2>1. Price(p, x) + Price(p, y) = Price(p, x + y) /\ Price(p, x) \in Int
    BY ZenonT(60), <1>6, PriceAdds
  <2>2. Price(p, y) \in Int /\ Price(p, z) \in Int
    BY <1>6, PriceAdds
  <2>3. PICK w : w = x + y
    OBVIOUS
  <2>4. Price(p, w) + Price(p, z) = Price(p, w + z) /\ Price(p, w) \in Int
    BY ZenonT(60), <1>6, <2>3, PriceAdds
  <2> QED
    BY <2>1, <2>2, <2>3, <2>4
<1>12. Freezes(M, C, o, Price(p, x + y))
  BY <1>7, <1>9, <1>11, FreezesThen
<1>13. Freezes(M, D, o, Price(p, (x + y) + z))
  BY <1>10, <1>11, <1>12, FreezesThen
<1> QED
  BY <1>3, <1>6, <1>13

(* The amounts under way of the first k orders *)
Worth(o, p, s, off) == Portion(o, Price(p, Left(o)), s, off)
Worths(tr, P, k, s, off) ==
  SumFunctionOnSet([r \in 1 .. k |-> Worth(tr[r], P[r], s, off)], 1 .. k)

UnderSays(M, tr, P, k) ==
  \A s \in Sides, off \in Offs : Sum(M.acc, "ing", s, off) = Worths(tr, P, k, s, off)

UnderOK == up # "down" /\ missed = 0 => UnderSays(money, track, px, Told)

LEMMA WorthInt ==
  ASSUME NEW o \in OrderType, NEW p \in Int, NEW s, NEW off
  PROVE  Left(o) \in Int /\ Worth(o, p, s, off) \in Int
<1>1. Left(o) \in Int
  <2>1. o.vol \in Int /\ o.traded \in Int
    BY AccountAssumption DEF OrderType
  <2> QED
    BY <2>1 DEF Left
<1>2. Price(p, Left(o)) \in Int
  BY <1>1, PriceAdds
<1> QED
  BY <1>1, <1>2 DEF Worth, Portion

LEMMA WorthsNone ==
  ASSUME NEW tr, NEW P, NEW s, NEW off
  PROVE  Worths(tr, P, 0, s, off) = 0
<1>1. 1 .. 0 = {}
  OBVIOUS
<1> QED
  BY <1>1, SumEmpty DEF Worths

LEMMA WorthsNext ==
  ASSUME NEW tr \in Seq(OrderType), NEW P \in Seq(Int), Len(P) = Len(tr),
         NEW k \in 0 .. Len(tr) - 1, NEW s, NEW off
  PROVE  Worths(tr, P, k + 1, s, off)
           = Worths(tr, P, k, s, off) + Worth(tr[k + 1], P[k + 1], s, off)
<1>1. PICK R, Q : R = 1 .. k /\ Q = 1 .. k + 1
  OBVIOUS
<1>2. PICK f, g : /\ f = [r \in R |-> Worth(tr[r], P[r], s, off)]
                  /\ g = [r \in Q |-> Worth(tr[r], P[r], s, off)]
  OBVIOUS
<1>3. IsFiniteSet(R) /\ k \in Nat /\ R \subseteq Q /\ k + 1 \in Q
  BY <1>1, FS_Interval
<1>4. ASSUME NEW r \in Q
      PROVE  g[r] \in Int
  <2>1. tr[r] \in OrderType /\ P[r] \in Int
    BY <1>1
  <2> QED
    BY <1>2, <2>1, WorthInt
<1>5. SumFunctionOnSet(g, 1 .. k + 1) = SumFunctionOnSet(g, 1 .. k) + g[k + 1]
  BY <1>1, <1>3, <1>4, SumLast
<1>6. \A r \in R : f[r] = g[r]
  BY <1>2, <1>3
<1>7. SumFunctionOnSet(f, R) = SumFunctionOnSet(g, R)
  BY <1>3, <1>6, SumSame
<1>8. g[k + 1] = Worth(tr[k + 1], P[k + 1], s, off)
  BY <1>2, <1>3
<1>9. /\ Worths(tr, P, k + 1, s, off) = SumFunctionOnSet(g, Q)
      /\ Worths(tr, P, k, s, off) = SumFunctionOnSet(f, R)
  BY <1>1, <1>2 DEF Worths
<1> QED
  BY <1>1, <1>5, <1>7, <1>8, <1>9

LEMMA WorthsChange ==
  ASSUME NEW tr \in Seq(OrderType), NEW P \in Seq(Int), Len(P) = Len(tr),
         NEW r \in 1 .. Len(tr), NEW o \in OrderType,
         NEW tr2, Changed(tr2, tr, r, o), NEW s, NEW off
  PROVE  Worths(tr2, P, Len(tr), s, off)
           = Worths(tr, P, Len(tr), s, off) - Worth(tr[r], P[r], s, off)
               + Worth(o, P[r], s, off)
<1>1. PICK R : R = 1 .. Len(tr)
  OBVIOUS
<1>2. PICK f, g : /\ f = [q \in R |-> Worth(tr[q], P[q], s, off)]
                  /\ g = [q \in R |-> Worth(tr2[q], P[q], s, off)]
  OBVIOUS
<1>3. IsFiniteSet(R) /\ r \in R
  BY <1>1, FS_Interval
<1>4. \A q \in R : tr[q] \in OrderType /\ P[q] \in Int
  BY <1>1
<1>5. tr2[r] = o /\ \A q \in R : q # r => tr2[q] = tr[q]
  BY <1>1, <1>3 DEF Changed
<1>6. \A q \in R : f[q] \in Int
  BY <1>2, <1>4, WorthInt
<1>7. g[r] = Worth(o, P[r], s, off) /\ f[r] = Worth(tr[r], P[r], s, off)
      /\ \A q \in R : q # r => g[q] = f[q]
  BY <1>2, <1>3, <1>5
<1>8. g[r] \in Int
  BY <1>3, <1>4, <1>7, WorthInt
<1>9. SumFunctionOnSet(g, R) = SumFunctionOnSet(f, R) - f[r] + g[r]
  BY ZenonT(60), <1>3, <1>6, <1>7, <1>8, SumChange
<1> QED
  BY <1>1, <1>2, <1>7, <1>9 DEF Worths

LEMMA WorthsInt ==
  ASSUME NEW tr \in Seq(OrderType), NEW P \in Seq(Int), Len(P) = Len(tr),
         NEW k \in 0 .. Len(tr), NEW s, NEW off
  PROVE  Worths(tr, P, k, s, off) \in Int
<1>1. PICK R : R = 1 .. k
  OBVIOUS
<1>2. PICK g : g = [r \in R |-> Worth(tr[r], P[r], s, off)]
  OBVIOUS
<1>3. IsFiniteSet(R)
  BY <1>1, FS_Interval
<1>4. ASSUME NEW r \in R
      PROVE  g[r] \in Int
  <2>1. tr[r] \in OrderType /\ P[r] \in Int
    BY <1>1
  <2> QED
    BY <1>2, <2>1, WorthInt
<1>5. SumFunctionOnSet(g, R) \in Int
  BY <1>3, <1>4, SumType
<1> QED
  BY <1>1, <1>2, <1>5 DEF Worths

(* An order that has v lots more, or less, left than it had, of which v    *)
(* were frozen *)
MoreLeft(q, o, v) == q.dir = o.dir /\ q.off = o.off /\ Left(q) = Left(o) + v

LEMMA MoreWorth ==
  ASSUME NEW o \in OrderType, NEW q \in OrderType, NEW p \in Int, NEW v \in Int,
         MoreLeft(q, o, v), NEW s, NEW off
  PROVE  Worth(q, p, s, off) = Worth(o, p, s, off) + Portion(o, Price(p, v), s, off)
<1>1. PICK x, y : x = Left(o) /\ y = Left(q)
  OBVIOUS
<1>2. x \in Int /\ y = x + v
  BY <1>1, WorthInt DEF MoreLeft
<1>3. Price(p, x) + Price(p, v) = Price(p, y) /\ Price(p, x) \in Int
  BY ZenonT(60), <1>2, PriceAdds
<1>4. PICK a, b, c : a = Price(p, x) /\ b = Price(p, v) /\ c = Price(p, y)
  OBVIOUS
<1>5. PICK own \in BOOLEAN : own <=> (off = o.off /\ s = SideOf(o.dir, o.off))
  OBVIOUS
<1>6. own <=> (off = q.off /\ s = SideOf(q.dir, q.off))
  BY <1>5 DEF MoreLeft
<1>7. /\ Worth(o, p, s, off) = IF own THEN a ELSE 0
      /\ Worth(q, p, s, off) = IF own THEN c ELSE 0
      /\ Portion(o, Price(p, v), s, off) = IF own THEN b ELSE 0
  BY <1>1, <1>4, <1>5, <1>6 DEF Worth, Portion
<1> QED
  BY <1>3, <1>4, <1>7

LEMMA UnderChanges ==
  ASSUME NEW tr \in Seq(OrderType), NEW P \in Seq(Int), Len(P) = Len(tr),
         NEW r \in 1 .. Len(tr), NEW q \in OrderType,
         NEW tr2, Changed(tr2, tr, r, q), NEW v \in Int, MoreLeft(q, tr[r], v),
         NEW M, NEW N, Freezes(M, N, tr[r], Price(P[r], v)),
         UnderSays(M, tr, P, Len(tr))
  PROVE  UnderSays(N, tr2, P, Len(tr))
<1> SUFFICES ASSUME NEW s \in Sides, NEW off \in Offs
             PROVE  Sum(N.acc, "ing", s, off) = Worths(tr2, P, Len(tr), s, off)
  BY DEF UnderSays
<1>1. PICK o, p : o = tr[r] /\ p = P[r]
  OBVIOUS
<1>2. o \in OrderType /\ p \in Int
  BY <1>1
<1>3. PICK w, w2, a, b, c : /\ w = Worths(tr, P, Len(tr), s, off)
                            /\ w2 = Worths(tr2, P, Len(tr), s, off)
                            /\ a = Worth(o, p, s, off) /\ b = Worth(q, p, s, off)
                            /\ c = Portion(o, Price(p, v), s, off)
  OBVIOUS
<1>4. w2 = w - a + b
  BY <1>1, <1>3, WorthsChange
<1>5. a \in Int /\ w \in Int /\ c \in Int
  <2>1. a \in Int
    BY <1>2, <1>3, WorthInt
  <2>2. w \in Int
    <3>1. Len(tr) \in 0 .. Len(tr)
      OBVIOUS
    <3> QED
      BY <1>3, <3>1, WorthsInt
  <2>3. c \in Int
    <3>1. Price(p, v) \in Int
      BY <1>2, PriceAdds
    <3> QED
      BY <1>3, <3>1 DEF Portion
  <2> QED
    BY <2>1, <2>2, <2>3
<1>6. b = a + c
  BY <1>1, <1>2, <1>3, MoreWorth
<1>7. Sum(N.acc, "ing", s, off) = w + c
  BY <1>1, <1>3 DEF Freezes, UnderSays
<1> QED
  BY <1>3, <1>4, <1>5, <1>6, <1>7

LEMMA UnderGrows ==
  ASSUME NEW tr \in Seq(OrderType), NEW P \in Seq(Int), Len(P) = Len(tr),
         NEW k \in 0 .. Len(tr) - 1, NEW o, o = tr[k + 1], NEW p, p = P[k + 1],
         NEW M, NEW N, Freezes(M, N, o, Price(p, Left(o))), UnderSays(M, tr, P, k)
  PROVE  UnderSays(N, tr, P, k + 1)
<1> SUFFICES ASSUME NEW s \in Sides, NEW off \in Offs
             PROVE  Sum(N.acc, "ing", s, off) = Worths(tr, P, k + 1, s, off)
  BY DEF UnderSays
<1>1. Worths(tr, P, k + 1, s, off) = Worths(tr, P, k, s, off) + Worth(o, p, s, off)
  BY WorthsNext
<1> QED
  BY <1>1 DEF Freezes, UnderSays, Worth

LEMMA UnderNone ==
  ASSUME NEW M, \A s \in Sides, off \in Offs : Sum(M.acc, "ing", s, off) = 0,
         NEW tr, NEW P
  PROVE  UnderSays(M, tr, P, 0)
BY WorthsNone DEF UnderSays

(* What is said of the first k orders is said of any tracks that begin     *)
(* with them. *)
LEMMA UnderSame ==
  ASSUME NEW M, NEW tr, NEW P, NEW tr2, NEW P2, NEW k, UnderSays(M, tr, P, k),
         \A r \in 1 .. k : tr2[r] = tr[r] /\ P2[r] = P[r]
  PROVE  UnderSays(M, tr2, P2, k)
<1>1. ASSUME NEW s, NEW off
      PROVE  Worths(tr2, P2, k, s, off) = Worths(tr, P, k, s, off)
  <2>1. [r \in 1 .. k |-> Worth(tr2[r], P2[r], s, off)]
          = [r \in 1 .. k |-> Worth(tr[r], P[r], s, off)]
    OBVIOUS
  <2> QED
    BY <2>1 DEF Worths
<1> QED
  BY <1>1 DEF UnderSays

LEMMA UnderTyped ==
  ASSUME Parts, MoneyInv
  PROVE  /\ track \in Seq(OrderType) /\ px \in Seq(Int) /\ Len(px) = Len(track)
         /\ money \in BookType
BY DEF Parts, OrdersOK, MoneyInv, PricesOK, BookOK, SumsOK

LEMMA NewOrderUnder ==
  ASSUME Parts, MoneyInv, UnderOK, NEW i \in Instrs, NEW dir \in Dirs, NEW off \in Offs,
         NEW p \in Prices, NEW v \in 1 .. MaxVol, ANewOrder(i, dir, off, p, v)
  PROVE  UnderOK'
<1>1. PICK o : o = [instr |-> i, dir |-> dir, off |-> off, vol |-> v,
                    traded |-> 0, st |-> {"TDSEND"}]
  OBVIOUS
<1>2. /\ track' = Append(track, o) /\ px' = Append(px, p) /\ up = "up" /\ up' = up
      /\ money' = AmtNew(money, track'[Len(track')], p, v) /\ missed' = missed
  BY <1>1 DEF ANewOrder, NewOrder
<1>3. /\ o \in OrderType /\ v \in Int /\ p \in Int
      /\ track \in Seq(OrderType) /\ px \in Seq(Int) /\ Len(px) = Len(track)
      /\ money \in BookType
  BY <1>1, AccountAssumption, PriceType, UnderTyped DEF OrderType
<1>4. PICK tr, P, k : tr = Append(track, o) /\ P = Append(px, p) /\ k = Len(track)
  OBVIOUS
<1>5. /\ tr \in Seq(OrderType) /\ P \in Seq(Int) /\ Len(tr) = k + 1 /\ Len(P) = k + 1
      /\ k \in 0 .. Len(tr) - 1 /\ tr[k + 1] = o /\ P[k + 1] = p
      /\ \A r \in 1 .. k : tr[r] = track[r] /\ P[r] = px[r]
  BY <1>3, <1>4
<1>6. Left(o) = v
  BY <1>1, <1>3 DEF Left
<1>7. Freezes(money, AmtNew(money, o, p, v), o, Price(p, Left(o)))
  BY <1>3, <1>6, NewFreezes
<1>8. SUFFICES ASSUME missed = 0 PROVE UnderOK'
  BY <1>2 DEF UnderOK
<1>9. UnderSays(money, track, px, k)
  BY <1>2, <1>4, <1>8 DEF UnderOK, Told
<1>10. UnderSays(money, tr, P, k)
  BY <1>5, <1>9, UnderSame
<1>11. UnderSays(AmtNew(money, o, p, v), tr, P, k + 1)
  BY <1>5, <1>7, <1>10, UnderGrows
<1>12. money' = AmtNew(money, o, p, v) /\ track' = tr /\ px' = P /\ Told' = k + 1
  BY <1>2, <1>4, <1>5 DEF Told
<1> QED
  BY <1>11, <1>12 DEF UnderOK

LEMMA OnRtnTradeUnder ==
  ASSUME Parts, SharesOK, MoneyInv, UnderOK, NEW r \in DOMAIN track,
         NEW n \in 1 .. MaxVol, NEW t \in Prices, AOnRtnTrade(r, n, t)
  PROVE  UnderOK'
<1>1. PICK o, total, w : o = track[r] /\ total = o.traded + n /\ w = -n
  OBVIOUS
<1>2. PICK s2 : s2 = o.st \cup {"EXECUTION"} \cup
                       (IF total >= o.vol THEN {"CLOSED"} ELSE {})
  OBVIOUS
<1>3. PICK q : q = [o EXCEPT !.traded = total, !.st = s2]
  OBVIOUS
<1>4. /\ up = "up" /\ up' = up /\ missed' = missed /\ px' = px
      /\ front[r].open /\ track' = [track EXCEPT ![r] = q]
      /\ money' = AmtTrd(money, o, px[r], instr[o.instr], t, n)
  <2>1. /\ OnRtnTrade(r, n) /\ px' = px
        /\ money' = AmtTrd(money, o, px[r], instr[o.instr], t, n)
    BY <1>1 DEF AOnRtnTrade
  <2>2. up = "up" /\ up' = up /\ missed' = missed /\ FrontTrades(r, n)
    BY <2>1 DEF OnRtnTrade
  <2>3. front[r].open
    BY <2>2 DEF FrontTrades
  <2>4. track' = [track EXCEPT ![r] = q]
    <3>1. track' = [track EXCEPT ![r] =
                      [track[r] EXCEPT !.traded = track[r].traded + n,
                         !.st = @ \cup {"EXECUTION"} \cup
                           (IF track[r].traded + n >= track[r].vol
                            THEN {"CLOSED"} ELSE {})]]
      BY <2>1 DEF OnRtnTrade
    <3>2. o \in OrderType
      BY <1>1, InstrsTyped
    <3>3. q = [o EXCEPT !.traded = total, !.st = @ \cup {"EXECUTION"} \cup
                          (IF total >= o.vol THEN {"CLOSED"} ELSE {})]
      BY <1>2, <1>3, <3>2 DEF OrderType
    <3> QED
      BY <1>1, <3>1, <3>3
  <2> QED
    BY <2>1, <2>2, <2>3, <2>4
<1>5. /\ r \in 1 .. Len(track) /\ o \in OrderType /\ o.traded = front[r].traded
      /\ (missed = 0 => Exact(o, front[r])) /\ instr[o.instr] \in VolType
      /\ track \in Seq(OrderType) /\ px \in Seq(Int) /\ Len(px) = Len(track)
      /\ money \in BookType
  <2>1. r \in 1 .. Len(track) /\ o \in OrderType /\ o.traded = front[r].traded
        /\ (missed = 0 => Exact(o, front[r]))
    BY <1>1, <1>4, OrderFacts
  <2>2. instr[o.instr] \in VolType
    BY <2>1, InstrsTyped DEF OrderType
  <2> QED
    BY <2>1, <2>2, UnderTyped
<1>6. /\ n \in Int /\ w \in Int /\ t \in Int /\ px[r] \in Int
      /\ o.vol \in Int /\ o.traded \in Int /\ total \in Int
  <2>1. n \in Int /\ t \in Int
    BY AccountAssumption, PriceType
  <2>2. px[r] \in Int
    BY <1>5
  <2>3. o.vol \in Int /\ o.traded \in Int
    BY SMTT(30), <1>5, AccountAssumption DEF OrderType
  <2> QED
    BY <1>1, <2>1, <2>2, <2>3
<1>7. q \in OrderType
  <2>1. Parts'
    BY OnRtnTradeStep DEF AOnRtnTrade
  <2>2. track' \in Seq(OrderType) /\ r \in 1 .. Len(track') /\ track'[r] = q
    BY <1>4, <1>5, <2>1 DEF Parts, OrdersOK
  <2> QED
    BY <2>2
<1>8. SUFFICES ASSUME missed = 0 PROVE UnderOK'
  BY <1>4 DEF UnderOK
<1>9. MoreLeft(q, o, w)
  <2>1. q.dir = o.dir /\ q.off = o.off /\ q.vol = o.vol /\ q.traded = total /\ q.st = s2
    BY <1>3, <1>5 DEF OrderType
  <2>2. "CANCELED" \notin o.st
    BY <1>4, <1>5, <1>8 DEF Exact
  <2>3. "CANCELED" \notin s2
    BY <1>2, <2>2
  <2>4. Left(o) = o.vol - o.traded /\ Left(q) = o.vol - total
    BY <2>1, <2>2, <2>3 DEF Left
  <2>5. o.vol - total = (o.vol - o.traded) + w
    BY <1>1, <1>6
  <2> QED
    BY <2>1, <2>4, <2>5 DEF MoreLeft
<1>10. Freezes(money, money', o, Price(px[r], w))
  BY <1>1, <1>4, <1>5, <1>6, TrdFreezes
<1>11. UnderSays(money, track, px, Len(track))
  BY <1>4, <1>8 DEF UnderOK, Told
<1>12. Changed(track', track, r, q)
  BY <1>4 DEF Changed
<1>13. UnderSays(money', track', px, Len(track))
  <2>1. PICK N, tr2 : N = money' /\ tr2 = track'
    OBVIOUS
  <2>2. UnderSays(N, tr2, px, Len(track))
    BY <1>1, <1>5, <1>6, <1>7, <1>9, <1>10, <1>11, <1>12, <2>1, UnderChanges
  <2> QED
    BY <2>1, <2>2
<1>14. Told' = Len(track) /\ px' = px
  BY <1>4, <1>5 DEF Told
<1> QED
  BY <1>13, <1>14 DEF UnderOK

LEMMA OnRtnClosedUnder ==
  ASSUME Parts, SharesOK, MoneyInv, UnderOK, NEW r \in DOMAIN track, AOnRtnClosed(r)
  PROVE  UnderOK'
<1>1. PICK o, v, w : o = track[r] /\ v = track[r].vol - front[r].traded /\ w = -v
  OBVIOUS
<1>2. PICK q : q = [o EXCEPT !.st = @ \cup {"CANCELED", "CLOSED"}]
  OBVIOUS
<1>3. /\ up = "up" /\ up' = up /\ missed' = missed /\ px' = px
      /\ front[r].open /\ track' = [track EXCEPT ![r].st = @ \cup {"CANCELED", "CLOSED"}]
      /\ money' = AmtNew(money, o, px[r], w)
  BY <1>1 DEF AOnRtnClosed, OnRtnClosed, FrontCancels, AmtCxl
<1>4. /\ r \in 1 .. Len(track) /\ o \in OrderType /\ o.traded = front[r].traded
      /\ (missed = 0 => Exact(o, front[r]))
      /\ track \in Seq(OrderType) /\ px \in Seq(Int) /\ Len(px) = Len(track)
      /\ money \in BookType
  BY <1>1, <1>3, OrderFacts, UnderTyped
<1>5. /\ o.vol \in Int /\ o.traded \in Int /\ v = o.vol - o.traded
      /\ v \in Int /\ w \in Int /\ v + w = 0 /\ px[r] \in Int
  <2>1. o.vol \in Int /\ o.traded \in Int /\ v = o.vol - o.traded /\ px[r] \in Int
    BY SMTT(30), <1>1, <1>4, AccountAssumption DEF OrderType
  <2> QED
    BY <1>1, <2>1
<1>6. track' = [track EXCEPT ![r] = q] /\ q \in OrderType
  <2>1. track' = [track EXCEPT ![r] = q]
    BY <1>1, <1>2, <1>3, <1>4
  <2>2. Parts'
    BY OnRtnClosedStep DEF AOnRtnClosed
  <2>3. track' \in Seq(OrderType) /\ r \in 1 .. Len(track') /\ track'[r] = q
    BY <1>4, <2>1, <2>2 DEF Parts, OrdersOK
  <2> QED
    BY <2>1, <2>3
<1>7. SUFFICES ASSUME missed = 0 PROVE UnderOK'
  BY <1>3 DEF UnderOK
<1>8. MoreLeft(q, o, w)
  <2>1. q.dir = o.dir /\ q.off = o.off /\ "CANCELED" \in q.st
    BY <1>2, <1>4 DEF OrderType
  <2>2. "CANCELED" \notin o.st
    BY <1>3, <1>4, <1>7 DEF Exact
  <2>3. Left(o) = v /\ Left(q) = 0
    BY <1>5, <2>1, <2>2 DEF Left
  <2> QED
    BY <1>5, <2>1, <2>3 DEF MoreLeft
<1>9. Freezes(money, money', o, Price(px[r], w))
  BY <1>1, <1>3, <1>4, <1>5, NewFreezes
<1>10. UnderSays(money, track, px, Len(track))
  BY <1>3, <1>7 DEF UnderOK, Told
<1>11. Changed(track', track, r, q)
  BY <1>6 DEF Changed
<1>12. UnderSays(money', track', px, Len(track))
  <2>1. PICK N, tr2 : N = money' /\ tr2 = track'
    OBVIOUS
  <2>2. UnderSays(N, tr2, px, Len(track))
    BY <1>1, <1>4, <1>5, <1>6, <1>8, <1>9, <1>10, <1>11, <2>1, UnderChanges
  <2> QED
    BY <2>1, <2>2
<1>13. Told' = Len(track) /\ px' = px
  BY <1>3, <1>4, <1>6 DEF Told
<1> QED
  BY <1>12, <1>13 DEF UnderOK

(* A replay freezes what is left of the order. *)
LEMMA ReplayedIsLeft ==
  ASSUME NEW o \in OrderType, NEW f \in FrontType, Fits(o, f), Exact(o, f)
  PROVE  Left(o) = Taken(o) - Replayed(o)
<1>1. PICK x, z : x = o.traded /\ z = o.vol
  OBVIOUS
<1>2. x \in Int /\ z \in Int /\ x <= z /\ f.traded = x /\ x >= 0
  BY <1>1, AccountAssumption DEF OrderType, FrontType, Fits, Exact
<1>3. PICK c, d, e \in BOOLEAN : /\ c <=> "CANCELED" \in o.st
                                 /\ d <=> "CLOSED" \in o.st
                                 /\ e <=> "EXECUTION" \in o.st
  OBVIOUS
<1>4. (e <=> x > 0) /\ (d <=> ~f.open) /\ (c <=> ~f.open /\ x < z) /\ (f.open => x < z)
  BY <1>1, <1>2, <1>3 DEF Exact, Fits
<1>5. /\ Left(o) = IF c THEN 0 ELSE z - x
      /\ Taken(o) = IF d THEN x ELSE z
      /\ Replayed(o) = IF e THEN x ELSE 0
  BY <1>1, <1>3 DEF Left, Taken, Replayed
<1>6. (d => c \/ x = z) /\ (c => d) /\ (~e => x = 0)
  BY <1>2, <1>4
<1> QED
  BY <1>2, <1>5, <1>6

LEMMA ReplayUnder ==
  ASSUME Parts, SharesOK, MoneyInv, UnderOK, AReplay
  PROVE  UnderOK'
<1>1. PICK o, f, p, k : o = track[next] /\ f = front[next] /\ p = px[next] /\ k = next - 1
  OBVIOUS
<1>2. PICK u, amount : u = instr[o.instr] /\ amount = paid[next]
  OBVIOUS
<1>3. /\ up = "replay" /\ up' = up /\ missed' = missed /\ track' = track /\ px' = px
      /\ money' = AmtOrderTrack(money, o, p, u, amount)
      /\ next <= Len(track) /\ next' = next + 1
  BY <1>1, <1>2 DEF AReplay, Replay
<1>4. /\ track \in Seq(OrderType) /\ px \in Seq(Int) /\ Len(px) = Len(track)
      /\ money \in BookType
  BY UnderTyped
<1>5. /\ next \in 1 .. Len(track) /\ next = k + 1 /\ k \in 0 .. Len(track) - 1
  BY <1>1, <1>3, <1>4 DEF Parts, RestOK
<1>6. next \in DOMAIN track
  BY <1>4, <1>5
<1>7. /\ o \in OrderType /\ f \in FrontType /\ Fits(o, f) /\ (missed = 0 => Exact(o, f))
  BY <1>1, <1>3, <1>6, OrderFacts
<1>8. p \in Int /\ amount \in Int /\ u \in VolType /\ "TDSEND" \in o.st
  <2>1. p \in Int /\ amount \in Int
    BY <1>1, <1>2, <1>5 DEF MoneyInv, PricesOK
  <2>2. u \in VolType
    BY <1>2, <1>7, InstrsTyped DEF OrderType
  <2> QED
    BY <1>7, <2>1, <2>2 DEF Fits
<1>9. SUFFICES ASSUME missed = 0 PROVE UnderOK'
  BY <1>3 DEF UnderOK
<1>10. Left(o) = Taken(o) - Replayed(o)
  BY <1>7, <1>9, ReplayedIsLeft
<1>11. Freezes(money, money', o, Price(p, Left(o)))
  BY <1>3, <1>4, <1>7, <1>8, <1>10, ReplayFreezes
<1>12. UnderSays(money, track, px, k)
  BY <1>1, <1>3, <1>9 DEF UnderOK, Told
<1>13. UnderSays(money', track, px, k + 1)
  <2>1. PICK N : N = money'
    OBVIOUS
  <2>2. o = track[k + 1] /\ p = px[k + 1]
    BY <1>1, <1>5
  <2>3. UnderSays(N, track, px, k + 1)
    BY <1>4, <1>5, <1>11, <1>12, <2>1, <2>2, UnderGrows
  <2> QED
    BY <2>1, <2>3
<1>14. Told' = k + 1
  <2>1. next' - 1 = k + 1
    BY <1>3, <1>5
  <2> QED
    BY <1>3, <2>1 DEF Told
<1> QED
  BY <1>3, <1>13, <1>14 DEF UnderOK

(* The money that no order has touched yet *)
LEMMA NothingUnder ==
  ASSUME NEW F \in BookType
  PROVE  /\ UnderSays(NewDay(F), track', px', 0)
         /\ UnderSays(NewDay(F), <<>>, <<>>, 0)
<1>1. NewDay(F).acc = MoneySwitchDay(F.acc) /\ F.acc \in MoneyType
  BY BookTyped DEF NewDay
<1>2. "ing" \in Sorts /\ "ing" # "amt"
  BY DEF Sorts
<1>3. \A s \in Sides, off \in Offs : Sum(NewDay(F).acc, "ing", s, off) = 0
  BY <1>1, <1>2, NewDayTyped
<1>4. PICK tr, P : tr = track' /\ P = px'
  OBVIOUS
<1>5. UnderSays(NewDay(F), tr, P, 0)
  BY <1>3, UnderNone
<1>6. UnderSays(NewDay(F), <<>>, <<>>, 0)
  BY <1>3, UnderNone
<1> QED
  BY <1>4, <1>5, <1>6

LEMMA StartUnder ==
  ASSUME MoneyInv, AStart
  PROVE  UnderOK'
<1>1. money' = NewDay(file) /\ next' = 1 /\ up' = "replay" /\ px' = px
  BY DEF AStart, Start, AmtLoaded, NewDay, MoneyFromJson
<1>2. Told' = 0
  BY <1>1 DEF Told
<1>3. UnderSays(NewDay(file), track', px', 0)
  BY NothingUnder DEF MoneyInv, ValuesOK
<1> QED
  BY <1>1, <1>2, <1>3 DEF UnderOK

LEMMA SwitchDayUnder ==
  ASSUME Parts, MoneyInv, ASwitchDay
  PROVE  UnderOK'
<1>1. /\ money'.acc = MoneySwitchDay(money.acc)
      /\ track' = <<>> /\ px' = <<>> /\ up' = "up" /\ up = "up"
  <2>1. up' = "up" /\ track' = <<>> /\ px' = <<>> /\ up = "up"
    BY DEF ASwitchDay, SwitchDay, DayOver, NoTracks
  <2>2. money'.acc = MoneySwitchDay(money.acc)
    BY DEF ASwitchDay
  <2> QED
    BY <2>1, <2>2
<1>2. Told' = 0
  BY <1>1 DEF Told
<1>3. money.acc \in MoneyType
  BY BookTyped DEF MoneyInv, BookOK
<1>4. "ing" \in Sorts /\ "ing" # "amt"
  BY DEF Sorts
<1>5. \A s \in Sides, off \in Offs : Sum(money'.acc, "ing", s, off) = 0
  BY <1>1, <1>3, <1>4, NewDayTyped
<1>6. UnderSays(money', <<>>, <<>>, 0)
  <2>1. PICK N : N = money'
    OBVIOUS
  <2>2. UnderSays(N, <<>>, <<>>, 0)
    BY <1>5, <2>1, UnderNone
  <2> QED
    BY <2>1, <2>2
<1> QED
  BY <1>1, <1>2, <1>6 DEF UnderOK

LEMMA OnTickPxUnder ==
  ASSUME Parts, SharesOK, MoneyInv, UnderOK, NEW i \in Instrs, NEW p \in Prices,
         OnTickPx(i, p)
  PROVE  UnderOK'
<1>1. /\ money' = TickPx(money, i, instr[i], p) /\ track' = track /\ px' = px
      /\ up' = up /\ up = "up" /\ missed' = missed /\ next' = next
  BY DEF OnTickPx, vars
<1>2. instr[i] \in VolType /\ p \in Int /\ money \in BookType
  BY InstrsTyped, PriceType, UnderTyped
<1>3. PICK o : o = [dir |-> "Buy", off |-> "Open"]
  OBVIOUS
<1>4. Freezes(money, money', o, 0)
  BY <1>1, <1>2, TickFreezes
<1>5. \A s \in Sides, off \in Offs :
        Sum(money'.acc, "ing", s, off) = Sum(money.acc, "ing", s, off)
  <2>1. \A s \in Sides, off \in Offs : Sum(money.acc, "ing", s, off) \in Int
    BY <1>2, AccInt
  <2>2. \A s, off : Portion(o, 0, s, off) = 0
    BY DEF Portion
  <2> QED
    BY <1>4, <2>1, <2>2 DEF Freezes
<1>6. Told' = Told
  BY <1>1 DEF Told
<1> QED
  BY <1>1, <1>5, <1>6 DEF UnderOK, UnderSays

LEMMA StillUnder ==
  ASSUME Parts, SharesOK, UnderOK, AListen \/ UNCHANGED avars
  PROVE  UnderOK'
<1>1. CASE AListen
  <2>1. /\ up = "replay" /\ up' = "up" /\ next > Len(track) /\ track' = track
        /\ px' = px /\ money' = money /\ missed' = missed
    BY <1>1 DEF AListen, Listen, amtVars
  <2>2. Told = Len(track)
    <3>1. next - 1 \in 0 .. Len(track) /\ Told = next - 1
      BY <2>1 DEF SharesOK, Told
    <3>2. next \in Nat /\ Len(track) \in Nat
      BY DEF Parts, RestOK, OrdersOK
    <3> QED
      BY <2>1, <3>1, <3>2
  <2>3. Told' = Told
    BY <2>1, <2>2 DEF Told
  <2> QED
    BY <2>1, <2>3 DEF UnderOK
<1>2. CASE UNCHANGED avars
  <2>1. /\ up' = up /\ next' = next /\ track' = track
        /\ px' = px /\ money' = money /\ missed' = missed
    BY <1>2 DEF avars, vars, amtVars
  <2>2. Told' = Told
    BY <2>1 DEF Told
  <2> QED
    BY <2>1, <2>2 DEF UnderOK
<1> QED
  BY <1>1, <1>2

LEMMA DownUnder ==
  ASSUME ACrash \/ AClose \/ ADownOver \/ \E r \in DOMAIN track : AMissed(r)
  PROVE  UnderOK'
<1>1. up' = "down"
  BY DEF ACrash, Crash, AClose, Close, ADownOver, DownOver, AMissed, Missed
<1> QED
  BY <1>1 DEF UnderOK

LEMMA InitUnder == AInit => UnderOK
<1> SUFFICES ASSUME AInit PROVE UnderOK
  OBVIOUS
<1>1. up = "up" /\ money = NoMoney /\ track = <<>> /\ px = <<>>
  BY DEF AInit, Init
<1>2. Told = 0
  BY <1>1 DEF Told
<1>3. UnderSays(NewDay(NoMoney), <<>>, <<>>, 0)
  BY NothingUnder, NoMoneyOK DEF ValuesOK
<1> QED
  BY <1>1, <1>2, <1>3, NoMoneyOK DEF UnderOK

LEMMA UnderStep ==
  ASSUME Parts, SharesOK, MoneyInv, UnderOK, [ANext]_avars
  PROVE  UnderOK'
<1>1. ASSUME NEW i \in Instrs, NEW dir \in Dirs, NEW off \in Offs, NEW p \in Prices,
             NEW v \in 1 .. MaxVol, ANewOrder(i, dir, off, p, v)
      PROVE  UnderOK'
  BY <1>1, NewOrderUnder
<1>2. ASSUME NEW r \in DOMAIN track, NEW n \in 1 .. MaxVol, NEW t \in Prices,
             AOnRtnTrade(r, n, t)
      PROVE  UnderOK'
  BY <1>2, OnRtnTradeUnder
<1>3. ASSUME NEW r \in DOMAIN track, AOnRtnClosed(r) \/ AMissed(r)
      PROVE  UnderOK'
  BY <1>3, OnRtnClosedUnder, DownUnder
<1>4. ASSUME NEW i \in Instrs, NEW p \in Prices, OnTickPx(i, p)
      PROVE  UnderOK'
  BY <1>4, OnTickPxUnder
<1>5. CASE AStart \/ AReplay \/ ASwitchDay
  BY <1>5, StartUnder, ReplayUnder, SwitchDayUnder
<1>6. CASE ACrash \/ AClose \/ ADownOver
  BY <1>6, DownUnder
<1>7. CASE AListen \/ UNCHANGED avars
  BY <1>7, StillUnder
<1> QED
  BY <1>1, <1>2, <1>3, <1>4, <1>5, <1>6, <1>7 DEF ANext

(* The sum over all orders, of what each has in a place, is the sum over   *)
(* the orders of that place. *)
LEMMA UnderWayFromSums ==
  ASSUME Parts, MoneyInv, UnderOK
  PROVE  AmountsUnderWay
<1> SUFFICES ASSUME up = "up", missed = 0, NEW s \in Sides, NEW off \in Offs
             PROVE  money.acc.side[s].ing[off]
                      = LET own == {r \in DOMAIN track :
                                      /\ track[r].off = off
                                      /\ SideOf(track[r].dir, off) = s}
                        IN  SumFunctionOnSet(
                              [r \in own |-> px[r] * Left(track[r]) * Mult], own)
  BY DEF AmountsUnderWay
<1>1. PICK R, own : /\ R = 1 .. Len(track)
                    /\ own = {r \in R : /\ track[r].off = off
                                        /\ SideOf(track[r].dir, off) = s}
  OBVIOUS
<1>2. /\ track \in Seq(OrderType) /\ px \in Seq(Int) /\ Len(px) = Len(track)
      /\ R = DOMAIN track /\ IsFiniteSet(R) /\ own \subseteq R
  BY <1>1, UnderTyped, FS_Interval
<1>3. PICK f, g : /\ f = [r \in own |-> px[r] * Left(track[r]) * Mult]
                  /\ g = [r \in R |-> Worth(track[r], px[r], s, off)]
  OBVIOUS
<1>4. \A r \in own : f[r] = Price(px[r], Left(track[r])) /\ f[r] \in Int
  <2> SUFFICES ASSUME NEW r \in own
               PROVE  f[r] = Price(px[r], Left(track[r])) /\ f[r] \in Int
    OBVIOUS
  <2>1. track[r] \in OrderType /\ px[r] \in Int
    BY <1>1, <1>2
  <2>2. Left(track[r]) \in Int
    BY <2>1, WorthInt
  <2>3. Price(px[r], Left(track[r])) \in Int
    BY <2>1, <2>2, PriceAdds
  <2> QED
    BY <1>3, <2>3 DEF Price
<1>5. \A r \in R : g[r] = IF r \in own THEN f[r] ELSE 0
  <2> SUFFICES ASSUME NEW r \in R
               PROVE  g[r] = IF r \in own THEN f[r] ELSE 0
    OBVIOUS
  <2>1. g[r] = Worth(track[r], px[r], s, off)
    BY <1>3
  <2>2. r \in own <=> (off = track[r].off /\ s = SideOf(track[r].dir, track[r].off))
    BY <1>1
  <2> QED
    BY <1>4, <2>1, <2>2 DEF Worth, Portion
<1>6. SumFunctionOnSet(f, own) = SumFunctionOnSet(g, R)
  BY <1>2, <1>4, <1>5, SumRestrict
<1>7. money.acc.side[s].ing[off] = Sum(money.acc, "ing", s, off)
  BY DEF Sum
<1>8. Sum(money.acc, "ing", s, off) = SumFunctionOnSet(g, R)
  BY <1>1, <1>3 DEF UnderOK, UnderSays, Worths, Told
<1> QED
  BY <1>1, <1>2, <1>3, <1>6, <1>7, <1>8

(* What is under way, in lots and in money, is what the open orders say,   *)
(* in every reachable state: the replay of the tracks freezes at the price *)
(* of each order what is left of it (onNew, onCxl, onTrd, onOrderTrack).   *)
THEOREM UnderWayAlwaysMatches == ASpec => []UnderWayMatchesOrders
<1>1. ASpec => [](Parts /\ ShareInv)
  BY AmountsKeepVolumes, ShareInvHolds
<1>2. AInit => UnderOK
  BY InitUnder
<1>3. Parts /\ ShareInv /\ MoneyInv /\ UnderOK /\ [ANext]_avars => UnderOK'
  BY UnderStep DEF ShareInv
<1>4. Parts /\ ShareInv /\ MoneyInv /\ UnderOK => UnderWayMatchesOrders
  BY FrozenFromShares, UnderWayFromSums DEF ShareInv, UnderWayMatchesOrders
<1> QED
  BY <1>1, <1>2, <1>3, <1>4, MoneyInvHolds, PTL DEF ASpec

-----------------------------------------------------------------------------
(* Risk *)
(* Every step of Risk is a step of Account, or none. *)
LEMMA RiskStep == [RNext]_rvars => [Next]_vars
<1> SUFFICES ASSUME [RNext]_rvars
             PROVE  [Next]_vars
  OBVIOUS
<1>1. ASSUME NEW i \in Instrs, NEW dir \in Dirs, NEW off \in Offs \cup {"Auto", "Close"},
             NEW p \in Quotes, NEW v \in 1 .. MaxVol, NEW q \in Ticks,
             Send(i, dir, off, p, v, q)
      PROVE  Next
  <2>1. PICK o \in OffsetOf(i, dir, off, v) : NewOrder(i, dir, o, v)
    BY <1>1 DEF Send
  <2>2. o \in Offs
    BY <2>1 DEF OffsetOf, ParseAutoOffset, Offs
  <2> QED
    BY <2>1, <2>2 DEF Next
<1>2. ASSUME NEW r \in DOMAIN track, NEW n \in 1 .. MaxVol, RTrade(r, n)
      PROVE  Next
  BY <1>2 DEF RTrade, Next
<1>3. ASSUME NEW r \in DOMAIN track, RCancel(r) \/ RReject(r)
      PROVE  Next
  BY <1>3 DEF RCancel, RReject, Next
<1>4. CASE RCrash \/ RStart \/ RReplay \/ RListen \/ RSwitchDay \/ RClose
  BY <1>4 DEF RCrash, RStart, RReplay, RListen, RSwitchDay, RClose, Next
<1>5. CASE Wait \/ UNCHANGED rvars
  BY <1>5 DEF Wait, rvars
<1> QED
  BY <1>1, <1>2, <1>3, <1>4, <1>5 DEF RNext

(* So what Account promises, Risk keeps (Send, RTrade, ..., RSwitchDay call *)
(* the operations of AccBase and change nothing else of it).               *)
THEOREM RiskIsAccount == RSpec => Spec
<1>1. RInit => Init
  BY DEF RInit
<1> QED
  BY <1>1, RiskStep, PTL DEF RSpec, Spec

(* and nothing is missed in it. *)
NothingMissed == missed = 0

LEMMA MissedStays == NothingMissed /\ [RNext]_rvars => NothingMissed'
<1> SUFFICES ASSUME missed = 0, [RNext]_rvars
             PROVE  missed' = 0
  BY DEF NothingMissed
<1>1. ASSUME NEW i \in Instrs, NEW dir \in Dirs, NEW off, NEW p, NEW v, NEW q,
             Send(i, dir, off, p, v, q)
      PROVE  missed' = 0
  BY <1>1 DEF Send, NewOrder
<1>2. ASSUME NEW r, NEW n, RTrade(r, n)
      PROVE  missed' = 0
  BY <1>2 DEF RTrade, OnRtnTrade
<1>3. ASSUME NEW r, RCancel(r) \/ RReject(r)
      PROVE  missed' = 0
  BY <1>3 DEF RCancel, RReject, OnRtnClosed
<1>4. CASE RCrash \/ RStart \/ RReplay \/ RListen \/ RSwitchDay \/ RClose
  BY <1>4 DEF RCrash, Crash, RStart, Start, RReplay, Replay, RListen, Listen,
     RSwitchDay, SwitchDay, RClose, Close
<1>5. CASE Wait \/ UNCHANGED rvars
  BY <1>5 DEF Wait, rvars, vars
<1> QED
  BY <1>1, <1>2, <1>3, <1>4, <1>5 DEF RNext

(* What is known of the account in every state of Risk *)
Known == Parts /\ ShareInv /\ NothingMissed

LEMMA KnownAlways == RSpec => []Known
<1>1. RInit => NothingMissed
  BY DEF RInit, Init, NothingMissed
<1>2. RSpec => []NothingMissed
  BY <1>1, MissedStays, PTL DEF RSpec
<1> QED
  BY <1>2, RiskIsAccount, ShareInvHolds, PTL DEF Known

-----------------------------------------------------------------------------
(***************************************************************************)
(* The treaps of the engine                                                *)
(***************************************************************************)
(* Every open order is in its treap, until the engine has died once, and   *)
(* no order is in it that there is not.                                    *)
TreapsHold ==
  \A r \in DOMAIN track : front[r].open => r \in book

TreapInv ==
  /\ level \in {"top", "stg"} /\ (level = "stg" => book = {})
  /\ pr \in Seq(Quotes) /\ Len(pr) = Len(track)
  /\ book \subseteq DOMAIN track
  /\ level = "top" /\ crashes = 0 => TreapsHold
  /\ NoSelfTrade

LEMMA TreapInit == RInit => TreapInv
BY DEF RInit, Init, TreapInv, TreapsHold, NoSelfTrade

(* A new order is compared with the open orders of the other direction. *)
LEMMA TreapSend ==
  ASSUME Parts, TreapInv, NEW i \in Instrs, NEW dir \in Dirs, NEW off,
         NEW p \in Quotes, NEW v, NEW q, Send(i, dir, off, p, v, q)
  PROVE  TreapInv'
<1>1. /\ track \in Seq(OrderType) /\ front \in Seq(FrontType) /\ Len(front) = Len(track)
      /\ Quotes \subseteq Nat
  BY RiskAssumption DEF Parts, OrdersOK
<1>2. PICK o, t :
        /\ t.instr = i /\ t.dir = dir
        /\ t = [instr |-> i, dir |-> dir, off |-> o, vol |-> v, traded |-> 0,
                st |-> {"TDSEND"}]
        /\ track' = Append(track, t)
        /\ front' = Append(front, [traded |-> 0, open |-> TRUE])
        /\ pr' = Append(pr, p)
        /\ book' = IF level = "top" THEN book \cup {Len(track')} ELSE book
        /\ level' = level /\ crashes' = crashes
        /\ level = "top" => ~SelfTrade(i, dir, p)
  BY DEF Send, NewOrder, Check
<1>3. PICK n \in Nat : n = Len(track)
  BY <1>1
<1>4. /\ DOMAIN track = 1 .. n /\ DOMAIN track' = 1 .. n + 1
      /\ \A r \in 1 .. n : /\ track'[r] = track[r] /\ front'[r] = front[r]
                           /\ pr'[r] = pr[r] /\ pr[r] \in Nat
      /\ track'[n + 1] = t /\ pr'[n + 1] = p /\ p \in Nat
      /\ Len(track') = n + 1 /\ Len(pr') = n + 1
  <2>1. /\ track' = Append(track, t) /\ pr' = Append(pr, p)
        /\ front' = Append(front, [traded |-> 0, open |-> TRUE])
    BY <1>2
  <2>2. pr \in Seq(Quotes) /\ Len(pr) = n /\ Len(front) = n
    <3>1. pr \in Seq(Quotes) /\ Len(pr) = Len(track)
      BY DEF TreapInv
    <3>2. Len(front) = Len(track)
      BY <1>1
    <3> QED
      BY <1>3, <3>1, <3>2
  <2>3. \A r \in 1 .. n : pr[r] \in Nat
    <3>1. Quotes \subseteq Nat
      BY <1>1
    <3>2. \A r \in 1 .. n : pr[r] \in Quotes
      BY <2>2
    <3> QED
      BY <3>1, <3>2
  <2>4. p \in Nat
    BY <1>1
  <2>5. /\ DOMAIN track = 1 .. n /\ DOMAIN track' = 1 .. n + 1
        /\ Len(track') = n + 1 /\ track'[n + 1] = t
        /\ \A r \in 1 .. n : track'[r] = track[r]
    BY <1>1, <1>3, <2>1
  <2>6. \A r \in 1 .. n : front'[r] = front[r]
    BY <1>1, <2>1, <2>2
  <2>7. Len(pr') = n + 1 /\ pr'[n + 1] = p /\ \A r \in 1 .. n : pr'[r] = pr[r]
    BY <2>1, <2>2
  <2> QED
    BY <2>3, <2>4, <2>5, <2>6, <2>7
<1>5. pr' \in Seq(Quotes)
  BY <1>2 DEF TreapInv
<1>6. book' \subseteq DOMAIN track' /\ (level' = "stg" => book' = {})
  BY <1>2, <1>4 DEF TreapInv
<1>7. ASSUME level = "top", crashes = 0
      PROVE  TreapsHold' /\ NoSelfTrade'
  <2>1. \A r \in 1 .. n : front[r].open => r \in book
    BY <1>4, <1>7 DEF TreapInv, TreapsHold
  <2>2. TreapsHold'
    <3>1. \A r \in 1 .. n + 1 : r \in 1 .. n \/ r = n + 1
      OBVIOUS
    <3>2. \A r \in 1 .. n : front'[r].open => r \in book'
      BY <1>2, <1>4, <1>7, <2>1
    <3>3. n + 1 \in book'
      BY <1>2, <1>4, <1>7
    <3> QED
      BY <1>4, <3>1, <3>2, <3>3 DEF TreapsHold
  <2>3. \A r \in 1 .. n :
          /\ front[r].open /\ track[r].instr = i
          => /\ dir = "Buy" /\ track[r].dir = "Sell" => p < pr[r]
             /\ dir = "Sell" /\ track[r].dir = "Buy" => pr[r] < p
    <3>1. SUFFICES ASSUME NEW r \in 1 .. n, front[r].open, track[r].instr = i,
                          track[r].dir # dir
                   PROVE  IF dir = "Buy" THEN p < pr[r] ELSE pr[r] < p
      BY DEF Dirs
    <3>2. ~(IF dir = "Buy" THEN p >= pr[r] ELSE p <= pr[r])
      BY <1>2, <1>7, <2>1, <3>1 DEF SelfTrade
    <3>3. p \in Nat /\ pr[r] \in Nat
      BY <1>4
    <3> QED
      BY <3>2, <3>3
  <2>4. ASSUME NEW r \in DOMAIN track', NEW s \in DOMAIN track',
               front'[r].open, front'[s].open, track'[r].instr = track'[s].instr,
               track'[r].dir = "Buy", track'[s].dir = "Sell"
        PROVE  pr'[r] < pr'[s]
    <3>1. r \in 1 .. n \/ r = n + 1
      BY <1>4
    <3>2. s \in 1 .. n \/ s = n + 1
      BY <1>4
    <3>3. CASE r \in 1 .. n /\ s \in 1 .. n
      <4>1. pr[r] < pr[s]
        BY <1>4, <1>7, <2>4, <3>3 DEF TreapInv, NoSelfTrade
      <4> QED
        BY <1>4, <3>3, <4>1
    <3>4. CASE r \in 1 .. n /\ s = n + 1
      <4>1. t.instr = i /\ t.dir = dir
        BY <1>2
      <4> QED
        BY <1>4, <2>3, <2>4, <3>4, <4>1
    <3>5. CASE r = n + 1 /\ s \in 1 .. n
      <4>1. t.instr = i /\ t.dir = dir
        BY <1>2
      <4> QED
        BY <1>4, <2>3, <2>4, <3>5, <4>1
    <3>6. CASE r = n + 1 /\ s = n + 1
      BY <2>4, <3>6
    <3> QED
      BY <3>1, <3>2, <3>3, <3>4, <3>5, <3>6
  <2> QED
    BY <2>2, <2>4 DEF NoSelfTrade
<1>8. ~(level = "top" /\ crashes = 0) => NoSelfTrade'
  BY <1>2 DEF NoSelfTrade
<1> QED
  BY <1>2, <1>4, <1>5, <1>6, <1>7, <1>8 DEF TreapInv

(* An order that is open after a return was open before it, and has not    *)
(* left its treap: what leaves it is filled or canceled.                   *)
LEMMA TreapReturn ==
  ASSUME Parts, TreapInv, NEW r \in DOMAIN track,
         UNCHANGED <<level, pr, crashes>>, Len(track') = Len(track),
         track' \in Seq(OrderType),
         \A k \in DOMAIN track : /\ track'[k].instr = track[k].instr
                                 /\ track'[k].dir = track[k].dir
                                 /\ front'[k].open => front[k].open,
         book' = book \/ (book' = book \ {r} /\ ~front'[r].open)
  PROVE  TreapInv'
<1>1. track \in Seq(OrderType) /\ DOMAIN track' = DOMAIN track
  BY DEF Parts, OrdersOK
<1>2. book' \subseteq book
  OBVIOUS
<1>3. level = "top" /\ crashes = 0 => TreapsHold'
  BY <1>1 DEF TreapInv, TreapsHold
<1>4. NoSelfTrade'
  BY <1>1 DEF TreapInv, NoSelfTrade
<1> QED
  BY <1>1, <1>2, <1>3, <1>4 DEF TreapInv

LEMMA TreapTrade ==
  ASSUME Parts, TreapInv, NEW r \in DOMAIN track, NEW n \in 1 .. MaxVol, RTrade(r, n)
  PROVE  TreapInv'
<1>1. /\ track \in Seq(OrderType) /\ front \in Seq(FrontType) /\ Len(front) = Len(track)
      /\ up # "down" => \A k \in DOMAIN track : track[k].traded = front[k].traded
  BY DEF Parts, OrdersOK, TracksCount
<1>2. track' \in Seq(OrderType)
  BY OnRtnTradeStep DEF RTrade, Parts, OrdersOK
<1>3. PICK total : total = track[r].traded + n
  OBVIOUS
<1>4. PICK o : o = [track[r] EXCEPT !.traded = total,
                     !.st = @ \cup {"EXECUTION"} \cup
                            (IF total >= track[r].vol THEN {"CLOSED"} ELSE {})]
  OBVIOUS
<1>5. PICK f : f = [traded |-> front[r].traded + n,
                    open |-> front[r].traded + n < track[r].vol]
  OBVIOUS
<1>9. /\ track' = [track EXCEPT ![r] = o] /\ front' = [front EXCEPT ![r] = f]
      /\ book' = IF track'[r].traded = track[r].vol THEN book \ {r} ELSE book
      /\ up = "up" /\ front[r].open /\ UNCHANGED <<level, pr, crashes>>
  <2>1. track' = [track EXCEPT ![r] = o]
    BY <1>3, <1>4, Zenon DEF RTrade, OnRtnTrade
  <2>2. front' = [front EXCEPT ![r] = f] /\ front[r].open
    BY <1>5 DEF RTrade, OnRtnTrade, FrontTrades
  <2>3. book' = IF track'[r].traded = track[r].vol THEN book \ {r} ELSE book
    BY DEF RTrade
  <2>4. up = "up" /\ UNCHANGED <<level, pr, crashes>>
    BY DEF RTrade, OnRtnTrade
  <2> QED
    BY <2>1, <2>2, <2>3, <2>4
<1>10. /\ o.traded = total /\ o.instr = track[r].instr /\ o.dir = track[r].dir
       /\ track'[r] = o /\ front'[r] = f /\ DOMAIN track' = DOMAIN track
       /\ Len(track') = Len(track)
       /\ \A k \in DOMAIN track : k # r => track'[k] = track[k] /\ front'[k] = front[k]
  <2>1. track[r] \in OrderType /\ r \in DOMAIN front
    BY <1>1
  <2>2. o.traded = total /\ o.instr = track[r].instr /\ o.dir = track[r].dir
    BY <1>4, <2>1 DEF OrderType
  <2> QED
    BY <1>1, <1>9, <2>1, <2>2
<1>6. Len(track') = Len(track)
  BY <1>10
<1>7. \A k \in DOMAIN track : /\ track'[k].instr = track[k].instr
                              /\ track'[k].dir = track[k].dir
                              /\ front'[k].open => front[k].open
  <2>1. ASSUME NEW k \in DOMAIN track
        PROVE  /\ track'[k].instr = track[k].instr
               /\ track'[k].dir = track[k].dir
               /\ front'[k].open => front[k].open
    <3>1. CASE k = r
      BY <1>9, <1>10, <3>1
    <3>2. CASE k # r
      BY <1>10, <3>2
    <3> QED
      BY <3>1, <3>2
  <2> QED
    BY <2>1
<1>8. track'[r].traded = track[r].vol => ~front'[r].open
  <2>1. front'[r].open <=> front[r].traded + n < track[r].vol
    <3>1. f.open <=> front[r].traded + n < track[r].vol
      BY <1>5, Zenon
    <3>2. front'[r] = f
      BY <1>10
    <3> QED
      BY <3>1, <3>2, Zenon
  <2>2. front[r].traded = track[r].traded /\ track[r].vol \in Int
    <3>1. track[r] \in OrderType
      BY <1>1
    <3> QED
      BY SMTT(30), <1>1, <1>9, <3>1, AccountAssumption DEF OrderType
  <2> QED
    BY <1>3, <1>10, <2>1, <2>2
<1> QED
  BY <1>2, <1>6, <1>7, <1>8, <1>9, TreapReturn

LEMMA TreapClosed ==
  ASSUME Parts, TreapInv, NEW r \in DOMAIN track, RCancel(r) \/ RReject(r)
  PROVE  TreapInv'
<1>1. /\ track \in Seq(OrderType) /\ front \in Seq(FrontType) /\ Len(front) = Len(track)
  BY DEF Parts, OrdersOK
<1>2. OnRtnClosed(r) /\ (book' = book \/ book' = book \ {r})
      /\ UNCHANGED <<level, pr>>
  BY DEF RCancel, RReject, riskVars
<1>3. track' \in Seq(OrderType)
  BY <1>2, OnRtnClosedStep DEF Parts, OrdersOK
<1>4. /\ track' = [track EXCEPT ![r].st = @ \cup {"CANCELED", "CLOSED"}]
      /\ front' = [front EXCEPT ![r].open = FALSE] /\ crashes' = crashes
  BY <1>2 DEF OnRtnClosed, FrontCancels
<1>5. Len(track') = Len(track) /\ ~front'[r].open
  BY <1>1, <1>4 DEF FrontType
<1>6. \A k \in DOMAIN track : /\ track'[k].instr = track[k].instr
                              /\ track'[k].dir = track[k].dir
                              /\ front'[k].open => front[k].open
  BY SMTT(30), <1>1, <1>4 DEF FrontType, OrderType
<1> QED
  BY <1>2, <1>3, <1>4, <1>5, <1>6, TreapReturn

(* The engine starts, and asks the front for its orders: what they are for *)
(* stays as it was.                                                        *)
LEMMA StartKeepsOrders ==
  ASSUME Parts, Start
  PROVE  /\ track' \in Seq(OrderType) /\ DOMAIN track' = DOMAIN track
         /\ Len(track') = Len(track) /\ UNCHANGED <<front, crashes>>
         /\ \A k \in DOMAIN track : /\ track'[k].instr = track[k].instr
                                    /\ track'[k].dir = track[k].dir
<1>1. track \in Seq(OrderType)
  BY DEF Parts, OrdersOK
<1>2. track' = [r \in DOMAIN track |-> OnRspQryOrder(track[r], front[r])]
      /\ UNCHANGED <<front, crashes>>
  BY DEF Start
<1>3. \A k \in DOMAIN track : /\ track'[k].instr = track[k].instr
                              /\ track'[k].dir = track[k].dir
  <2>1. ASSUME NEW k \in DOMAIN track
        PROVE  track'[k].instr = track[k].instr /\ track'[k].dir = track[k].dir
    <3>1. track[k] \in OrderType
      BY <1>1
    <3>2. track'[k] = [track[k] EXCEPT !.traded = front[k].traded]
      BY <1>2 DEF OnRspQryOrder
    <3> QED
      BY <3>1, <3>2 DEF OrderType
  <2> QED
    BY <2>1
<1>4. DOMAIN track' = DOMAIN track
  BY <1>2
<1>5. track' \in Seq(OrderType)
  BY StartStep DEF Parts, OrdersOK
<1> QED
  BY <1>1, <1>2, <1>3, <1>4, <1>5

LEMMA TreapStep == Parts /\ Parts' /\ TreapInv /\ [RNext]_rvars => TreapInv'
<1> SUFFICES ASSUME Parts, Parts', TreapInv, [RNext]_rvars
             PROVE  TreapInv'
  OBVIOUS
<1>1. ASSUME NEW i \in Instrs, NEW dir \in Dirs, NEW off \in Offs \cup {"Auto", "Close"},
             NEW p \in Quotes, NEW v \in 1 .. MaxVol, NEW q \in Ticks,
             Send(i, dir, off, p, v, q)
      PROVE  TreapInv'
  BY <1>1, TreapSend
<1>2. ASSUME NEW r \in DOMAIN track, NEW n \in 1 .. MaxVol, RTrade(r, n)
      PROVE  TreapInv'
  BY <1>2, TreapTrade
<1>3. ASSUME NEW r \in DOMAIN track, RCancel(r) \/ RReject(r)
      PROVE  TreapInv'
  BY <1>3, TreapClosed
<1>4. CASE RCrash
  <2>1. crashes' # 0 /\ UNCHANGED <<track, pr, level>> /\ book' = {}
    BY <1>4 DEF RCrash, Crash, NewTables, Parts, RestOK
  <2> QED
    BY <2>1 DEF TreapInv, NoSelfTrade
<1>5. CASE RStart
  <2>1. UNCHANGED <<pr, level, book>>
    BY <1>5 DEF RStart, riskVars
  <2>2. Start
    BY <1>5 DEF RStart
  <2>3. level = "top" /\ crashes = 0 => TreapsHold' /\ NoSelfTrade'
    <3>1. SUFFICES ASSUME level = "top", crashes = 0
                   PROVE  TreapsHold' /\ NoSelfTrade'
      OBVIOUS
    <3>2. TreapsHold'
      BY <2>1, <2>2, <3>1, StartKeepsOrders DEF TreapInv, TreapsHold
    <3>3. NoSelfTrade'
      BY <2>1, <2>2, <3>1, StartKeepsOrders DEF TreapInv, NoSelfTrade
    <3> QED
      BY <3>2, <3>3
  <2>4. crashes' = crashes /\ Len(track') = Len(track) /\ DOMAIN track' = DOMAIN track
    BY <2>2, StartKeepsOrders
  <2>5. ~(level = "top" /\ crashes = 0) => NoSelfTrade'
    BY <2>1, <2>4 DEF NoSelfTrade
  <2> QED
    BY <2>1, <2>3, <2>4, <2>5 DEF TreapInv
<1>6. CASE RReplay \/ RListen \/ Wait \/ UNCHANGED rvars
  <2>1. UNCHANGED <<track, front, crashes, pr, level, book>>
    BY <1>6 DEF RReplay, Replay, RListen, Listen, Wait, rvars, vars, riskVars
  <2> QED
    BY <2>1 DEF TreapInv, TreapsHold, NoSelfTrade
<1>7. CASE RSwitchDay
  <2>1. level = "stg" /\ track' = <<>> /\ pr' = <<>> /\ UNCHANGED <<level, book>>
    BY <1>7 DEF RSwitchDay, SwitchDay, DayOver
  <2> QED
    BY <2>1 DEF TreapInv, NoSelfTrade
<1>8. CASE RClose
  <2>1. /\ track' = <<>> /\ front' = <<>> /\ pr' = <<>> /\ book' = {}
        /\ UNCHANGED <<level, crashes>>
    BY <1>8 DEF RClose, Close, DayOver, NewTables
  <2> QED
    BY <2>1 DEF TreapInv, TreapsHold, NoSelfTrade
<1> QED
  BY <1>1, <1>2, <1>3, <1>4, <1>5, <1>6, <1>7, <1>8 DEF RNext

(* Two orders of an account never meet (NoSelfTrade): an order is sent at a *)
(* price that meets none of the other treap, and every order that is open  *)
(* at the front is in its treap (RiskInstrTop).                            *)
THEOREM NoOrdersMeet == RSpec => []NoSelfTrade
<1>1. TreapInv => NoSelfTrade
  BY DEF TreapInv
<1>2. Known => Parts
  BY DEF Known
<1> QED
  BY <1>1, <1>2, TreapInit, TreapStep, KnownAlways, PTL DEF RSpec

-----------------------------------------------------------------------------
(***************************************************************************)
(* The intensity limit                                                     *)
(***************************************************************************)
(* The orders S of an instrument and its cycle c at the time t: the last   *)
(* c.count orders are those of the cycle, it began with the first of them, *)
(* unless it is the first cycle, and from the third cycle on it began      *)
(* CycleSpan after the one before it.                                      *)
CycleOK(c, S, t) ==
  /\ c \in [count: Nat, record: Nat] /\ S \in Seq(Nat)
  /\ c.count <= CycleCount /\ c.count <= Len(S)
  /\ \A k \in 1 .. Len(S) : S[k] <= t
  /\ \A j, k \in 1 .. Len(S) : j <= k => S[j] <= S[k]
  /\ \/ Len(S) = c.count \/ Len(S) = c.count + CycleCount
     \/ Len(S) >= c.count + 2 * CycleCount
  /\ c.count < Len(S) => c.count >= 1 /\ S[Len(S) - c.count + 1] = c.record
  /\ Len(S) >= c.count + 2 * CycleCount =>
       c.record - S[Len(S) - c.count - CycleCount + 1] >= CycleSpan
  /\ \A k \in 1 .. Len(S) : k + 2 * CycleCount <= Len(S) =>
       S[k + 2 * CycleCount] - S[k] >= CycleSpan

CycleInv ==
  /\ now \in Nat
  /\ cycle \in [Instrs -> [count: Nat, record: Nat]] /\ sent \in [Instrs -> Seq(Nat)]
  /\ \A i \in Instrs : CycleOK(cycle[i], sent[i], now)

LEMMA CycleFresh == ASSUME NEW t \in Nat PROVE CycleOK(FreshCycle, <<>>, t)
BY RiskAssumption DEF CycleOK, FreshCycle

LEMMA CycleWaits ==
  ASSUME NEW c, NEW S, NEW t \in Nat, CycleOK(c, S, t)
  PROVE  CycleOK(c, S, t + 1)
<1>1. \A k \in 1 .. Len(S) : S[k] <= t + 1
  <2>1. ASSUME NEW k \in 1 .. Len(S) PROVE S[k] <= t + 1
    <3>1. S[k] \in Nat /\ S[k] <= t
      BY DEF CycleOK
    <3> QED
      BY <3>1
  <2> QED
    BY <2>1
<1> QED
  BY <1>1 DEF CycleOK

(* An order that passes the check begins a cycle or goes on with it. *)
LEMMA CycleGrows ==
  ASSUME NEW c, NEW S, now \in Nat, CycleOK(c, S, now),
         ~(c.count >= CycleCount /\ now - c.record < CycleSpan)
  PROVE  CycleOK(NewCycle(c), Append(S, now), now)
<1>1. PICK C \in Nat : C = CycleCount /\ C >= 1
  BY RiskAssumption
<1>2. PICK t \in Nat : t = now
  OBVIOUS
<1>3. PICK n \in Nat : n = Len(S)
  BY DEF CycleOK
<1>4. PICK m \in Nat, a \in Nat : m = c.count /\ a = c.record
  BY DEF CycleOK
<1>5. PICK T : T = Append(S, t)
  OBVIOUS
<1>6. PICK d : d = NewCycle(c)
  OBVIOUS
<1>7. PICK span \in Nat : span = CycleSpan
  BY RiskAssumption
<1>8. /\ c \in [count: Nat, record: Nat] /\ S \in Seq(Nat)
      /\ m <= C /\ m <= n
      /\ n = m \/ n = m + C \/ n >= m + 2 * C
      /\ m < n => m >= 1
  BY <1>1, <1>3, <1>4 DEF CycleOK
<1>9. /\ T \in Seq(Nat) /\ Len(T) = n + 1 /\ T[n + 1] = t
      /\ \A k \in 1 .. n : T[k] = S[k] /\ S[k] \in Nat /\ T[k] \in Nat /\ S[k] <= t
  <2>1. T \in Seq(Nat) /\ Len(T) = n + 1 /\ T[n + 1] = t
    BY <1>3, <1>5, <1>8
  <2>2. \A k \in 1 .. n : T[k] = S[k] /\ S[k] \in Nat
    BY <1>3, <1>5, <1>8
  <2>3. \A k \in 1 .. n : S[k] <= t
    BY <1>2, <1>3 DEF CycleOK
  <2> QED
    BY <2>1, <2>2, <2>3
<1>10. \A j, k \in 1 .. n : j <= k => S[j] <= S[k]
  BY <1>3 DEF CycleOK
<1>11. m < n => S[n - m + 1] = a
  BY <1>3, <1>4 DEF CycleOK
<1>12. n >= m + 2 * C => a - S[n - m - C + 1] >= span
  BY <1>1, <1>3, <1>4, <1>7 DEF CycleOK
<1>13. \A k \in 1 .. n : k + 2 * C <= n => S[k + 2 * C] - S[k] >= span
  BY <1>1, <1>3, <1>7 DEF CycleOK
<1>14. m >= C => t - a >= span
  BY <1>1, <1>2, <1>4, <1>7
<1>15. PICK dm \in Nat, da \in Nat :
         /\ d = [count |-> dm, record |-> da]
         /\ m >= C => dm = 1 /\ da = t
         /\ m < C => dm = m + 1 /\ da = a
  <2>1. CASE m >= C
    <3>1. d = [count |-> 1, record |-> t]
      BY <1>1, <1>2, <1>4, <1>6, <1>8, <2>1 DEF NewCycle
    <3> QED
      BY <2>1, <3>1
  <2>2. CASE m < C
    <3>1. c = [count |-> m, record |-> a]
      BY <1>4, <1>8
    <3>2. d = [count |-> m + 1, record |-> a]
      <4>1. ~(m + 1 > C)
        BY <1>1, <2>2
      <4>2. d = [c EXCEPT !.count = @ + 1]
        BY <1>1, <1>4, <1>6, <4>1 DEF NewCycle
      <4> QED
        BY <1>4, <3>1, <4>2
    <3> QED
      BY <2>2, <3>2
  <2> QED
    BY <1>1, <2>1, <2>2
<1>16. \A k \in 1 .. n + 1 : k \in 1 .. n \/ k = n + 1
  OBVIOUS
<1>17. \A k \in 1 .. n + 1 : T[k] \in Nat /\ T[k] <= t
  BY <1>9, <1>16
<1>18. \A j, k \in 1 .. n + 1 : j <= k => T[j] <= T[k]
  <2>1. ASSUME NEW j \in 1 .. n + 1, NEW k \in 1 .. n + 1, j <= k
        PROVE  T[j] <= T[k]
    <3>1. CASE k \in 1 .. n
      <4>1. j \in 1 .. n
        BY <2>1, <3>1
      <4> QED
        BY <1>9, <1>10, <2>1, <3>1, <4>1
    <3>2. CASE k = n + 1
      BY <1>9, <1>17, <3>2
    <3> QED
      BY <1>16, <3>1, <3>2
  <2> QED
    BY <2>1
<1>19. dm <= C /\ dm <= n + 1 /\ (n + 1 = dm \/ n + 1 = dm + C \/ n + 1 >= dm + 2 * C)
  <2>1. CASE m >= C
    BY <1>1, <1>8, <1>15, <2>1
  <2>2. CASE m < C
    BY <1>1, <1>8, <1>15, <2>2
  <2> QED
    BY <1>1, <2>1, <2>2
<1>20. dm < n + 1 => dm >= 1 /\ T[n + 1 - dm + 1] = da
  <2>1. CASE m >= C
    <3>1. dm = 1 /\ da = t /\ n + 1 - dm + 1 = n + 1
      BY <1>15, <2>1
    <3> QED
      BY <1>9, <3>1
  <2>2. CASE m < C
    <3>1. dm = m + 1 /\ da = a /\ dm >= 1
      BY <1>15, <2>2
    <3>2. ASSUME dm < n + 1
          PROVE  T[n + 1 - dm + 1] = da
      <4>1. m < n /\ n - m + 1 \in 1 .. n /\ n + 1 - dm + 1 = n - m + 1
        BY <1>8, <3>1, <3>2
      <4>2. S[n - m + 1] = a
        BY <1>11, <4>1
      <4>3. T[n - m + 1] = S[n - m + 1]
        BY <1>9, <4>1
      <4> QED
        BY <3>1, <4>1, <4>2, <4>3
    <3> QED
      BY <3>1, <3>2
  <2> QED
    BY <1>1, <2>1, <2>2
<1>21. ASSUME n + 1 >= dm + 2 * C
       PROVE  da - T[n + 1 - dm - C + 1] >= span
  <2>1. CASE m >= C
    <3>1. m = C /\ dm = 1 /\ da = t
      BY <1>8, <1>15, <2>1
    <3>2. m < n /\ n - m + 1 \in 1 .. n /\ n + 1 - dm - C + 1 = n - m + 1
      BY <1>1, <1>21, <3>1
    <3>3. S[n - m + 1] = a /\ T[n - m + 1] = S[n - m + 1]
      BY <1>9, <1>11, <3>2
    <3> QED
      BY <1>14, <2>1, <3>1, <3>2, <3>3
  <2>2. CASE m < C
    <3>1. dm = m + 1 /\ da = a
      BY <1>15, <2>2
    <3>2. /\ n >= m + 2 * C /\ n - m - C + 1 \in 1 .. n
          /\ n + 1 - dm - C + 1 = n - m - C + 1
      BY <1>1, <1>21, <3>1
    <3>3. T[n - m - C + 1] = S[n - m - C + 1]
      BY <1>9, <3>2
    <3> QED
      BY <1>12, <3>1, <3>2, <3>3
  <2> QED
    BY <1>1, <2>1, <2>2
<1>22. \A k \in 1 .. n + 1 : k + 2 * C <= n + 1 => T[k + 2 * C] - T[k] >= span
  <2>1. ASSUME NEW k \in 1 .. n + 1, k + 2 * C <= n + 1
        PROVE  T[k + 2 * C] - T[k] >= span
    <3>1. CASE k + 2 * C <= n
      <4>1. k \in 1 .. n /\ k + 2 * C \in 1 .. n
        BY <1>1, <3>1
      <4>2. S[k + 2 * C] - S[k] >= span
        BY <1>13, <3>1, <4>1
      <4>3. T[k + 2 * C] = S[k + 2 * C] /\ T[k] = S[k]
        BY <1>9, <4>1
      <4> QED
        BY <4>2, <4>3
    <3>2. CASE k + 2 * C = n + 1
      \* the first order of the cycle before: b
      <4>1. PICK b \in Int : b = n + 1 - dm - C + 1
        OBVIOUS
      <4>2. n + 1 >= dm + 2 * C
        <5>1. dm >= 1
          BY <1>15, <1>1
        <5> QED
          BY <1>1, <1>19, <3>2, <5>1
      <4>3. k <= b /\ b \in 1 .. n + 1 /\ k \in 1 .. n + 1
        BY <1>1, <1>19, <2>1, <3>2, <4>1, <4>2
      <4>4. da - T[b] >= span
        BY <1>21, <4>1, <4>2
      <4>5. T[k] <= T[b]
        BY <1>18, <4>3
      <4>6. da <= t
        <5>1. m < C => a <= t
          <6>1. SUFFICES ASSUME m < C PROVE a <= t
            OBVIOUS
          <6>2. m < n /\ n - m + 1 \in 1 .. n
            BY <1>1, <1>8, <1>15, <4>2, <6>1
          <6> QED
            BY <1>9, <1>11, <6>2
        <5> QED
          BY <1>1, <1>15, <5>1
      <4>7. T[k + 2 * C] = t
        BY <1>9, <3>2
      <4>8. T[k] \in Nat /\ T[b] \in Nat
        BY <1>17, <4>3
      <4> QED
        BY <4>4, <4>5, <4>6, <4>7, <4>8
    <3> QED
      BY <1>1, <2>1, <3>1, <3>2
  <2> QED
    BY <2>1
<1>23. CycleOK(d, T, t)
  <2>1. d \in [count: Nat, record: Nat] /\ d.count = dm /\ d.record = da
    BY <1>15
  <2> QED
    BY <1>1, <1>7, <1>9, <1>17, <1>18, <1>19, <1>20, <1>21, <1>22, <2>1 DEF CycleOK
<1> QED
  BY <1>2, <1>5, <1>6, <1>23

LEMMA CycleSend ==
  ASSUME CycleInv, NEW i \in Instrs, NEW dir, NEW off, NEW p, NEW v, NEW q,
         Send(i, dir, off, p, v, q)
  PROVE  CycleInv'
<1>1. /\ cycle' = [cycle EXCEPT ![i] = NewCycle(@)]
      /\ sent' = [sent EXCEPT ![i] = Append(@, now)]
      /\ now' = now /\ IsIntensityNormal(i)
  BY DEF Send, Check, RiskInstrCheck
<1>2. CycleOK(NewCycle(cycle[i]), Append(sent[i], now), now)
  BY <1>1, CycleGrows DEF CycleInv, IsIntensityNormal
<1>3. PICK c, S : c = NewCycle(cycle[i]) /\ S = Append(sent[i], now)
  OBVIOUS
<1>4. c \in [count: Nat, record: Nat] /\ S \in Seq(Nat)
  BY <1>2, <1>3 DEF CycleOK
<1>5. cycle' = [cycle EXCEPT ![i] = c] /\ sent' = [sent EXCEPT ![i] = S]
  BY <1>1, <1>3
<1>6. \A j \in Instrs : CycleOK(cycle'[j], sent'[j], now)
  <2>1. ASSUME NEW j \in Instrs
        PROVE  CycleOK(cycle'[j], sent'[j], now)
    <3>1. CASE j = i
      <4>1. cycle'[j] = c /\ sent'[j] = S
        BY <1>5, <3>1 DEF CycleInv
      <4> QED
        BY <1>2, <1>3, <4>1
    <3>2. CASE j # i
      <4>1. cycle'[j] = cycle[j] /\ sent'[j] = sent[j]
        BY <1>5, <3>2 DEF CycleInv
      <4> QED
        BY <4>1 DEF CycleInv
    <3> QED
      BY <3>1, <3>2
  <2> QED
    BY <2>1
<1>7. cycle' \in [Instrs -> [count: Nat, record: Nat]] /\ sent' \in [Instrs -> Seq(Nat)]
  BY <1>4, <1>5 DEF CycleInv
<1> QED
  BY <1>1, <1>6, <1>7 DEF CycleInv

(* The tables of some instruments are made anew. *)
LEMMA CycleMadeAnew ==
  ASSUME CycleInv, NEW new,
         cycle' = [i \in Instrs |-> IF i \in new THEN FreshCycle ELSE cycle[i]],
         sent' = [i \in Instrs |-> IF i \in new THEN <<>> ELSE sent[i]],
         now' = now
  PROVE  CycleInv'
<1>1. ASSUME NEW i \in Instrs
      PROVE  /\ CycleOK(cycle'[i], sent'[i], now)
             /\ cycle'[i] \in [count: Nat, record: Nat] /\ sent'[i] \in Seq(Nat)
  <2>1. CASE i \in new
    <3>1. cycle'[i] = FreshCycle /\ sent'[i] = <<>>
      BY <2>1
    <3>2. CycleOK(FreshCycle, <<>>, now)
      BY CycleFresh DEF CycleInv
    <3>3. FreshCycle \in [count: Nat, record: Nat] /\ <<>> \in Seq(Nat)
      BY DEF FreshCycle
    <3> QED
      BY <3>1, <3>2, <3>3
  <2>2. CASE i \notin new
    <3>1. cycle'[i] = cycle[i] /\ sent'[i] = sent[i]
      BY <2>2
    <3> QED
      BY <3>1 DEF CycleInv
  <2> QED
    BY <2>1, <2>2
<1>2. cycle' \in [Instrs -> [count: Nat, record: Nat]] /\ sent' \in [Instrs -> Seq(Nat)]
  BY <1>1
<1> QED
  BY <1>1, <1>2 DEF CycleInv

LEMMA CycleStep == CycleInv /\ [RNext]_rvars => CycleInv'
<1> SUFFICES ASSUME CycleInv, [RNext]_rvars
             PROVE  CycleInv'
  OBVIOUS
<1>1. ASSUME NEW i \in Instrs, NEW dir \in Dirs, NEW off \in Offs \cup {"Auto", "Close"},
             NEW p \in Quotes, NEW v \in 1 .. MaxVol, NEW q \in Ticks,
             Send(i, dir, off, p, v, q)
      PROVE  CycleInv'
  BY <1>1, CycleSend
<1>2. ASSUME NEW r, NEW n, RTrade(r, n) \/ RCancel(r) \/ RReject(r)
      PROVE  CycleInv'
  <2>1. UNCHANGED <<now, cycle, sent>>
    BY <1>2 DEF RTrade, RCancel, RReject, riskVars
  <2> QED
    BY <2>1 DEF CycleInv
<1>3. CASE RStart \/ RReplay \/ RListen \/ UNCHANGED rvars
  <2>1. UNCHANGED <<now, cycle, sent>>
    BY <1>3 DEF RStart, RReplay, RListen, rvars, riskVars
  <2> QED
    BY <2>1 DEF CycleInv
<1>4. CASE RCrash \/ RClose
  <2>1. /\ cycle' = [i \in Instrs |-> FreshCycle] /\ sent' = [i \in Instrs |-> <<>>]
        /\ now' = now
    BY <1>4 DEF RCrash, RClose, NewTables
  <2>2. /\ cycle' = [i \in Instrs |-> IF i \in Instrs THEN FreshCycle ELSE cycle[i]]
        /\ sent' = [i \in Instrs |-> IF i \in Instrs THEN <<>> ELSE sent[i]]
    BY <2>1
  <2> QED
    BY <2>1, <2>2, CycleMadeAnew
<1>5. CASE RSwitchDay
  <2>1. PICK freed, kept :
          /\ cycle' = [i \in Instrs |-> IF i \in freed \ kept THEN FreshCycle
                                        ELSE cycle[i]]
          /\ sent' = [i \in Instrs |-> IF i \in freed \ kept THEN <<>> ELSE sent[i]]
          /\ now' = now
    BY ZenonT(60), <1>5 DEF RSwitchDay
  <2>2. PICK new : new = freed \ kept
    OBVIOUS
  <2>3. /\ cycle' = [i \in Instrs |-> IF i \in new THEN FreshCycle ELSE cycle[i]]
        /\ sent' = [i \in Instrs |-> IF i \in new THEN <<>> ELSE sent[i]]
    BY <2>1, <2>2
  <2> QED
    BY <2>1, <2>3, CycleMadeAnew
<1>6. CASE Wait
  <2>1. now' = now + 1 /\ UNCHANGED <<cycle, sent>>
    BY <1>6 DEF Wait
  <2>2. \A i \in Instrs : CycleOK(cycle[i], sent[i], now + 1)
    BY CycleWaits DEF CycleInv
  <2> QED
    BY <2>1, <2>2 DEF CycleInv
<1> QED
  BY <1>1, <1>2, <1>3, <1>4, <1>5, <1>6 DEF RNext

(* Of any two cycles' worth of orders that pass the check, the last is no  *)
(* less than CycleSpan after the first (IntensityBounded), whatever is     *)
(* sent when (RiskInstr::IsIntensityNormal, onNew).                        *)
THEOREM IntensityIsBounded == RSpec => []IntensityBounded
<1>1. RInit => CycleInv
  <2> SUFFICES ASSUME RInit PROVE CycleInv
    OBVIOUS
  <2>1. CycleOK(FreshCycle, <<>>, Start0)
    BY RiskAssumption, CycleFresh
  <2>2. FreshCycle \in [count: Nat, record: Nat]
    BY DEF FreshCycle
  <2> QED
    BY <2>1, <2>2, RiskAssumption DEF RInit, CycleInv
<1>2. CycleInv => IntensityBounded
  BY DEF CycleInv, CycleOK, IntensityBounded
<1> QED
  BY <1>1, <1>2, CycleStep, PTL DEF RSpec

-----------------------------------------------------------------------------
(***************************************************************************)
(* The offset that is chosen for an order                                  *)
(***************************************************************************)
(* It fits (AutoOffsetFits), in every account that can be: the account has *)
(* integers in it, whatever became of the orders                           *)
(* (RiskInstr::parseAutoOffset).                                           *)
THEOREM AutoOffsetAlwaysFits == RSpec => []AutoOffsetFits
<1>1. Parts => AutoOffsetFits
  <2> SUFFICES ASSUME Parts, NEW i \in Instrs, NEW dir \in Dirs,
                      NEW off \in {"Auto", "Close"}, NEW v \in 1 .. MaxVol,
                      NEW o \in ParseAutoOffset(i, dir, off, v)
               PROVE  /\ Available(i, dir, o, v)
                      /\ IsVolumeCorrect(instr[i], InstrLimit(i), dir, o, v)
    BY DEF AutoOffsetFits
  <2>1. PICK s, lim, u, z : /\ s = (IF dir = "Buy" THEN "long" ELSE "short")
                            /\ lim = InstrLimit(i) /\ u = instr[i] /\ z = v
    OBVIOUS
  <2>2. PICK t, x, y : t = Opposite(s) /\ x = u.side[s] /\ y = u.side[t]
    OBVIOUS
  <2>3. s \in Sides /\ t \in Sides
    BY <2>1, <2>2 DEF Sides, Opposite
  <2>4. x \in SideType /\ y \in SideType /\ z \in Int /\ lim[s] \in Int
    <3>1. instr[i] \in GoodVol
      BY DEF Parts, MemOK
    <3>2. lim \in [long: Nat, short: Nat, net: Nat]
      BY <2>1, LimitAssumption
    <3>3. lim[s] \in Nat
      BY <2>1, <3>2
    <3> QED
      BY <2>1, <2>2, <2>3, <3>1, <3>3, AccountAssumption DEF GoodVol, VolType
  <2>5. \/ o = "CloseYesterday" /\ y.yd - y.yd_cls_ing >= z
        \/ o = "Open" /\ lim[s] - x.pos - x.td_opn_ing >= z
        \/ o = "CloseToday" /\ y.td - y.td_cls_ing >= z
    BY <2>1, <2>2 DEF ParseAutoOffset
  <2>6. SideOf(dir, o) = IF o = "Open" THEN s ELSE t
    BY <2>1, <2>2, <2>5 DEF SideOf, Opposite, Dirs
  <2>7. Available(i, dir, o, v)
    BY <2>1, <2>2, <2>5, <2>6 DEF Available
  <2>8. o = "Open" => x.pos + x.td_opn_ing + z <= lim[s]
    <3>1. PICK p, n, l : p = x.pos /\ n = x.td_opn_ing /\ l = lim[s]
      OBVIOUS
    <3>2. p \in Int /\ n \in Int /\ l \in Int
      BY <2>4, <3>1 DEF SideType
    <3> QED
      BY <2>4, <2>5, <3>1, <3>2
  <2>9. IsVolumeCorrect(instr[i], InstrLimit(i), dir, o, v)
    BY <2>1, <2>2, <2>6, <2>8 DEF IsVolumeCorrect
  <2> QED
    BY <2>7, <2>9
<1>2. Known => Parts
  BY DEF Known
<1> QED
  BY <1>1, <1>2, KnownAlways, PTL

-----------------------------------------------------------------------------
(***************************************************************************)
(* The number of open orders                                               *)
(***************************************************************************)
OpenOrders == {r \in DOMAIN track : front[r].open}

(* A running engine knows it, *)
LEMMA UnfilledIsOpen ==
  ASSUME Known, up = "up"
  PROVE  unfilled = Cardinality(OpenOrders) /\ IsFiniteSet(OpenOrders)
<1>1. FrozenMatchesOrders
  BY FrozenFromShares DEF Known, ShareInv
<1>2. unfilled = Cardinality({r \in DOMAIN track : Left(track[r]) > 0})
  BY <1>1 DEF FrozenMatchesOrders, Known, NothingMissed
<1>3. \A r \in DOMAIN track : Left(track[r]) > 0 <=> front[r].open
  <2>1. ASSUME NEW r \in DOMAIN track
        PROVE  Left(track[r]) > 0 <=> front[r].open
    <3>1. /\ track[r] \in OrderType /\ front[r] \in FrontType
          /\ Fits(track[r], front[r]) /\ Exact(track[r], front[r])
      BY OrderFacts DEF Known, ShareInv, NothingMissed
    <3>2. PICK o, f : o = track[r] /\ f = front[r]
      OBVIOUS
    <3>3. o \in OrderType /\ f \in FrontType /\ Fits(o, f) /\ Exact(o, f)
      BY <3>1, <3>2
    <3>4. Left(o) > 0 <=> f.open
      BY <3>3, LeftIsShare
    <3> QED
      BY <3>2, <3>4
  <2> QED
    BY <2>1
<1>4. {r \in DOMAIN track : Left(track[r]) > 0} = OpenOrders
  BY <1>3 DEF OpenOrders
<1>5. IsFiniteSet(OpenOrders)
  <2>1. IsFiniteSet(1 .. Len(track)) /\ OpenOrders \subseteq 1 .. Len(track)
    BY FS_Interval DEF OpenOrders, Known, Parts, OrdersOK
  <2> QED
    BY <2>1, FS_Subset
<1> QED
  BY <1>2, <1>4, <1>5

(* so that one more is let through only if there is room. *)
LEMMA UnfilledSend ==
  ASSUME Known, UnfilledBounded, NEW i, NEW dir, NEW off, NEW p, NEW v, NEW q,
         Send(i, dir, off, p, v, q)
  PROVE  UnfilledBounded'
<1>1. /\ track \in Seq(OrderType) /\ front \in Seq(FrontType) /\ Len(front) = Len(track)
  BY DEF Known, Parts, OrdersOK
<1>2. PICK t : /\ track' = Append(track, t)
               /\ front' = Append(front, [traded |-> 0, open |-> TRUE])
               /\ unfilled < MaxUnfilled /\ up = "up"
  BY DEF Send, NewOrder, Check, RiskAccCheck
<1>3. unfilled = Cardinality(OpenOrders) /\ IsFiniteSet(OpenOrders)
  BY <1>2, UnfilledIsOpen
<1>4. PICK n \in Nat : n = Len(track)
  BY <1>1
<1>5. /\ DOMAIN track = 1 .. n /\ DOMAIN track' = 1 .. n + 1
      /\ \A r \in 1 .. n : front'[r] = front[r]
      /\ front'[n + 1].open
  <2>1. DOMAIN track = 1 .. n /\ DOMAIN track' = 1 .. n + 1
    BY <1>1, <1>2, <1>4
  <2>2. (\A r \in 1 .. n : front'[r] = front[r]) /\ front'[n + 1].open
    BY <1>1, <1>2, <1>4
  <2> QED
    BY <2>1, <2>2
<1>6. {r \in DOMAIN track' : front'[r].open} = OpenOrders \cup {n + 1}
  <2>1. \A r \in 1 .. n + 1 : r \in 1 .. n \/ r = n + 1
    OBVIOUS
  <2>2. n + 1 \in 1 .. n + 1 /\ 1 .. n \subseteq 1 .. n + 1
    OBVIOUS
  <2> QED
    BY <1>5, <2>1, <2>2 DEF OpenOrders
<1>7. n + 1 \notin OpenOrders
  BY <1>5 DEF OpenOrders
<1>8. Cardinality(OpenOrders \cup {n + 1}) = Cardinality(OpenOrders) + 1
  BY <1>3, <1>7, FS_AddElement
<1>9. Cardinality(OpenOrders) \in Nat
  BY <1>3, FS_CardinalityType
<1>10. Cardinality(OpenOrders \cup {n + 1}) <= MaxUnfilled
  BY <1>2, <1>3, <1>8, <1>9, RiskAssumption
<1> QED
  BY <1>6, <1>10 DEF UnfilledBounded

(* No other step opens an order. *)
LEMMA UnfilledFewer ==
  ASSUME Known, UnfilledBounded,
         {r \in DOMAIN track' : front'[r].open} \subseteq OpenOrders
  PROVE  UnfilledBounded'
<1>1. IsFiniteSet(OpenOrders)
  <2>1. IsFiniteSet(1 .. Len(track)) /\ OpenOrders \subseteq 1 .. Len(track)
    BY FS_Interval DEF OpenOrders, Known, Parts, OrdersOK
  <2> QED
    BY <2>1, FS_Subset
<1>2. PICK S : S = {r \in DOMAIN track' : front'[r].open}
  OBVIOUS
<1>3. /\ Cardinality(S) <= Cardinality(OpenOrders)
      /\ Cardinality(S) \in Nat /\ Cardinality(OpenOrders) \in Nat
  BY <1>1, <1>2, FS_Subset, FS_CardinalityType
<1>4. Cardinality(OpenOrders) <= MaxUnfilled
  BY DEF UnfilledBounded, OpenOrders
<1> QED
  BY <1>2, <1>3, <1>4, RiskAssumption DEF UnfilledBounded

-----------------------------------------------------------------------------
(***************************************************************************)
(* What the limits are on                                                  *)
(***************************************************************************)
(* A limit is on the position of a side and what is being opened of it, or *)
(* on what there is of one side more than of the other when everything     *)
(* under way in one direction has traded.                                  *)
Ways == Sides \cup Dirs
Limit(lim, w) == IF w \in Sides THEN lim[w] ELSE lim.net

(* The counters of an entry of the account, and what the front has.        *)
UnitOf(u) == [s \in Sides |-> [c \in Counters |-> Counter(u.side[s], c)]]
FrontUnit(i) ==
  [s \in Sides |-> [c \in Counters |->
     IF c = "pos" THEN held[i][s]
     ELSE Shares("ing", i, s, c, track, front, Len(track))]]
UnitType == [Sides -> [Counters -> Int]]

SideWay(w) == IF w = "Buy" THEN "long" ELSE "short"
Net(x, y) == x["pos"] - y["pos"] + x["Open"] + y["CloseYesterday"] + y["CloseToday"]
Amount(m, w) == IF w \in Sides THEN m[w]["pos"] + m[w]["Open"]
                ELSE Net(m[SideWay(w)], m[Opposite(SideWay(w))])

(* What an operation of volumes d, under way, and t, traded, does to it.   *)
Change(dir, off, w, d, t) ==
  IF w \in Sides
  THEN IF w # SideOf(dir, off) THEN 0 ELSE IF off = "Open" THEN d + t ELSE -t
  ELSE IF w = dir THEN d + t ELSE -t

LEMMA UnitTyped ==
  ASSUME NEW u \in GoodVol
  PROVE  UnitOf(u) \in UnitType
<1>1. ASSUME NEW s \in Sides, NEW c \in Counters
      PROVE  Counter(u.side[s], c) \in Int
  <2>1. u.side[s] \in SideType
    BY DEF GoodVol, VolType
  <2> QED
    BY <2>1, SideInts DEF Counter, Counters
<1> QED
  BY <1>1 DEF UnitOf, UnitType

LEMMA AmountTyped ==
  ASSUME NEW m \in UnitType, NEW w \in Ways
  PROVE  Amount(m, w) \in Int
<1>1. \A s \in Sides, c \in Counters : m[s][c] \in Int
  BY DEF UnitType
<1>2. /\ "pos" \in Counters /\ "Open" \in Counters
      /\ "CloseYesterday" \in Counters /\ "CloseToday" \in Counters
  BY DEF Counters, Offs
<1>3. SideWay(w) \in Sides /\ Opposite(SideWay(w)) \in Sides
  BY DEF SideWay, Opposite, Sides
<1> QED
  BY <1>1, <1>2, <1>3 DEF Amount, Net

(* One side moves, and the other stays. *)
LEMMA AmountChanges ==
  ASSUME NEW m \in UnitType, NEW k \in UnitType, NEW dir \in Dirs, NEW off \in Offs,
         NEW d \in Int, NEW t \in Int, NEW s, s = SideOf(dir, off),
         k[Opposite(s)] = m[Opposite(s)],
         k[s]["pos"] = m[s]["pos"] + Opened(off, t),
         k[s]["Open"] = m[s]["Open"] + (IF off = "Open" THEN d ELSE 0),
         k[s]["CloseYesterday"]
           = m[s]["CloseYesterday"] + (IF off = "CloseYesterday" THEN d ELSE 0),
         k[s]["CloseToday"]
           = m[s]["CloseToday"] + (IF off = "CloseToday" THEN d ELSE 0),
         NEW w \in Ways
  PROVE  Amount(k, w) = Amount(m, w) + Change(dir, off, w, d, t)
<1>1. PICK o : o = Opposite(s)
  OBVIOUS
<1>2. s \in Sides /\ o \in Sides /\ o # s /\ \A x \in Sides : x = s \/ x = o
  BY <1>1, SideOfType DEF Sides, Opposite
<1>3. PICK p, a, y, c : /\ p = m[s]["pos"] /\ a = m[s]["Open"]
                        /\ y = m[s]["CloseYesterday"] /\ c = m[s]["CloseToday"]
  OBVIOUS
<1>4. PICK p2, a2, y2, c2 : /\ p2 = m[o]["pos"] /\ a2 = m[o]["Open"]
                            /\ y2 = m[o]["CloseYesterday"] /\ c2 = m[o]["CloseToday"]
  OBVIOUS
<1>5. /\ p \in Int /\ a \in Int /\ y \in Int /\ c \in Int
      /\ p2 \in Int /\ a2 \in Int /\ y2 \in Int /\ c2 \in Int
  BY <1>2, <1>3, <1>4 DEF UnitType, Counters, Offs
<1>6. /\ k[s]["pos"] = p + Opened(off, t)
      /\ k[s]["Open"] = a + (IF off = "Open" THEN d ELSE 0)
      /\ k[s]["CloseYesterday"] = y + (IF off = "CloseYesterday" THEN d ELSE 0)
      /\ k[s]["CloseToday"] = c + (IF off = "CloseToday" THEN d ELSE 0)
      /\ k[o]["pos"] = p2 /\ k[o]["Open"] = a2
      /\ k[o]["CloseYesterday"] = y2 /\ k[o]["CloseToday"] = c2
  BY <1>1, <1>3, <1>4
<1>7. CASE w = s
  <2>1. w \in Sides /\ Amount(m, w) = p + a /\ Amount(k, w) = k[s]["pos"] + k[s]["Open"]
    BY <1>2, <1>3, <1>7 DEF Amount
  <2> QED
    BY <1>5, <1>6, <1>7, <2>1 DEF Change, Opened
<1>8. CASE w = o
  <2>1. w \in Sides /\ Amount(m, w) = p2 + a2 /\ Amount(k, w) = p2 + a2
    BY <1>2, <1>4, <1>6, <1>8 DEF Amount
  <2> QED
    BY <1>2, <1>5, <1>8, <2>1 DEF Change
<1>9. CASE w \in Dirs
  <2>1. w \notin Sides /\ SideWay(w) \in Sides
    BY <1>9 DEF Dirs, Sides, SideWay
  <2>2. CASE SideWay(w) = s
    <3>1. /\ Amount(m, w) = p - p2 + a + y2 + c2
          /\ Amount(k, w) = k[s]["pos"] - p2 + k[s]["Open"] + y2 + c2
      BY <1>1, <1>3, <1>4, <1>6, <2>1, <2>2 DEF Amount, Net
    <3>2. off = "Open" <=> w = dir
      BY <1>9, <2>2 DEF SideWay, SideOf, Dirs, Offs
    <3> QED
      BY <1>5, <1>6, <2>1, <3>1, <3>2 DEF Change, Opened
  <2>3. CASE SideWay(w) = o
    <3>1. Opposite(o) = s
      BY <1>1, <1>2 DEF Sides, Opposite
    <3>2. /\ Amount(m, w) = p2 - p + a2 + y + c
          /\ Amount(k, w) = p2 - k[s]["pos"] + a2 + k[s]["CloseYesterday"]
                              + k[s]["CloseToday"]
      BY <1>3, <1>4, <1>6, <2>1, <2>3, <3>1 DEF Amount, Net
    <3>3. off # "Open" <=> w = dir
      BY <1>1, <1>9, <2>3 DEF SideWay, SideOf, Dirs, Offs, Opposite
    <3>4. off \in {"Open", "CloseYesterday", "CloseToday"}
      BY DEF Offs
    <3> QED
      BY <1>5, <1>6, <2>1, <3>2, <3>3, <3>4 DEF Change, Opened
  <2> QED
    BY <1>2, <2>1, <2>2, <2>3
<1> QED
  BY <1>2, <1>7, <1>8, <1>9 DEF Ways

(* An operation on the account, for its instrument and for the others *)
LEMMA AmountMoves ==
  ASSUME NEW a \in AccType, NEW b \in AccType, NEW o \in OrderType,
         NEW d \in Int, NEW t \in Int, AccMoves(a, b, o, d, t),
         NEW i \in Instrs, NEW w \in Ways
  PROVE  Amount(UnitOf(b.instr[i]), w)
           = Amount(UnitOf(a.instr[i]), w)
               + (IF i = o.instr THEN Change(o.dir, o.off, w, d, t) ELSE 0)
<1>1. PICK m, k : m = UnitOf(a.instr[i]) /\ k = UnitOf(b.instr[i])
  OBVIOUS
<1>2. m \in UnitType /\ k \in UnitType
  BY <1>1, UnitTyped DEF AccType
<1>3. PICK dir, off, s : dir = o.dir /\ off = o.off /\ s = SideOf(dir, off)
  OBVIOUS
<1>4. dir \in Dirs /\ off \in Offs /\ s \in Sides /\ Opposite(s) \in Sides /\ Opposite(s) # s
  BY <1>3, SideOfType DEF OrderType, Opposite, Sides
<1>5. Amount(m, w) \in Int
  BY <1>2, AmountTyped
<1>6. \A x \in Sides : ~Own(o, i, x) => k[x] = m[x]
  <2>1. ASSUME NEW x \in Sides, ~Own(o, i, x)
        PROVE  k[x] = m[x]
    <3>1. b.instr[i].side[x] = a.instr[i].side[x]
      BY <2>1 DEF AccMoves
    <3> QED
      BY <1>1, <3>1 DEF UnitOf
  <2> QED
    BY <2>1
<1>7. CASE i # o.instr
  <2>1. \A x \in Sides : k[x] = m[x]
    BY <1>6, <1>7 DEF Own
  <2>2. k = m
    BY <1>2, <2>1 DEF UnitType
  <2> QED
    BY <1>1, <1>5, <1>7, <2>2
<1>8. CASE i = o.instr
  <2>1. k[Opposite(s)] = m[Opposite(s)]
    BY <1>3, <1>4, <1>6 DEF Own
  <2>2. PICK x, y : x = a.instr[i].side[s] /\ y = b.instr[i].side[s]
    OBVIOUS
  <2>3. x \in SideType /\ y \in SideType
    BY <1>4, <2>2, AccSides
  <2>4. Moves(x, y, off, d, t)
    BY <1>3, <1>4, <1>8, <2>2 DEF AccMoves, Own
  <2>5. \A c \in Counters : k[s][c] = Counter(y, c) /\ m[s][c] = Counter(x, c)
    BY <1>1, <1>4, <2>2 DEF UnitOf
  <2>6. \A c \in Counters :
          k[s][c] = m[s][c] + (IF c = "pos" THEN Opened(off, t)
                               ELSE IF c = off THEN d ELSE 0)
    BY <1>4, <2>3, <2>4, <2>5, CounterMoves
  <2>7. /\ k[s]["pos"] = m[s]["pos"] + Opened(off, t)
        /\ k[s]["Open"] = m[s]["Open"] + (IF off = "Open" THEN d ELSE 0)
        /\ k[s]["CloseYesterday"]
             = m[s]["CloseYesterday"] + (IF off = "CloseYesterday" THEN d ELSE 0)
        /\ k[s]["CloseToday"]
             = m[s]["CloseToday"] + (IF off = "CloseToday" THEN d ELSE 0)
    BY <2>6 DEF Counters, Offs
  <2>8. Amount(k, w) = Amount(m, w) + Change(dir, off, w, d, t)
    BY <1>2, <1>3, <1>4, <2>1, <2>7, AmountChanges
  <2> QED
    BY <1>1, <1>3, <1>8, <2>8
<1> QED
  BY <1>7, <1>8

(* A running engine has the counters of the front. *)
FrontIsMem == \A i \in Instrs : FrontUnit(i) = UnitOf(instr[i])
Running == up = "up"

LEMMA RunningAgrees == Known /\ Running => FrontIsMem
<1> SUFFICES ASSUME Known, up = "up", NEW i \in Instrs
             PROVE  FrontUnit(i) = UnitOf(instr[i])
  BY DEF FrontIsMem, Running
<1>1. Parts /\ SharesOK /\ missed = 0
  BY DEF Known, ShareInv, NothingMissed
<1>2. ASSUME NEW s \in Sides, NEW c \in Counters
      PROVE  (IF c = "pos" THEN held[i][s]
              ELSE Shares("ing", i, s, c, track, front, Len(track)))
               = Counter(instr[i].side[s], c)
  <2>1. CASE c = "pos"
    BY <1>1, <2>1, PosIsHeld DEF Counter
  <2>2. CASE c # "pos"
    <3>1. c \in Offs /\ Told = Len(track)
      BY <2>2 DEF Counters, Told
    <3>2. IngAgrees(Now, track, front, Len(track), missed = 0, i, s)
      BY <1>1, <3>1 DEF SharesOK, AccAgrees
    <3>3. Ing(instr[i].side[s], c) = Shares("ing", i, s, c, track, front, Len(track))
      BY <1>1, <3>1, <3>2 DEF IngAgrees, Now, Account
    <3> QED
      BY <2>2, <3>3 DEF Counter
  <2> QED
    BY <2>1, <2>2
<1> QED
  BY <1>2 DEF FrontUnit, UnitOf

LEMMA RunningAgreesNext == Known' /\ Running' => FrontIsMem'
BY RunningAgrees, PTL

(* The amount of several instruments is that of the sums of their counters. *)
LEMMA SumOfAmounts ==
  ASSUME NEW S, IsFiniteSet(S), NEW m, \A i \in S : m[i] \in UnitType,
         NEW all \in UnitType,
         \A s \in Sides, c \in Counters :
           all[s][c] = SumFunctionOnSet([i \in S |-> m[i][s][c]], S),
         NEW w \in Ways
  PROVE  SumFunctionOnSet([i \in S |-> Amount(m[i], w)], S) = Amount(all, w)
<1> DEFINE F(s, c) == [i \in S |-> m[i][s][c]]
<1>1. ASSUME NEW s \in Sides, NEW c \in Counters
      PROVE  /\ \A i \in S : F(s, c)[i] = m[i][s][c] /\ m[i][s][c] \in Int
             /\ SumFunctionOnSet(F(s, c), S) = all[s][c] /\ all[s][c] \in Int
  BY DEF UnitType
<1> HIDE DEF F
<1>2. /\ "pos" \in Counters /\ "Open" \in Counters
      /\ "CloseYesterday" \in Counters /\ "CloseToday" \in Counters
  BY DEF Counters, Offs
<1>3. PICK A : A = [i \in S |-> Amount(m[i], w)]
  OBVIOUS
<1>4. CASE w \in Sides
  <2>1. PICK f, g : f = F(w, "pos") /\ g = F(w, "Open")
    OBVIOUS
  <2>2. \A i \in S : f[i] \in Int /\ g[i] \in Int /\ A[i] = f[i] + g[i]
    BY <1>1, <1>2, <1>3, <1>4, <2>1 DEF Amount
  <2>3. SumFunctionOnSet(A, S) = SumFunctionOnSet(f, S) + SumFunctionOnSet(g, S)
    BY <2>2, SumPlus
  <2>4. SumFunctionOnSet(f, S) = all[w]["pos"] /\ SumFunctionOnSet(g, S) = all[w]["Open"]
    BY <1>1, <1>2, <1>4, <2>1
  <2> QED
    BY <1>3, <1>4, <2>3, <2>4 DEF Amount
<1>5. CASE w \notin Sides
  <2>1. PICK s, o : s = SideWay(w) /\ o = Opposite(s)
    OBVIOUS
  <2>2. s \in Sides /\ o \in Sides
    BY <2>1 DEF SideWay, Sides, Opposite
  <2>3. PICK p, q, a, y, c : /\ p = F(s, "pos") /\ q = F(o, "pos") /\ a = F(s, "Open")
                             /\ y = F(o, "CloseYesterday") /\ c = F(o, "CloseToday")
    OBVIOUS
  <2>4. \A i \in S : /\ p[i] \in Int /\ q[i] \in Int /\ a[i] \in Int
                     /\ y[i] \in Int /\ c[i] \in Int
                     /\ A[i] = p[i] - q[i] + a[i] + y[i] + c[i]
    <3>1. \A i \in S : A[i] = Net(m[i][s], m[i][o])
      BY <1>3, <1>5, <2>1 DEF Amount
    <3> QED
      BY <1>1, <1>2, <2>2, <2>3, <3>1 DEF Net
  <2>5. PICK f, g, h : /\ f = [i \in S |-> p[i] + a[i]]
                       /\ g = [i \in S |-> y[i] + c[i]]
                       /\ h = [i \in S |-> A[i] + q[i]]
    OBVIOUS
  <2>6. \A i \in S : /\ f[i] \in Int /\ g[i] \in Int /\ A[i] \in Int
                     /\ f[i] = p[i] + a[i] /\ g[i] = y[i] + c[i]
                     /\ h[i] = A[i] + q[i] /\ h[i] = f[i] + g[i]
    <3>1. ASSUME NEW i \in S
          PROVE  /\ f[i] \in Int /\ g[i] \in Int /\ A[i] \in Int
                 /\ f[i] = p[i] + a[i] /\ g[i] = y[i] + c[i]
                 /\ h[i] = A[i] + q[i] /\ h[i] = f[i] + g[i]
      <4>1. f[i] = p[i] + a[i] /\ g[i] = y[i] + c[i] /\ h[i] = A[i] + q[i]
        BY <2>5
      <4> QED
        BY <2>4, <4>1
    <3> QED
      BY <3>1
  <2>7. SumFunctionOnSet(f, S) = SumFunctionOnSet(p, S) + SumFunctionOnSet(a, S)
    BY <2>4, <2>6, SumPlus
  <2>8. SumFunctionOnSet(g, S) = SumFunctionOnSet(y, S) + SumFunctionOnSet(c, S)
    BY <2>4, <2>6, SumPlus
  <2>9. SumFunctionOnSet(h, S) = SumFunctionOnSet(f, S) + SumFunctionOnSet(g, S)
    BY <2>6, SumPlus
  <2>10. SumFunctionOnSet(h, S) = SumFunctionOnSet(A, S) + SumFunctionOnSet(q, S)
    BY <2>4, <2>6, SumPlus
  <2>11. SumFunctionOnSet(A, S) \in Int
    BY <2>6, SumType
  <2>12. /\ SumFunctionOnSet(p, S) = all[s]["pos"] /\ all[s]["pos"] \in Int
         /\ SumFunctionOnSet(q, S) = all[o]["pos"] /\ all[o]["pos"] \in Int
         /\ SumFunctionOnSet(a, S) = all[s]["Open"] /\ all[s]["Open"] \in Int
         /\ SumFunctionOnSet(y, S) = all[o]["CloseYesterday"]
         /\ all[o]["CloseYesterday"] \in Int
         /\ SumFunctionOnSet(c, S) = all[o]["CloseToday"] /\ all[o]["CloseToday"] \in Int
    BY <1>1, <1>2, <2>2, <2>3
  <2>13. SumFunctionOnSet(A, S) = Net(all[s], all[o])
    <3>1. PICK e, z1, z2, z3, z4, z5 :
            /\ e = SumFunctionOnSet(A, S) /\ z1 = all[s]["pos"] /\ z2 = all[o]["pos"]
            /\ z3 = all[s]["Open"] /\ z4 = all[o]["CloseYesterday"]
            /\ z5 = all[o]["CloseToday"]
      OBVIOUS
    <3>2. /\ e \in Int /\ z1 \in Int /\ z2 \in Int /\ z3 \in Int /\ z4 \in Int /\ z5 \in Int
      BY <2>11, <2>12, <3>1
    <3>3. (z1 + z3) + (z4 + z5) = e + z2
      BY <2>7, <2>8, <2>9, <2>10, <2>12, <3>1
    <3>4. e = z1 - z2 + z3 + z4 + z5
      BY <3>2, <3>3
    <3> QED
      BY <3>1, <3>4 DEF Net
  <2> QED
    BY <1>3, <1>5, <2>1, <2>13 DEF Amount
<1> QED
  BY <1>4, <1>5

-----------------------------------------------------------------------------
(***************************************************************************)
(* The limits                                                              *)
(***************************************************************************)
OfP(p) == {i \in Instrs : PrdOf[i] = p}
LimitType == [long: Nat, short: Nat, net: Nat]

Total(S, w) == SumFunctionOnSet([i \in S |-> Amount(FrontUnit(i), w)], S)
GroupOK(S, lim) == \A w \in Ways : Total(S, w) <= Limit(lim, w)

(* What the checks keep: the limits hold even if everything under way in   *)
(* one direction trades, unless an order was compared with freed memory.   *)
GroupsOK ==
  /\ \A i \in Instrs \ misread : GroupOK({i}, InstrLimit(i))
  /\ \A p \in Prds \ misread : GroupOK(OfP(p), PrdLimit(p))

LEMMA LimitTyped ==
  ASSUME NEW lim \in LimitType, NEW w \in Ways
  PROVE  Limit(lim, w) \in Nat
BY DEF LimitType, Limit, Ways, Sides

LEMMA GroupsTyped ==
  /\ \A i \in Instrs : {i} \subseteq Instrs /\ InstrLimit(i) \in LimitType
  /\ \A p \in Prds : OfP(p) \subseteq Instrs /\ PrdLimit(p) \in LimitType
BY LimitAssumption DEF OfP, LimitType

LEMMA FrontTyped ==
  ASSUME Parts, NEW i \in Instrs
  PROVE  FrontUnit(i) \in UnitType
<1>1. ASSUME NEW s \in Sides, NEW c \in Counters
      PROVE  (IF c = "pos" THEN held[i][s]
              ELSE Shares("ing", i, s, c, track, front, Len(track))) \in Int
  <2>1. held[i][s] \in Int
    BY DEF Parts, OrdersOK, PosType
  <2>2. Shares("ing", i, s, c, track, front, Len(track)) \in Int
    <3>1. Len(track) \in 0 .. Len(track)
      BY DEF Parts, OrdersOK
    <3> QED
      BY <3>1, SharesInt DEF Parts, OrdersOK
  <2> QED
    BY <2>1, <2>2
<1> QED
  BY <1>1 DEF FrontUnit, UnitType

FrontOK == \A i \in Instrs : FrontUnit(i) \in UnitType

LEMMA FrontAlwaysTyped == Parts => FrontOK
BY FrontTyped DEF FrontOK

LEMMA FrontTypedNext == Parts' => FrontOK'
BY FrontAlwaysTyped, PTL

(* A group that takes no more keeps its limits. *)
LEMMA GroupFalls ==
  ASSUME Parts, Parts', NEW S, S \subseteq Instrs, NEW lim \in LimitType,
         \A i \in S, w \in Ways :
           Amount(FrontUnit(i)', w) <= Amount(FrontUnit(i), w),
         GroupOK(S, lim)
  PROVE  GroupOK(S, lim)'
<1>1. SUFFICES ASSUME NEW w \in Ways
               PROVE  Total(S, w)' <= Limit(lim, w)
  BY DEF GroupOK
<1>2. PICK f, g : /\ f = [i \in S |-> Amount(FrontUnit(i), w)]
                  /\ g = [i \in S |-> Amount(FrontUnit(i)', w)]
  OBVIOUS
<1>3. FrontOK /\ FrontOK'
  BY FrontAlwaysTyped, FrontTypedNext
<1>4. \A i \in S : f[i] \in Int /\ g[i] \in Int /\ g[i] <= f[i]
  <2>1. ASSUME NEW i \in S
        PROVE  f[i] \in Int /\ g[i] \in Int /\ g[i] <= f[i]
    <3>1. FrontUnit(i) \in UnitType /\ FrontUnit(i)' \in UnitType
      BY <1>3 DEF FrontOK
    <3> QED
      BY <1>2, <3>1, AmountTyped
  <2> QED
    BY <2>1
<1>5. IsFiniteSet(S)
  BY FS_Subset, AccountAssumption
<1>6. PICK a, b : a = SumFunctionOnSet(f, S) /\ b = SumFunctionOnSet(g, S)
  OBVIOUS
<1>7. b <= a
  BY <1>4, <1>5, <1>6, SumMono
<1>8. a \in Int /\ b \in Int
  BY <1>4, <1>5, <1>6, SumType
<1>9. a <= Limit(lim, w) /\ Limit(lim, w) \in Int
  BY <1>2, <1>6, LimitTyped DEF GroupOK, Total
<1>10. b <= Limit(lim, w)
  BY <1>7, <1>8, <1>9
<1>11. Total(S, w)' = b
  BY <1>2, <1>6 DEF Total
<1> QED
  BY <1>10, <1>11

(* A group with a new order in it keeps them if there was room for it. *)
LEMMA GroupRises ==
  ASSUME Parts, Parts', NEW S, S \subseteq Instrs, NEW lim \in LimitType,
         NEW e \in S, NEW dir, NEW off, NEW v \in Nat,
         \A i \in Instrs, w \in Ways :
           Amount(FrontUnit(i)', w) = Amount(FrontUnit(i), w)
             + (IF i = e THEN Change(dir, off, w, v, 0) ELSE 0),
         \A w \in Ways : Total(S, w) + Change(dir, off, w, v, 0) <= Limit(lim, w)
  PROVE  GroupOK(S, lim)'
<1>1. SUFFICES ASSUME NEW w \in Ways
               PROVE  Total(S, w)' <= Limit(lim, w)
  BY DEF GroupOK
<1>2. PICK f, g : /\ f = [i \in S |-> Amount(FrontUnit(i), w)]
                  /\ g = [i \in S |-> Amount(FrontUnit(i)', w)]
  OBVIOUS
<1>3. FrontOK /\ FrontOK'
  BY FrontAlwaysTyped, FrontTypedNext
<1>4. \A i \in S : f[i] \in Int /\ g[i] \in Int
  <2>1. ASSUME NEW i \in S
        PROVE  f[i] \in Int /\ g[i] \in Int
    <3>1. FrontUnit(i) \in UnitType /\ FrontUnit(i)' \in UnitType
      BY <1>3 DEF FrontOK
    <3> QED
      BY <1>2, <3>1, AmountTyped
  <2> QED
    BY <2>1
<1>5. IsFiniteSet(S)
  BY FS_Subset, AccountAssumption
<1>6. PICK c : c = Change(dir, off, w, v, 0)
  OBVIOUS
<1>7. c \in Int
  BY <1>6 DEF Change
<1>8. \A i \in S : g[i] = f[i] + (IF i = e THEN c ELSE 0)
  BY <1>2, <1>6
<1>9. (\A i \in S : i # e => g[i] = f[i]) /\ g[e] = f[e] + c
  BY <1>4, <1>8
<1>10. PICK a, b : a = SumFunctionOnSet(f, S) /\ b = SumFunctionOnSet(g, S)
  OBVIOUS
<1>11. b = a - f[e] + g[e]
  <2>1. (\A i \in S : f[i] \in Int) /\ g[e] \in Int /\ \A i \in S : i # e => g[i] = f[i]
    BY <1>4, <1>9
  <2> QED
    BY <1>5, <1>10, <2>1, SumChange
<1>12. a \in Int /\ f[e] \in Int /\ g[e] \in Int
  BY <1>4, <1>5, <1>10, SumType
<1>13. b = a + c
  BY <1>7, <1>9, <1>11, <1>12
<1>14. a + c <= Limit(lim, w)
  BY <1>2, <1>6, <1>10 DEF Total
<1>15. Total(S, w)' = b
  BY <1>2, <1>10 DEF Total
<1> QED
  BY <1>13, <1>14, <1>15

(* The checks of an entry of the account leave room for the order. *)
LEMMA ChecksLeaveRoom ==
  ASSUME NEW u \in GoodVol, NEW lim \in LimitType, NEW dir \in Dirs, NEW off \in Offs,
         NEW v \in Nat, IsVolumeCorrect(u, lim, dir, off, v),
         IsNetVolumeCorrect(u, lim, dir, v), NEW w \in Ways,
         Amount(UnitOf(u), w) <= Limit(lim, w)
  PROVE  Amount(UnitOf(u), w) + Change(dir, off, w, v, 0) <= Limit(lim, w)
<1>1. UnitOf(u) \in UnitType /\ Amount(UnitOf(u), w) \in Int /\ Limit(lim, w) \in Int
  BY UnitTyped, AmountTyped, LimitTyped
<1>2. CASE Change(dir, off, w, v, 0) = 0
  BY <1>1, <1>2
<1>3. \A s \in Sides : /\ UnitOf(u)[s]["pos"] = u.side[s].pos
                       /\ UnitOf(u)[s]["Open"] = u.side[s].td_opn_ing
                       /\ UnitOf(u)[s]["CloseYesterday"] = u.side[s].yd_cls_ing
                       /\ UnitOf(u)[s]["CloseToday"] = u.side[s].td_cls_ing
  BY DEF UnitOf, Counters, Counter, Ing, Offs
<1>4. CASE w \in Sides /\ w = SideOf(dir, off) /\ off = "Open"
  <2>1. Change(dir, off, w, v, 0) = v
    BY <1>4 DEF Change
  <2>2. u.side[w].pos + u.side[w].td_opn_ing + v <= lim[w]
    BY <1>4 DEF IsVolumeCorrect
  <2>3. Amount(UnitOf(u), w) = u.side[w].pos + u.side[w].td_opn_ing
    BY <1>3, <1>4 DEF Amount
  <2> QED
    BY <1>4, <2>1, <2>2, <2>3 DEF Limit
<1>5. CASE w \notin Sides /\ w = dir
  <2>1. Change(dir, off, w, v, 0) = v
    BY <1>5 DEF Change
  <2>2. PICK s, o : s = SideWay(dir) /\ o = Opposite(s)
    OBVIOUS
  <2>3. s \in Sides /\ o \in Sides
    BY <2>2 DEF SideWay, Sides, Opposite
  <2>4. u.side[s].pos - u.side[o].pos + u.side[o].yd_cls_ing + u.side[s].td_opn_ing
          + u.side[o].td_cls_ing + v <= lim.net
    BY <2>2 DEF IsNetVolumeCorrect, SideWay
  <2>5. Amount(UnitOf(u), w)
          = u.side[s].pos - u.side[o].pos + u.side[s].td_opn_ing
              + u.side[o].yd_cls_ing + u.side[o].td_cls_ing
    BY <1>3, <1>5, <2>2, <2>3 DEF Amount, Net
  <2>6. PICK p, q, a, y, c : /\ p = u.side[s].pos /\ q = u.side[o].pos
                             /\ a = u.side[s].td_opn_ing
                             /\ y = u.side[o].yd_cls_ing /\ c = u.side[o].td_cls_ing
    OBVIOUS
  <2>7. p \in Int /\ q \in Int /\ a \in Int /\ y \in Int /\ c \in Int
    <3>1. u.side[s] \in SideType /\ u.side[o] \in SideType
      BY <2>3 DEF GoodVol, VolType
    <3> QED
      BY <2>6, <3>1 DEF SideType
  <2>8. p - q + y + a + c + v <= lim.net
    BY <2>4, <2>6
  <2>9. Amount(UnitOf(u), w) = p - q + a + y + c
    BY <2>5, <2>6
  <2>10. PICK net \in Nat : net = lim.net
    BY DEF LimitType
  <2>11. (p - q + a + y + c) + v <= net
    BY <2>7, <2>8, <2>10
  <2>12. Limit(lim, w) = net
    BY <1>5, <2>10 DEF Limit
  <2> QED
    BY <2>1, <2>9, <2>11, <2>12
<1>8. PICK z \in Int : z = 0 /\ -z = 0
  OBVIOUS
<1>6. CASE w \in Sides /\ ~(w = SideOf(dir, off) /\ off = "Open")
  <2>1. Change(dir, off, w, v, z) = 0
    BY <1>6, <1>8 DEF Change
  <2> QED
    BY <1>2, <1>8, <2>1
<1>7. CASE w \notin Sides /\ w # dir
  <2>1. Change(dir, off, w, v, z) = 0
    BY <1>7, <1>8 DEF Change
  <2> QED
    BY <1>2, <1>8, <2>1
<1> QED
  BY <1>4, <1>5, <1>6, <1>7

(* The amounts of a product are in its entry. *)
LEMMA ProductTotal ==
  ASSUME Known, Running, NEW p \in Prds, NEW w \in Ways
  PROVE  Total(OfP(p), w) = Amount(UnitOf(prd[p]), w)
<1>1. PICK S : S = OfP(p)
  OBVIOUS
<1>2. S \subseteq Instrs /\ IsFiniteSet(S) /\ IsFiniteSet(Instrs)
  BY <1>1, FS_Subset, AccountAssumption DEF OfP
<1>3. FrontIsMem
  BY RunningAgrees
<1>4. PICK m : m = [i \in S |-> UnitOf(instr[i])]
  OBVIOUS
<1>5. \A i \in S : m[i] \in UnitType
  BY <1>2, <1>4, UnitTyped DEF Known, Parts, MemOK
<1>6. PICK all : all = UnitOf(prd[p])
  OBVIOUS
<1>7. all \in UnitType
  BY <1>6, UnitTyped DEF Known, Parts, MemOK
<1>8. ASSUME NEW s \in Sides, NEW c \in Counters
      PROVE  all[s][c] = SumFunctionOnSet([i \in S |-> m[i][s][c]], S)
  <2>1. PICK f, g : /\ f = [i \in S |-> m[i][s][c]]
                    /\ g = [i \in Instrs |-> IF PrdOf[i] = p
                                             THEN Counts(instr, c)[i][s] ELSE 0]
    OBVIOUS
  <2>2. \A i \in S : f[i] \in Int
    BY <1>5, <2>1 DEF UnitType
  <2>3. \A i \in S : f[i] = Counts(instr, c)[i][s]
    BY <1>2, <1>4, <2>1 DEF UnitOf, Counts
  <2>4. \A i \in Instrs : g[i] = IF i \in S THEN f[i] ELSE 0
    BY <1>1, <2>1, <2>3 DEF OfP
  <2>5. SumFunctionOnSet(f, S) = SumFunctionOnSet(g, Instrs)
    BY <1>2, <2>2, <2>4, SumRestrict
  <2>6. Counter(prd[p].side[s], c) = SumFunctionOnSet(g, Instrs)
    BY <2>1 DEF Known, ShareInv, PrdsAgree, OfPrd
  <2>7. all[s][c] = Counter(prd[p].side[s], c)
    BY <1>6 DEF UnitOf
  <2> QED
    BY <2>1, <2>5, <2>6, <2>7
<1>9. SumFunctionOnSet([i \in S |-> Amount(m[i], w)], S) = Amount(all, w)
  BY <1>2, <1>5, <1>7, <1>8, SumOfAmounts
<1>10. [i \in S |-> Amount(m[i], w)] = [i \in S |-> Amount(FrontUnit(i), w)]
  BY <1>2, <1>3, <1>4 DEF FrontIsMem
<1> QED
  BY <1>1, <1>6, <1>9, <1>10 DEF Total

LEMMA InstrTotal ==
  ASSUME Known, Running, NEW i \in Instrs, NEW w \in Ways
  PROVE  Total({i}, w) = Amount(UnitOf(instr[i]), w)
<1>1. PICK f, S : S = {i} /\ f = [j \in S |-> Amount(FrontUnit(j), w)]
  OBVIOUS
<1>2. FrontUnit(i) = UnitOf(instr[i]) /\ FrontUnit(i) \in UnitType
  BY RunningAgrees, FrontTyped DEF FrontIsMem, Known
<1>3. f[i] = Amount(FrontUnit(i), w) /\ f[i] \in Int
  BY <1>1, <1>2, AmountTyped
<1>4. IsFiniteSet(S) /\ i \in S /\ \A x \in S : x # i => f[x] = 0
  BY <1>1, FS_Singleton
<1>5. SumFunctionOnSet(f, S) = f[i]
  BY <1>3, <1>4, SumOnly
<1> QED
  BY <1>1, <1>2, <1>3, <1>5 DEF Total

(* An operation on a running account changes what the front has as it      *)
(* changes the account.                                                    *)
LEMMA FrontMoves ==
  ASSUME Known, Known', Running, Running', NEW b \in AccType, Becomes(b),
         NEW o \in OrderType, NEW d \in Int, NEW t \in Int, AccMoves(Now, b, o, d, t)
  PROVE  \A i \in Instrs, w \in Ways :
           /\ Amount(FrontUnit(i), w) \in Int
           /\ Amount(FrontUnit(i)', w) = Amount(FrontUnit(i), w)
                + (IF i = o.instr THEN Change(o.dir, o.off, w, d, t) ELSE 0)
<1>1. FrontIsMem /\ FrontIsMem'
  BY RunningAgrees, RunningAgreesNext
<1>2. PICK a : a = Now
  OBVIOUS
<1>3. a \in AccType /\ AccMoves(a, b, o, d, t)
  BY <1>2, NowGood DEF Known, Parts
<1>4. a.instr = instr /\ b.instr = instr'
  BY <1>2 DEF Now, Account, Becomes
<1>5. ASSUME NEW i \in Instrs, NEW w \in Ways
      PROVE  /\ Amount(FrontUnit(i), w) \in Int
             /\ Amount(FrontUnit(i)', w) = Amount(FrontUnit(i), w)
                  + (IF i = o.instr THEN Change(o.dir, o.off, w, d, t) ELSE 0)
  <2>1. Amount(UnitOf(b.instr[i]), w) = Amount(UnitOf(a.instr[i]), w)
          + (IF i = o.instr THEN Change(o.dir, o.off, w, d, t) ELSE 0)
    BY <1>3, AmountMoves
  <2>2. FrontUnit(i) = UnitOf(a.instr[i])
    BY <1>1, <1>4 DEF FrontIsMem
  <2>3. FrontUnit(i)' = UnitOf(b.instr[i])
    BY <1>1, <1>4 DEF FrontIsMem
  <2>4. UnitOf(a.instr[i]) \in UnitType
    BY <1>3, UnitTyped DEF AccType
  <2>5. Amount(UnitOf(a.instr[i]), w) \in Int
    BY <2>4, AmountTyped
  <2> QED
    BY <2>1, <2>2, <2>3, <2>5
<1> QED
  BY <1>5

LEMMA GroupsSend ==
  ASSUME Known, Known', GroupsOK, NEW i \in Instrs, NEW dir \in Dirs,
         NEW off \in Offs \cup {"Auto", "Close"}, NEW p \in Quotes, NEW v \in 1 .. MaxVol,
         NEW q \in Ticks, Send(i, dir, off, p, v, q)
  PROVE  GroupsOK'
<1>1. PICK o \in OffsetOf(i, dir, off, v) :
        /\ NewOrder(i, dir, o, v) /\ Check(i, dir, o, p, v, q)
        /\ misread' = misread \cup (stale \cap {i, PrdOf[i]})
  BY DEF Send
<1>2. o \in Offs
  BY DEF OffsetOf, ParseAutoOffset, Offs
<1>3. v \in Nat /\ v \in Int
  BY AccountAssumption
<1>4. PICK t : t = [instr |-> i, dir |-> dir, off |-> o, vol |-> v, traded |-> 0,
                    st |-> {"TDSEND"}]
  OBVIOUS
<1>5. /\ t \in OrderType /\ t.instr = i /\ t.dir = dir /\ t.off = o /\ t.vol = v
  BY <1>2, <1>4, AccountAssumption DEF OrderType
<1>6. Becomes(OnNew(Now, t)) /\ Running /\ Running'
  BY <1>1, <1>4 DEF NewOrder, Running
<1>7. PICK b, z : b = OnNew(Now, t) /\ z = 0
  OBVIOUS
<1>8. b \in AccType /\ AccMoves(Now, b, t, v, z) /\ Becomes(b) /\ z \in Int
  BY <1>5, <1>6, <1>7, NowGood, OnNewGood, OnNewMoves DEF Known, Parts
<1>9. \A j \in Instrs, w \in Ways :
        /\ Amount(FrontUnit(j), w) \in Int
        /\ Amount(FrontUnit(j)', w) = Amount(FrontUnit(j), w)
             + (IF j = t.instr THEN Change(t.dir, t.off, w, v, z) ELSE 0)
  BY <1>3, <1>5, <1>6, <1>8, FrontMoves
<1>10. \A j \in Instrs, w \in Ways :
         Amount(FrontUnit(j)', w) = Amount(FrontUnit(j), w)
           + (IF j = i THEN Change(dir, o, w, v, 0) ELSE 0)
  BY <1>5, <1>7, <1>9
<1>11. Parts /\ Parts'
  BY DEF Known
<1>12. ASSUME NEW S, S \subseteq Instrs, NEW lim \in LimitType, GroupOK(S, lim),
              i \notin S
       PROVE  GroupOK(S, lim)'
  <2>1. \A j \in S, w \in Ways : Amount(FrontUnit(j)', w) <= Amount(FrontUnit(j), w)
    <3>1. ASSUME NEW j \in S, NEW w \in Ways
          PROVE  Amount(FrontUnit(j)', w) <= Amount(FrontUnit(j), w)
      <4>1. PICK x : x = Amount(FrontUnit(j), w)
        OBVIOUS
      <4>2. x \in Int /\ Amount(FrontUnit(j)', w) = x + 0
        BY <1>9, <1>10, <1>12, <4>1
      <4> QED
        BY <4>1, <4>2
    <3> QED
      BY <3>1
  <2> QED
    BY <1>11, <1>12, <2>1, GroupFalls
\* the entry u of a group S, with the limits lim, was not in freed memory
<1>13. ASSUME NEW S, S \subseteq Instrs, i \in S, NEW lim \in LimitType, GroupOK(S, lim),
              NEW u \in GoodVol, \A w \in Ways : Total(S, w) = Amount(UnitOf(u), w),
              IsVolumeCorrect(u, lim, dir, o, v), IsNetVolumeCorrect(u, lim, dir, v)
       PROVE  GroupOK(S, lim)'
  <2>1. \A w \in Ways : Total(S, w) + Change(dir, o, w, v, 0) <= Limit(lim, w)
    <3>1. ASSUME NEW w \in Ways
          PROVE  Total(S, w) + Change(dir, o, w, v, 0) <= Limit(lim, w)
      <4>1. Amount(UnitOf(u), w) <= Limit(lim, w)
        BY <1>13 DEF GroupOK
      <4>2. Amount(UnitOf(u), w) + Change(dir, o, w, v, 0) <= Limit(lim, w)
        BY <1>2, <1>3, <1>13, <4>1, ChecksLeaveRoom
      <4> QED
        BY <1>13, <4>2
    <3> QED
      BY <3>1
  <2> QED
    BY <1>3, <1>10, <1>11, <1>13, <2>1, GroupRises
<1>14. ASSUME NEW x \in Instrs \ misread'
       PROVE  GroupOK({x}, InstrLimit(x))'
  <2>1. GroupOK({x}, InstrLimit(x)) /\ {x} \subseteq Instrs /\ InstrLimit(x) \in LimitType
    BY <1>1, <1>14, GroupsTyped DEF GroupsOK
  <2>2. CASE x # i
    BY <1>12, <2>1, <2>2
  <2>3. CASE x = i
    <3>1. i \notin stale
      BY <1>1, <1>14, <2>3
    <3>2. /\ IsVolumeCorrect(instr[i], InstrLimit(i), dir, o, v)
          /\ IsNetVolumeCorrect(instr[i], InstrLimit(i), dir, v)
      BY <1>1, <3>1 DEF Check, RiskInstrCheck
    <3>3. instr[i] \in GoodVol
      BY <1>11 DEF Parts, MemOK
    <3>4. \A w \in Ways : Total({i}, w) = Amount(UnitOf(instr[i]), w)
      BY <1>6, InstrTotal
    <3>5. i \in {i}
      OBVIOUS
    <3> QED
      BY <1>13, <2>1, <2>3, <3>2, <3>3, <3>4, <3>5
  <2> QED
    BY <2>2, <2>3
<1>15. ASSUME NEW x \in Prds \ misread'
       PROVE  GroupOK(OfP(x), PrdLimit(x))'
  <2>1. /\ GroupOK(OfP(x), PrdLimit(x)) /\ OfP(x) \subseteq Instrs
        /\ PrdLimit(x) \in LimitType
    BY <1>1, <1>15, GroupsTyped DEF GroupsOK
  <2>2. i \in OfP(x) <=> PrdOf[i] = x
    BY DEF OfP
  <2>3. CASE x # PrdOf[i]
    BY <1>12, <2>1, <2>2, <2>3
  <2>4. CASE x = PrdOf[i]
    <3>1. x \notin stale
      BY <1>1, <1>15, <2>4
    <3>2. /\ IsVolumeCorrect(prd[x], PrdLimit(x), dir, o, v)
          /\ IsNetVolumeCorrect(prd[x], PrdLimit(x), dir, v)
      BY <1>1, <2>4, <3>1 DEF Check, RiskPrdCheck
    <3>3. prd[x] \in GoodVol
      BY <1>11 DEF Parts, MemOK
    <3>4. \A w \in Ways : Total(OfP(x), w) = Amount(UnitOf(prd[x]), w)
      BY <1>6, ProductTotal
    <3> QED
      BY <1>13, <2>1, <2>2, <2>4, <3>2, <3>3, <3>4
  <2> QED
    BY <2>3, <2>4
<1> QED
  BY <1>14, <1>15 DEF GroupsOK

(* No other step takes more of the limits. *)
LEMMA GroupsFall ==
  ASSUME Known, Known', GroupsOK, misread' = misread,
         \A i \in Instrs, w \in Ways :
           Amount(FrontUnit(i)', w) <= Amount(FrontUnit(i), w)
  PROVE  GroupsOK'
<1>1. ASSUME NEW S, S \subseteq Instrs, NEW lim \in LimitType, GroupOK(S, lim)
      PROVE  GroupOK(S, lim)'
  <2>1. \A i \in S, w \in Ways : Amount(FrontUnit(i)', w) <= Amount(FrontUnit(i), w)
    BY <1>1
  <2> QED
    BY <1>1, <2>1, GroupFalls DEF Known
<1>2. ASSUME NEW x \in Instrs \ misread
      PROVE  GroupOK({x}, InstrLimit(x))'
  BY <1>1, GroupsTyped DEF GroupsOK
<1>3. ASSUME NEW x \in Prds \ misread
      PROVE  GroupOK(OfP(x), PrdLimit(x))'
  BY <1>1, GroupsTyped DEF GroupsOK
<1> QED
  BY <1>2, <1>3 DEF GroupsOK

LEMMA GroupsMove ==
  ASSUME Known, Known', GroupsOK, misread' = misread, Running, Running',
         NEW b \in AccType, Becomes(b), NEW o \in OrderType,
         NEW d \in Int, NEW t \in Int, AccMoves(Now, b, o, d, t), d + t <= 0, t >= 0
  PROVE  GroupsOK'
<1>1. \A i \in Instrs, w \in Ways :
        /\ Amount(FrontUnit(i), w) \in Int
        /\ Amount(FrontUnit(i)', w) = Amount(FrontUnit(i), w)
             + (IF i = o.instr THEN Change(o.dir, o.off, w, d, t) ELSE 0)
  BY FrontMoves
<1>2. ASSUME NEW w \in Ways
      PROVE  /\ Change(o.dir, o.off, w, d, t) \in Int
             /\ Change(o.dir, o.off, w, d, t) <= 0
  BY DEF Change
<1>3. ASSUME NEW i \in Instrs, NEW w \in Ways
      PROVE  Amount(FrontUnit(i)', w) <= Amount(FrontUnit(i), w)
  <2>1. PICK x, y, c : /\ x = Amount(FrontUnit(i), w) /\ y = Amount(FrontUnit(i)', w)
                       /\ c = Change(o.dir, o.off, w, d, t)
    OBVIOUS
  <2>2. x \in Int /\ c \in Int /\ c <= 0 /\ (y = x + c \/ y = x + 0)
    BY <1>1, <1>2, <2>1
  <2> QED
    BY <2>1, <2>2
<1> QED
  BY <1>3, GroupsFall

LEMMA GroupsTrade ==
  ASSUME Known, Known', GroupsOK, NEW r \in DOMAIN track, NEW n \in 1 .. MaxVol,
         RTrade(r, n)
  PROVE  GroupsOK'
<1>1. OnRtnTrade(r, n) /\ misread' = misread /\ Parts /\ Parts'
  BY DEF RTrade, Known
<1>2. PICK o : o = [track[r] EXCEPT !.traded = track[r].traded + n,
                      !.st = @ \cup {"EXECUTION"} \cup
                        (IF track[r].traded + n >= track[r].vol
                         THEN {"CLOSED"} ELSE {})]
  OBVIOUS
<1>3. /\ track' = [track EXCEPT ![r] = o] /\ Becomes(OnTrd(Now, o, n))
      /\ Running /\ Running'
  BY <1>1, <1>2 DEF OnRtnTrade, Running
<1>4. o \in OrderType
  <2>1. track' \in Seq(OrderType) /\ track \in Seq(OrderType)
    BY <1>1 DEF Parts, OrdersOK
  <2>2. r \in DOMAIN track' /\ track'[r] = o
    BY <1>3, <2>1
  <2> QED
    BY <2>1, <2>2
<1>5. n \in Nat /\ n \in Int /\ -n \in Int
  BY AccountAssumption
<1>6. PICK b, d : b = OnTrd(Now, o, n) /\ d = -n
  OBVIOUS
<1>7. b \in AccType /\ AccMoves(Now, b, o, d, n) /\ Becomes(b) /\ d \in Int
  BY <1>1, <1>3, <1>4, <1>5, <1>6, NowGood, OnTrdGood, OnTrdMoves DEF Parts
<1>8. d + n <= 0 /\ n >= 0
  BY <1>5, <1>6
<1> QED
  BY <1>1, <1>3, <1>4, <1>5, <1>7, <1>8, GroupsMove

LEMMA GroupsClosed ==
  ASSUME Known, Known', GroupsOK, NEW r \in DOMAIN track, RCancel(r) \/ RReject(r)
  PROVE  GroupsOK'
<1>1. OnRtnClosed(r) /\ misread' = misread /\ Parts
  BY DEF RCancel, RReject, riskVars, Known
<1>2. PICK o, left : o = track[r] /\ left = track[r].vol - front[r].traded
  OBVIOUS
<1>3. Becomes(OnCxl(Now, o, left)) /\ Running /\ Running'
  BY <1>1, <1>2 DEF OnRtnClosed, Running
<1>4. o \in OrderType /\ left \in Int /\ left >= 0 /\ -left \in Int
  <2>1. o \in OrderType /\ front[r] \in FrontType /\ Fits(o, front[r])
    BY <1>2, <1>3, OrderFacts DEF Known, ShareInv, Running
  <2>2. o.vol \in Int /\ front[r].traded \in Int /\ front[r].traded <= o.vol
    BY <2>1, AccountAssumption DEF OrderType, FrontType, Fits
  <2> QED
    BY <1>2, <2>1, <2>2
<1>5. PICK b, d, z : b = OnCxl(Now, o, left) /\ d = -left /\ z = 0
  OBVIOUS
<1>6. b \in AccType /\ AccMoves(Now, b, o, d, z) /\ Becomes(b) /\ d \in Int /\ z \in Int
  BY <1>1, <1>3, <1>4, <1>5, NowGood, OnCxlGood, OnCxlMoves DEF Parts
<1>7. d + z <= 0 /\ z >= 0
  BY <1>4, <1>5
<1> QED
  BY <1>1, <1>3, <1>4, <1>6, <1>7, GroupsMove

(* The steps that leave the orders alone *)
LEMMA GroupsStay ==
  ASSUME Known, Known', GroupsOK, misread' = misread, UNCHANGED <<held, track, front>>
  PROVE  GroupsOK'
<1>1. ASSUME NEW i \in Instrs, NEW w \in Ways
      PROVE  Amount(FrontUnit(i)', w) <= Amount(FrontUnit(i), w)
  <2>1. FrontUnit(i)' = FrontUnit(i)
    BY DEF FrontUnit
  <2>2. FrontUnit(i) \in UnitType
    BY FrontTyped DEF Known
  <2>3. Amount(FrontUnit(i), w) \in Int
    BY <2>2, AmountTyped
  <2> QED
    BY <2>1, <2>3
<1> QED
  BY <1>1, GroupsFall

(* What the front tells of an order is known, as long as nothing was       *)
(* missed.                                                                 *)
LEMMA StartChangesNothing ==
  ASSUME Known, Start
  PROVE  track' = track /\ UNCHANGED <<front, held>>
<1>1. /\ track' = [r \in DOMAIN track |-> OnRspQryOrder(track[r], front[r])]
      /\ UNCHANGED <<front, held>>
  BY DEF Start
<1>2. track \in Seq(OrderType)
  BY DEF Known, Parts, OrdersOK
<1>3. ASSUME NEW r \in DOMAIN track
      PROVE  OnRspQryOrder(track[r], front[r]) = track[r]
  <2>1. track[r] \in OrderType /\ Exact(track[r], front[r])
    BY <1>2 DEF Known, ShareInv, SharesOK, OrdersFit, NothingMissed
  <2>2. track[r].traded = front[r].traded
    BY <2>1 DEF Exact
  <2> QED
    BY <2>1, <2>2 DEF OnRspQryOrder, OrderType
<1>4. track' = [r \in DOMAIN track |-> track[r]]
  BY <1>1, <1>3
<1>5. track = [r \in DOMAIN track |-> track[r]]
  BY <1>2
<1> QED
  BY <1>1, <1>4, <1>5

(* A day ends when nothing is open. *)
LEMMA GroupsDay ==
  ASSUME Known, Known', GroupsOK, misread' = misread, DayOver, held' = held
  PROVE  GroupsOK'
<1>1. /\ track' = <<>> /\ front' = <<>>
      /\ \A r \in DOMAIN front : ~front[r].open
  BY DEF DayOver
<1>2. PICK n, R : n \in Nat /\ n = Len(track) /\ R = 1 .. n /\ R = DOMAIN front
  <2>1. /\ track \in Seq(OrderType) /\ front \in Seq(FrontType)
        /\ Len(front) = Len(track)
    BY DEF Known, Parts, OrdersOK
  <2>2. Len(track) \in Nat /\ DOMAIN front = 1 .. Len(track)
    BY <2>1
  <2> QED
    BY <2>2
<1>3. ASSUME NEW i \in Instrs, NEW s \in Sides, NEW c \in Counters
      PROVE  FrontUnit(i)'[s][c] = FrontUnit(i)[s][c]
  <2>1. Shares("ing", i, s, c, track, front, n) = 0
    <3>1. PICK f : f = [r \in R |-> Share("ing", i, s, c, track[r], front[r])]
      OBVIOUS
    <3>2. \A r \in R : f[r] = 0
      BY <1>1, <1>2, <3>1 DEF Share
    <3>4. IsFiniteSet(R)
      BY <1>2, FS_Interval
    <3>3. SumFunctionOnSet(f, R) = 0
      BY <3>2, <3>4, SumZero
    <3> QED
      BY <1>2, <3>1, <3>3 DEF Shares
  <2>2. Shares("ing", i, s, c, <<>>, <<>>, 0) = 0
    BY SharesNone
  <2>3. Len(<<>>) = 0
    OBVIOUS
  <2> QED
    BY <1>1, <1>2, <2>1, <2>2, <2>3 DEF FrontUnit
<1>4. FrontOK /\ FrontOK'
  BY FrontAlwaysTyped, FrontTypedNext DEF Known
<1>5. ASSUME NEW i \in Instrs, NEW w \in Ways
      PROVE  Amount(FrontUnit(i)', w) <= Amount(FrontUnit(i), w)
  <2>1. PICK m, k : m = FrontUnit(i) /\ k = FrontUnit(i)'
    OBVIOUS
  <2>2. m \in UnitType /\ k \in UnitType
    BY <1>4, <2>1 DEF FrontOK
  <2>3. \A s \in Sides, c \in Counters : k[s][c] = m[s][c]
    BY <1>3, <2>1
  <2>4. \A s \in Sides : k[s] = m[s]
    BY <2>2, <2>3 DEF UnitType
  <2>5. k = m
    BY <2>2, <2>4 DEF UnitType
  <2>6. Amount(m, w) \in Int
    BY <2>2, AmountTyped
  <2> QED
    BY <2>1, <2>5, <2>6
<1> QED
  BY <1>5, GroupsFall

LEMMA GroupsStep == Known /\ Known' /\ GroupsOK /\ [RNext]_rvars => GroupsOK'
<1> SUFFICES ASSUME Known, Known', GroupsOK, [RNext]_rvars
             PROVE  GroupsOK'
  OBVIOUS
<1>1. ASSUME NEW i \in Instrs, NEW dir \in Dirs, NEW off \in Offs \cup {"Auto", "Close"},
             NEW p \in Quotes, NEW v \in 1 .. MaxVol, NEW q \in Ticks,
             Send(i, dir, off, p, v, q)
      PROVE  GroupsOK'
  BY <1>1, GroupsSend
<1>2. ASSUME NEW r \in DOMAIN track, NEW n \in 1 .. MaxVol, RTrade(r, n)
      PROVE  GroupsOK'
  BY <1>2, GroupsTrade
<1>3. ASSUME NEW r \in DOMAIN track, RCancel(r) \/ RReject(r)
      PROVE  GroupsOK'
  BY <1>3, GroupsClosed
<1>4. CASE RCrash \/ RReplay \/ RListen \/ Wait \/ UNCHANGED rvars
  <2>1. UNCHANGED <<held, track, front, misread>>
    BY <1>4 DEF RCrash, Crash, NewTables, RReplay, Replay, RListen, Listen, Wait, rvars,
       vars, riskVars
  <2> QED
    BY <2>1, GroupsStay
<1>5. CASE RStart
  <2>1. Start /\ misread' = misread
    BY <1>5 DEF RStart, riskVars
  <2> QED
    BY <2>1, StartChangesNothing, GroupsStay
<1>6. CASE RSwitchDay \/ RClose
  <2>1. DayOver /\ held' = held /\ misread' = misread
    BY <1>6 DEF RSwitchDay, SwitchDay, RClose, Close, NewTables
  <2> QED
    BY <2>1, GroupsDay
<1> QED
  BY <1>1, <1>2, <1>3, <1>4, <1>5, <1>6 DEF RNext

LEMMA UnfilledStep == Known /\ UnfilledBounded /\ [RNext]_rvars => UnfilledBounded'
<1> SUFFICES ASSUME Known, UnfilledBounded, [RNext]_rvars
             PROVE  UnfilledBounded'
  OBVIOUS
<1>0. /\ track \in Seq(OrderType) /\ front \in Seq(FrontType) /\ Len(front) = Len(track)
      /\ Parts
  BY DEF Known, Parts, OrdersOK
<1>1. ASSUME NEW i \in Instrs, NEW dir \in Dirs, NEW off \in Offs \cup {"Auto", "Close"},
             NEW p \in Quotes, NEW v \in 1 .. MaxVol, NEW q \in Ticks,
             Send(i, dir, off, p, v, q)
      PROVE  UnfilledBounded'
  BY <1>1, UnfilledSend
<1>2. ASSUME NEW r \in DOMAIN track, NEW n \in 1 .. MaxVol, RTrade(r, n)
      PROVE  UnfilledBounded'
  <2>1. PICK o, f : /\ track' = [track EXCEPT ![r] = o]
                    /\ front' = [front EXCEPT ![r] = f] /\ front[r].open
    BY <1>2, Zenon DEF RTrade, OnRtnTrade, FrontTrades
  <2>2. DOMAIN track' = DOMAIN track /\ r \in DOMAIN front
        /\ \A k \in DOMAIN track : k # r => front'[k] = front[k]
    BY <1>0, <2>1
  <2>3. {k \in DOMAIN track' : front'[k].open} \subseteq OpenOrders
    BY <2>1, <2>2 DEF OpenOrders
  <2> QED
    BY <2>3, UnfilledFewer
<1>3. ASSUME NEW r \in DOMAIN track, RCancel(r) \/ RReject(r)
      PROVE  UnfilledBounded'
  <2>1. /\ track' = [track EXCEPT ![r].st = @ \cup {"CANCELED", "CLOSED"}]
        /\ front' = [front EXCEPT ![r].open = FALSE] /\ front[r].open
    BY <1>3 DEF RCancel, RReject, OnRtnClosed, FrontCancels
  <2>2. DOMAIN track' = DOMAIN track /\ r \in DOMAIN front
        /\ \A k \in DOMAIN track : k # r => front'[k] = front[k]
    BY <1>0, <2>1
  <2>3. {k \in DOMAIN track' : front'[k].open} \subseteq OpenOrders
    BY <2>1, <2>2 DEF OpenOrders
  <2> QED
    BY <2>3, UnfilledFewer
<1>4. CASE RCrash \/ RReplay \/ RListen \/ RStart \/ Wait \/ UNCHANGED rvars
  <2>1. UNCHANGED <<track, front>>
    <3>1. CASE RCrash \/ RReplay \/ RListen \/ Wait \/ UNCHANGED rvars
      BY <3>1 DEF RCrash, Crash, RReplay, Replay, RListen, Listen, Wait, rvars, vars
    <3>2. CASE RStart
      BY <3>2, StartChangesNothing DEF RStart
    <3> QED
      BY <1>4, <3>1, <3>2
  <2> QED
    BY <2>1 DEF UnfilledBounded
<1>5. CASE RSwitchDay \/ RClose
  <2>1. track' = <<>>
    BY <1>5 DEF RSwitchDay, SwitchDay, RClose, Close, DayOver
  <2>2. {k \in DOMAIN track' : front'[k].open} \subseteq OpenOrders
    BY <2>1
  <2> QED
    BY <2>2, UnfilledFewer
<1> QED
  BY <1>1, <1>2, <1>3, <1>4, <1>5 DEF RNext

-----------------------------------------------------------------------------
(***************************************************************************)
(* The limits at the front, order by order                                 *)
(***************************************************************************)
Takes(w, o) == IF w \in Sides THEN o.off = "Open" /\ SideOf(o.dir, o.off) = w
               ELSE o.dir = w
OpenIn(S, w, r) == front[r].open /\ track[r].instr \in S /\ Takes(w, track[r])
LeftOf(r) == track[r].vol - front[r].traded
HeldWay(i, w) == IF w \in Sides THEN held[i][w]
                 ELSE held[i][SideWay(w)] - held[i][Opposite(SideWay(w))]

LEMMA SumOfThree ==
  ASSUME NEW S, IsFiniteSet(S), NEW a, NEW y, NEW c, NEW f,
         \A x \in S : /\ a[x] \in Int /\ y[x] \in Int /\ c[x] \in Int
                     /\ f[x] = a[x] + y[x] + c[x]
  PROVE  SumFunctionOnSet(f, S)
           = (SumFunctionOnSet(a, S) + SumFunctionOnSet(y, S)) + SumFunctionOnSet(c, S)
<1>1. PICK h : h = [x \in S |-> a[x] + y[x]]
  OBVIOUS
<1>2. \A x \in S : h[x] \in Int /\ h[x] = a[x] + y[x] /\ f[x] = h[x] + c[x]
  BY <1>1
<1>3. SumFunctionOnSet(h, S) = SumFunctionOnSet(a, S) + SumFunctionOnSet(y, S)
  BY <1>2, SumPlus
<1>4. SumFunctionOnSet(f, S) = SumFunctionOnSet(h, S) + SumFunctionOnSet(c, S)
  BY <1>2, SumPlus
<1> QED
  BY <1>3, <1>4

(* What is open of one instrument *)
IsOpenOf(f, R, i, w) ==
  /\ R = 1 .. Len(track)
  /\ f = [r \in R |-> IF OpenIn({i}, w, r) THEN LeftOf(r) ELSE 0]

LEMMA AmountSplit ==
  ASSUME Parts, NEW i \in Instrs, NEW w \in Ways, NEW f, NEW R, IsOpenOf(f, R, i, w)
  PROVE  /\ Amount(FrontUnit(i), w) = HeldWay(i, w) + SumFunctionOnSet(f, R)
         /\ HeldWay(i, w) \in Int
<1>0. R = 1 .. Len(track)
      /\ f = [r \in R |-> IF OpenIn({i}, w, r) THEN LeftOf(r) ELSE 0]
  BY DEF IsOpenOf
<1>1. /\ IsFiniteSet(R) /\ track \in Seq(OrderType) /\ front \in Seq(FrontType)
      /\ Len(front) = Len(track) /\ Len(track) \in Nat
  <2>1. /\ track \in Seq(OrderType) /\ front \in Seq(FrontType)
        /\ Len(front) = Len(track)
    BY DEF Parts, OrdersOK
  <2>2. Len(track) \in Nat
    BY <2>1
  <2> QED
    BY <1>0, <2>1, <2>2, FS_Interval
<1>2. ASSUME NEW r \in R
      PROVE  /\ track[r] \in OrderType /\ front[r] \in FrontType /\ LeftOf(r) \in Int
             /\ f[r] \in Int
  <2>1. track[r] \in OrderType /\ front[r] \in FrontType
    BY <1>0, <1>1
  <2>2. LeftOf(r) \in Int
    <3>1. track[r].vol \in Int /\ front[r].traded \in Int
      BY <2>1, AccountAssumption DEF OrderType, FrontType
    <3> QED
      BY <3>1 DEF LeftOf
  <2> QED
    BY <1>0, <2>1, <2>2
<1>3. held[i] \in [Sides -> Int]
  BY DEF Parts, OrdersOK, PosType
<1>4. PICK m : m = FrontUnit(i)
  OBVIOUS
<1>5. /\ \A s \in Sides : m[s]["pos"] = held[i][s]
      /\ \A s \in Sides, c \in Offs :
           m[s][c] = SumFunctionOnSet(
                       [r \in R |-> Share("ing", i, s, c, track[r], front[r])], R)
  BY <1>0, <1>4 DEF FrontUnit, Counters, Offs, Shares
<1>6. ASSUME NEW s \in Sides, NEW c \in Offs, NEW r \in R
      PROVE  /\ Share("ing", i, s, c, track[r], front[r]) \in Int
             /\ Share("ing", i, s, c, track[r], front[r])
                  = IF /\ front[r].open /\ track[r].instr = i
                       /\ SideOf(track[r].dir, track[r].off) = s /\ track[r].off = c
                    THEN LeftOf(r) ELSE 0
  BY <1>2, ShareInt DEF Share, Own, LeftOf
<1>7. CASE w \in Sides
  <2>1. PICK g : g = [r \in R |-> Share("ing", i, w, "Open", track[r], front[r])]
    OBVIOUS
  <2>2. \A r \in R : f[r] = g[r]
    <3>1. ASSUME NEW r \in R
          PROVE  f[r] = g[r]
      <4>1. g[r] = IF /\ front[r].open /\ track[r].instr = i
                      /\ SideOf(track[r].dir, track[r].off) = w /\ track[r].off = "Open"
                   THEN LeftOf(r) ELSE 0
        BY <1>6, <1>7, <2>1 DEF Offs
      <4>2. OpenIn({i}, w, r) <=>
              /\ front[r].open /\ track[r].instr = i
              /\ SideOf(track[r].dir, track[r].off) = w /\ track[r].off = "Open"
        BY <1>7 DEF OpenIn, Takes
      <4> QED
        BY <1>0, <4>1, <4>2
    <3> QED
      BY <3>1
  <2>3. SumFunctionOnSet(f, R) = SumFunctionOnSet(g, R)
    BY <1>1, <2>2, SumSame
  <2>4. m[w]["Open"] = SumFunctionOnSet(g, R) /\ m[w]["pos"] = held[i][w]
    BY <1>5, <1>7, <2>1 DEF Offs
  <2> QED
    BY <1>3, <1>4, <1>7, <2>3, <2>4 DEF Amount, HeldWay
<1>8. CASE w \notin Sides
  <2>1. PICK s, o : s = SideWay(w) /\ o = Opposite(s)
    OBVIOUS
  <2>2. s \in Sides /\ o \in Sides /\ o # s /\ w \in Dirs
    BY <1>8, <2>1 DEF SideWay, Opposite, Sides, Ways
  <2>3. PICK a, y, c : /\ a = [r \in R |-> Share("ing", i, s, "Open", track[r], front[r])]
                       /\ y = [r \in R |-> Share("ing", i, o, "CloseYesterday",
                                                track[r], front[r])]
                       /\ c = [r \in R |-> Share("ing", i, o, "CloseToday",
                                                track[r], front[r])]
    OBVIOUS
  <2>4. ASSUME NEW r \in R
        PROVE  a[r] \in Int /\ y[r] \in Int /\ c[r] \in Int /\ f[r] = a[r] + y[r] + c[r]
    <3>1. PICK dir, off, l, its :
            /\ dir = track[r].dir /\ off = track[r].off /\ l = LeftOf(r)
            /\ its \in BOOLEAN /\ (its <=> front[r].open /\ track[r].instr = i)
      OBVIOUS
    <3>2. dir \in Dirs /\ off \in Offs /\ l \in Int
      BY <1>2, <3>1 DEF OrderType
    <3>3. /\ a[r] = IF its /\ SideOf(dir, off) = s /\ off = "Open" THEN l ELSE 0
          /\ y[r] = IF its /\ SideOf(dir, off) = o /\ off = "CloseYesterday" THEN l ELSE 0
          /\ c[r] = IF its /\ SideOf(dir, off) = o /\ off = "CloseToday" THEN l ELSE 0
      BY <1>6, <2>2, <2>3, <3>1 DEF Offs
    <3>4. f[r] = IF its /\ dir = w THEN l ELSE 0
      <4>1. OpenIn({i}, w, r) <=> its /\ dir = w
        BY <1>8, <3>1 DEF OpenIn, Takes
      <4> QED
        BY <1>0, <3>1, <4>1
    <3>5. /\ SideOf(dir, off) = s /\ off = "Open" <=> dir = w /\ off = "Open"
          /\ SideOf(dir, off) = o /\ off # "Open" <=> dir = w /\ off # "Open"
      BY <2>1, <2>2, <3>2 DEF SideOf, SideWay, Opposite, Dirs
    <3>6. off = "Open" \/ off = "CloseYesterday" \/ off = "CloseToday"
      BY <3>2 DEF Offs
    <3>7. CASE its /\ dir = w
      BY <3>2, <3>3, <3>4, <3>5, <3>6, <3>7
    <3>8. CASE ~(its /\ dir = w)
      <4>1. a[r] = 0 /\ y[r] = 0 /\ c[r] = 0 /\ f[r] = 0
        BY <3>3, <3>4, <3>5, <3>8
      <4> QED
        BY <4>1
    <3> QED
      BY <3>7, <3>8
  <2>8. SumFunctionOnSet(f, R)
          = (SumFunctionOnSet(a, R) + SumFunctionOnSet(y, R)) + SumFunctionOnSet(c, R)
    BY <1>1, <2>4, SumOfThree
  <2>9. PICK sa, sy, sc : /\ sa = SumFunctionOnSet(a, R) /\ sy = SumFunctionOnSet(y, R)
                          /\ sc = SumFunctionOnSet(c, R)
    OBVIOUS
  <2>10. sa \in Int /\ sy \in Int /\ sc \in Int
    BY <1>1, <2>4, <2>9, SumType
  <2>11. /\ m[s]["Open"] = sa /\ m[o]["CloseYesterday"] = sy /\ m[o]["CloseToday"] = sc
         /\ m[s]["pos"] = held[i][s] /\ m[o]["pos"] = held[i][o]
    BY <1>5, <2>2, <2>3, <2>9 DEF Offs
  <2>12. PICK p, q : p = held[i][s] /\ q = held[i][o]
    OBVIOUS
  <2>13. p \in Int /\ q \in Int
    BY <1>3, <2>2, <2>12
  <2>14. Amount(m, w) = p - q + sa + sy + sc
    BY <1>8, <2>1, <2>11, <2>12 DEF Amount, Net
  <2>15. HeldWay(i, w) = p - q
    BY <1>8, <2>1, <2>12 DEF HeldWay
  <2>16. SumFunctionOnSet(f, R) = (sa + sy) + sc
    BY <2>8, <2>9
  <2>17. p - q + sa + sy + sc = (p - q) + ((sa + sy) + sc)
    BY <2>10, <2>13
  <2>18. p - q \in Int
    BY <2>13
  <2> QED
    BY <1>4, <2>14, <2>15, <2>16, <2>17, <2>18
<1> QED
  BY <1>7, <1>8

(* What is open of several *)
OpenOf(S, w) ==
  LET own == {r \in DOMAIN track : OpenIn(S, w, r)}
  IN  SumFunctionOnSet([r \in own |-> LeftOf(r)], own)
HeldOf(S, w) == SumFunctionOnSet([i \in S |-> HeldWay(i, w)], S)

(* The orders by instruments, and the instruments by orders *)
ByInstr(f, g, S, R, opn, of, left) ==
  /\ \A r \in R : left[r] \in Int
  /\ \A i \in S : f[i] = SumFunctionOnSet([r \in R |-> IF opn[r] /\ of[r] = i
                                                       THEN left[r] ELSE 0], R)
  /\ \A r \in R : g[r] = IF opn[r] /\ of[r] \in S THEN left[r] ELSE 0

LEMMA OpenByInstr ==
  ASSUME NEW S, IsFiniteSet(S), NEW R, IsFiniteSet(R), NEW of, NEW left, NEW opn,
         NEW f, NEW g, ByInstr(f, g, S, R, opn, of, left)
  PROVE  SumFunctionOnSet(f, S) = SumFunctionOnSet(g, R)
<1>1. PICK m, c : /\ m = [i \in S |-> [r \in R |-> IF opn[r] /\ of[r] = i
                                                  THEN left[r] ELSE 0]]
                  /\ c = [r \in R |-> [i \in S |-> IF opn[r] /\ of[r] = i
                                                  THEN left[r] ELSE 0]]
  OBVIOUS
<1>2. ASSUME NEW i \in S, NEW r \in R
      PROVE  m[i][r] \in Int /\ c[r][i] = m[i][r]
  BY <1>1 DEF ByInstr
<1>3. \A i \in S : f[i] = SumFunctionOnSet(m[i], R)
  BY <1>1 DEF ByInstr
<1>4. ASSUME NEW r \in R
      PROVE  g[r] = SumFunctionOnSet(c[r], S)
  <2>1. PICK h : h = c[r]
    OBVIOUS
  <2>2. \A i \in S : h[i] = IF opn[r] /\ of[r] = i THEN left[r] ELSE 0
    BY <1>1, <2>1
  <2>3. CASE opn[r] /\ of[r] \in S
    <3>1. PICK e \in S : e = of[r]
      BY <2>3
    <3>2. h[e] = left[r] /\ h[e] \in Int /\ \A x \in S : x # e => h[x] = 0
      BY <2>2, <2>3, <3>1 DEF ByInstr
    <3>3. SumFunctionOnSet(h, S) = h[e]
      BY <3>2, SumOnly
    <3> QED
      BY <2>1, <2>3, <3>2, <3>3 DEF ByInstr
  <2>4. CASE ~(opn[r] /\ of[r] \in S)
    <3>1. \A x \in S : h[x] = 0
      BY <2>2, <2>4
    <3>2. SumFunctionOnSet(h, S) = 0
      BY <3>1, SumZero
    <3> QED
      BY <2>1, <2>4, <3>2 DEF ByInstr
  <2> QED
    BY <2>3, <2>4
<1>5. IsTable(m, c, f, g, S, R)
  BY <1>2, <1>3, <1>4 DEF IsTable
<1> QED
  BY <1>5, SumSwap

LEMMA TotalSplit ==
  ASSUME Parts, NEW S, S \subseteq Instrs, NEW w \in Ways
  PROVE  /\ Total(S, w) = HeldOf(S, w) + OpenOf(S, w)
         /\ HeldOf(S, w) \in Int /\ OpenOf(S, w) \in Int
<1>1. PICK n, R : n = Len(track) /\ R = 1 .. n
  OBVIOUS
<1>2. /\ track \in Seq(OrderType) /\ front \in Seq(FrontType) /\ Len(front) = Len(track)
  BY DEF Parts, OrdersOK
<1>3. R = DOMAIN track /\ n \in Nat
  BY <1>1, <1>2
<1>4. IsFiniteSet(R) /\ IsFiniteSet(S)
  <2>1. IsFiniteSet(1 .. n)
    BY <1>3, FS_Interval
  <2>2. IsFiniteSet(S)
    BY FS_Subset, AccountAssumption
  <2> QED
    BY <1>1, <2>1, <2>2
<1>5. PICK left, of, opn :
        /\ left = [r \in R |-> LeftOf(r)] /\ of = [r \in R |-> track[r].instr]
        /\ opn = [r \in R |-> front[r].open /\ Takes(w, track[r])]
  OBVIOUS
<1>6. ASSUME NEW r \in R
      PROVE  left[r] \in Int
  <2>1. track[r] \in OrderType /\ front[r] \in FrontType
    BY <1>1, <1>2
  <2>2. track[r].vol \in Int /\ front[r].traded \in Int
    BY <2>1, AccountAssumption DEF OrderType, FrontType
  <2> QED
    BY <1>5, <2>2 DEF LeftOf
<1>7. PICK a, h, f, g :
        /\ a = [i \in S |-> Amount(FrontUnit(i), w)]
        /\ h = [i \in S |-> HeldWay(i, w)]
        /\ f = [i \in S |-> SumFunctionOnSet([r \in R |-> IF opn[r] /\ of[r] = i
                                                         THEN left[r] ELSE 0], R)]
        /\ g = [r \in R |-> IF opn[r] /\ of[r] \in S THEN left[r] ELSE 0]
  OBVIOUS
<1>8. ASSUME NEW i \in S
      PROVE  h[i] \in Int /\ f[i] \in Int /\ a[i] = h[i] + f[i]
  <2>1. PICK x, y : /\ x = [r \in R |-> IF OpenIn({i}, w, r) THEN LeftOf(r) ELSE 0]
                    /\ y = [r \in R |-> IF opn[r] /\ of[r] = i THEN left[r] ELSE 0]
    OBVIOUS
  <2>2. IsOpenOf(x, R, i, w)
    BY <1>1, <2>1 DEF IsOpenOf
  <2>3. /\ Amount(FrontUnit(i), w) = HeldWay(i, w) + SumFunctionOnSet(x, R)
        /\ HeldWay(i, w) \in Int
    BY <2>2, AmountSplit
  <2>4. \A r \in R : x[r] = y[r] /\ y[r] \in Int
    <3>1. ASSUME NEW r \in R
          PROVE  x[r] = y[r] /\ y[r] \in Int
      <4>1. OpenIn({i}, w, r) <=> opn[r] /\ of[r] = i
        BY <1>5 DEF OpenIn
      <4>2. left[r] = LeftOf(r) /\ left[r] \in Int
        BY <1>5, <1>6
      <4> QED
        BY <2>1, <4>1, <4>2
    <3> QED
      BY <3>1
  <2>5. SumFunctionOnSet(x, R) = SumFunctionOnSet(y, R) /\ SumFunctionOnSet(y, R) \in Int
    BY <1>4, <2>4, SumSame, SumType
  <2>6. a[i] = Amount(FrontUnit(i), w) /\ h[i] = HeldWay(i, w) /\ f[i] = SumFunctionOnSet(y, R)
    BY <1>7, <2>1
  <2> QED
    BY <2>3, <2>5, <2>6
<1>9. SumFunctionOnSet(a, S) = SumFunctionOnSet(h, S) + SumFunctionOnSet(f, S)
  BY <1>4, <1>8, SumPlus
<1>10. SumFunctionOnSet(f, S) = SumFunctionOnSet(g, R)
  <2>1. \A i \in S : f[i] = SumFunctionOnSet([r \in R |-> IF opn[r] /\ of[r] = i
                                                         THEN left[r] ELSE 0], R)
    BY <1>7
  <2>2. \A r \in R : g[r] = IF opn[r] /\ of[r] \in S THEN left[r] ELSE 0
    BY <1>7
  <2>3. \A r \in R : left[r] \in Int
    BY <1>6
  <2> QED
    <3>1. ByInstr(f, g, S, R, opn, of, left)
      BY <2>1, <2>2, <2>3 DEF ByInstr
    <3> QED
      BY <1>4, <3>1, OpenByInstr
<1>11. SumFunctionOnSet(g, R) = OpenOf(S, w)
  <2>1. PICK own, k : own = {r \in R : OpenIn(S, w, r)} /\ k = [r \in own |-> LeftOf(r)]
    OBVIOUS
  <2>2. own \subseteq R /\ \A r \in own : k[r] \in Int
    BY <1>5, <1>6, <2>1
  <2>3. \A r \in R : g[r] = IF r \in own THEN k[r] ELSE 0
    <3>1. ASSUME NEW r \in R
          PROVE  g[r] = IF r \in own THEN k[r] ELSE 0
      <4>1. OpenIn(S, w, r) <=> opn[r] /\ of[r] \in S
        BY <1>5 DEF OpenIn
      <4>2. r \in own <=> OpenIn(S, w, r)
        BY <2>1
      <4>3. r \in own => k[r] = left[r]
        BY <1>5, <2>1
      <4> QED
        BY <1>7, <4>1, <4>2, <4>3
    <3> QED
      BY <3>1
  <2>4. SumFunctionOnSet(k, own) = SumFunctionOnSet(g, R)
    BY <1>4, <2>2, <2>3, SumRestrict
  <2> QED
    BY <1>3, <2>1, <2>4 DEF OpenOf
<1>12. SumFunctionOnSet(h, S) \in Int /\ SumFunctionOnSet(f, S) \in Int
  BY <1>4, <1>8, SumType
<1> QED
  BY <1>7, <1>9, <1>10, <1>11, <1>12 DEF Total, HeldOf

(* So a group that is within its limits is so at the front. *)
LEMMA GroupWithin ==
  ASSUME Parts, NEW S, S \subseteq Instrs, NEW lim \in LimitType, GroupOK(S, lim)
  PROVE  WithinLimits(S, lim)
<1>1. IsFiniteSet(S)
  BY FS_Subset, AccountAssumption
<1>2. ASSUME NEW w \in Ways
      PROVE  HeldOf(S, w) + OpenOf(S, w) <= Limit(lim, w)
  BY <1>2, TotalSplit DEF GroupOK
<1>3. \A i \in S, s \in Sides : held[i][s] \in Int
  BY DEF Parts, OrdersOK, PosType
<1>4. ASSUME NEW s \in Sides
      PROVE  SumFunctionOnSet([i \in S |-> held[i][s]], S)
               + OpenAtFront(LAMBDA o : /\ o.instr \in S /\ o.off = "Open"
                                        /\ SideOf(o.dir, o.off) = s) <= lim[s]
  <2>1. s \in Ways /\ Limit(lim, s) = lim[s]
    BY DEF Ways, Limit
  <2>2. HeldOf(S, s) = SumFunctionOnSet([i \in S |-> held[i][s]], S)
    BY DEF HeldOf, HeldWay
  <2>3. PICK own, oth :
          /\ own = {r \in DOMAIN track : OpenIn(S, s, r)}
          /\ oth = {r \in DOMAIN track :
                      /\ front[r].open
                      /\ /\ track[r].instr \in S /\ track[r].off = "Open"
                         /\ SideOf(track[r].dir, track[r].off) = s}
    OBVIOUS
  <2>4. own = oth
    BY <2>3 DEF OpenIn, Takes
  <2>5. OpenOf(S, s) = SumFunctionOnSet([r \in oth |-> track[r].vol - front[r].traded], oth)
    BY <2>3, <2>4 DEF OpenOf, LeftOf
  <2>6. OpenAtFront(LAMBDA o : /\ o.instr \in S /\ o.off = "Open"
                               /\ SideOf(o.dir, o.off) = s)
          = SumFunctionOnSet([r \in oth |-> track[r].vol - front[r].traded], oth)
    BY <2>3 DEF OpenAtFront
  <2> QED
    BY <1>2, <2>1, <2>2, <2>5, <2>6
<1>5. ASSUME NEW d \in Dirs
      PROVE  /\ HeldOf(S, d) + OpenAtFront(LAMBDA o : o.instr \in S /\ o.dir = d) <= lim.net
             /\ HeldOf(S, d) \in Int
  <2>1. d \in Ways /\ d \notin Sides /\ Limit(lim, d) = lim.net
    BY DEF Ways, Dirs, Sides, Limit
  <2>2. PICK own, oth :
          /\ own = {r \in DOMAIN track : OpenIn(S, d, r)}
          /\ oth = {r \in DOMAIN track :
                      front[r].open /\ (track[r].instr \in S /\ track[r].dir = d)}
    OBVIOUS
  <2>3. own = oth
    BY <2>1, <2>2 DEF OpenIn, Takes
  <2>4. OpenOf(S, d) = SumFunctionOnSet([r \in oth |-> track[r].vol - front[r].traded], oth)
    BY <2>2, <2>3 DEF OpenOf, LeftOf
  <2>5. OpenAtFront(LAMBDA o : o.instr \in S /\ o.dir = d)
          = SumFunctionOnSet([r \in oth |-> track[r].vol - front[r].traded], oth)
    BY <2>2 DEF OpenAtFront
  <2>6. HeldOf(S, d) \in Int
    BY <2>1, TotalSplit
  <2> QED
    BY <1>2, <2>1, <2>4, <2>5, <2>6
<1>6. PICK net : net = SumFunctionOnSet([i \in S |-> held[i]["long"] - held[i]["short"]], S)
  OBVIOUS
<1>7. HeldOf(S, "Buy") = net /\ HeldOf(S, "Sell") = -net /\ net \in Int
  <2>1. PICK f, g, h : /\ f = [i \in S |-> held[i]["long"] - held[i]["short"]]
                       /\ g = [i \in S |-> held[i]["short"] - held[i]["long"]]
                       /\ h = [i \in S |-> 0]
    OBVIOUS
  <2>2. \A i \in S : HeldWay(i, "Buy") = f[i] /\ HeldWay(i, "Sell") = g[i]
    BY <2>1 DEF HeldWay, SideWay, Opposite, Sides
  <2>3. HeldOf(S, "Buy") = SumFunctionOnSet(f, S) /\ HeldOf(S, "Sell") = SumFunctionOnSet(g, S)
    <3>1. [i \in S |-> HeldWay(i, "Buy")] = f /\ [i \in S |-> HeldWay(i, "Sell")] = g
      BY <2>1, <2>2
    <3> QED
      BY <3>1 DEF HeldOf
  <2>4. \A i \in S : f[i] \in Int /\ g[i] \in Int /\ h[i] = f[i] + g[i] /\ h[i] = 0
    <3>1. ASSUME NEW i \in S
          PROVE  f[i] \in Int /\ g[i] \in Int /\ h[i] = f[i] + g[i] /\ h[i] = 0
      <4>1. PICK x, y : x = held[i]["long"] /\ y = held[i]["short"]
        OBVIOUS
      <4>2. x \in Int /\ y \in Int
        BY <1>3, <4>1 DEF Sides
      <4>3. f[i] = x - y /\ g[i] = y - x /\ h[i] = 0
        BY <2>1, <4>1
      <4> QED
        BY <4>2, <4>3
    <3> QED
      BY <3>1
  <2>5. SumFunctionOnSet(h, S) = SumFunctionOnSet(f, S) + SumFunctionOnSet(g, S)
    BY <1>1, <2>4, SumPlus
  <2>6. SumFunctionOnSet(h, S) = 0
    BY <1>1, <2>4, SumZero
  <2>7. SumFunctionOnSet(f, S) \in Int /\ SumFunctionOnSet(g, S) \in Int
    BY <1>1, <2>4, SumType
  <2>8. SumFunctionOnSet(g, S) = -SumFunctionOnSet(f, S)
    BY <2>5, <2>6, <2>7
  <2> QED
    BY <1>6, <2>1, <2>3, <2>7, <2>8
<1>8. /\ net + OpenAtFront(LAMBDA o : o.instr \in S /\ o.dir = "Buy") <= lim.net
      /\ -net + OpenAtFront(LAMBDA o : o.instr \in S /\ o.dir = "Sell") <= lim.net
  BY <1>5, <1>7 DEF Dirs
<1> QED
  BY <1>4, <1>6, <1>8 DEF WithinLimits

-----------------------------------------------------------------------------
(***************************************************************************)
(* The limits hold                                                         *)
(***************************************************************************)
LEMMA GroupsInit == RInit => GroupsOK
<1> SUFFICES ASSUME RInit
             PROVE  GroupsOK
  OBVIOUS
<1>1. track = <<>> /\ front = <<>> /\ held = [i \in Instrs |-> Pos(ZeroVol)]
  BY DEF RInit, Init
<1>2. ASSUME NEW i \in Instrs, NEW s \in Sides, NEW c \in Counters
      PROVE  FrontUnit(i)[s][c] = 0
  <2>1. held[i][s] = 0
    BY <1>1 DEF Pos, ZeroVol, ZeroSide
  <2>2. 1 .. Len(track) = {}
    BY <1>1
  <2>3. Shares("ing", i, s, c, track, front, Len(track)) = 0
    <3>1. Shares("ing", i, s, c, track, front, Len(track))
            = SumFunctionOnSet([r \in {} |-> Share("ing", i, s, c, track[r], front[r])], {})
      BY <2>2 DEF Shares
    <3> QED
      BY <3>1, SumEmpty
  <2> QED
    BY <2>1, <2>3 DEF FrontUnit
<1>3. ASSUME NEW i \in Instrs, NEW w \in Ways
      PROVE  Amount(FrontUnit(i), w) = 0
  <2>1. PICK m : m = FrontUnit(i)
    OBVIOUS
  <2>2. \A s \in Sides : /\ m[s]["pos"] = 0 /\ m[s]["Open"] = 0
                         /\ m[s]["CloseYesterday"] = 0 /\ m[s]["CloseToday"] = 0
    BY <1>2, <2>1 DEF Counters, Offs
  <2>3. CASE w \in Sides
    BY <2>1, <2>2, <2>3 DEF Amount
  <2>4. CASE w \notin Sides
    <3>1. PICK x, y \in Sides : x = SideWay(w) /\ y = Opposite(SideWay(w))
      BY DEF SideWay, Opposite, Sides
    <3>2. Net(m[x], m[y]) = 0
      BY <2>2 DEF Net
    <3> QED
      BY <2>1, <2>4, <3>1, <3>2 DEF Amount
  <2> QED
    BY <2>3, <2>4
<1>4. ASSUME NEW S, S \subseteq Instrs, NEW lim \in LimitType
      PROVE  GroupOK(S, lim)
  <2>1. IsFiniteSet(S)
    BY <1>4, FS_Subset, AccountAssumption
  <2>2. ASSUME NEW w \in Ways
        PROVE  Total(S, w) <= Limit(lim, w)
    <3>1. PICK f : f = [i \in S |-> Amount(FrontUnit(i), w)]
      OBVIOUS
    <3>2. \A i \in S : f[i] = 0
      BY <1>3, <1>4, <3>1
    <3>3. Total(S, w) = 0
      BY <2>1, <3>1, <3>2, SumZero DEF Total
    <3>4. Limit(lim, w) \in Nat
      BY LimitTyped
    <3> QED
      BY <3>3, <3>4
  <2> QED
    BY <2>2 DEF GroupOK
<1> QED
  BY <1>4, GroupsTyped DEF GroupsOK

LEMMA GroupsWithin == Known /\ GroupsOK => InstrWithinLimits /\ PrdWithinLimits
<1> SUFFICES ASSUME Known, GroupsOK
             PROVE  InstrWithinLimits /\ PrdWithinLimits
  OBVIOUS
<1>1. Parts
  BY DEF Known
<1>2. ASSUME NEW i \in Instrs \ misread
      PROVE  WithinLimits({i}, InstrLimit(i))
  <2>1. GroupOK({i}, InstrLimit(i))
    BY DEF GroupsOK
  <2>2. {i} \subseteq Instrs /\ InstrLimit(i) \in LimitType
    BY GroupsTyped
  <2> QED
    BY <1>1, <2>1, <2>2, GroupWithin
<1>3. ASSUME NEW p \in Prds \ misread
      PROVE  WithinLimits({i \in Instrs : PrdOf[i] = p}, PrdLimit(p))
  <2>1. GroupOK(OfP(p), PrdLimit(p))
    BY DEF GroupsOK
  <2>2. OfP(p) \subseteq Instrs /\ PrdLimit(p) \in LimitType
    BY GroupsTyped
  <2>3. WithinLimits(OfP(p), PrdLimit(p))
    BY <1>1, <2>1, <2>2, GroupWithin
  <2> QED
    BY <2>3 DEF OfP
<1> QED
  BY <1>2, <1>3 DEF InstrWithinLimits, PrdWithinLimits

LEMMA UnfilledInit == RInit => UnfilledBounded
<1> SUFFICES ASSUME RInit
             PROVE  UnfilledBounded
  OBVIOUS
<1>1. {r \in DOMAIN track : front[r].open} = {}
  BY DEF RInit, Init
<1> QED
  BY <1>1, FS_EmptySet, RiskAssumption DEF UnfilledBounded

(* Every order passes its checks alone, against the counters of an account *)
(* that is told of trades late; yet for each instrument and each product   *)
(* the position at the front stays within the limits, with everything open *)
(* on one side traded and nothing on the other, and there are never more   *)
(* orders at the front than allowed.                                       *)
THEOREM LimitsAlwaysHold == RSpec => []LimitsHold
<1>1. RInit => GroupsOK /\ UnfilledBounded
  BY GroupsInit, UnfilledInit
<1>2. RSpec => [](GroupsOK /\ UnfilledBounded)
  BY <1>1, GroupsStep, UnfilledStep, KnownAlways, PTL DEF RSpec
<1>3. Known /\ GroupsOK /\ UnfilledBounded => LimitsHold
  BY GroupsWithin DEF LimitsHold
<1> QED
  BY <1>2, <1>3, KnownAlways, PTL
=============================================================================
