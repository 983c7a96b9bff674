-------------------------------- MODULE Bars --------------------------------
(***************************************************************************)
(* The bars of one instrument over a trading day: BarMaker and Bar2, with  *)
(* the loop in which a strategy fetches finished bars (CStrategy).  Times  *)
(* are seconds since 18:00, when a trading day begins; they are the real   *)
(* trading times of the products.  Turnover, open interest and the changes *)
(* of price and open interest move with the volume and are left out.  A    *)
(* price is never 0: 0 says that a bar has none yet.  Exchange times do    *)
(* not go back.                                                            *)
(***************************************************************************)
EXTENDS Integers, Sequences, SequencesExt

CONSTANTS
  Configs,   \* the bar makers: product class, cycle and exchange
  Prices,    \* the prices of a tick
  MaxTicks,  \* bound: number of ticks
  MaxBars    \* bound: a day with more bars gets no ticks

Classes == {"index", "bond", "day", "night2330", "night23", "night1",
            "night230", "other"}

(* AT_INT_DAILY_CYCLE and AT_INT_SESSION_CYCLE *)
Daily == -10
Session == -20

ASSUME BarsAssumption ==
  /\ Configs \subseteq
       [class : Classes, cycle : {Daily, Session} \cup (Nat \ {0}), czce : BOOLEAN]
  /\ Prices \subseteq Nat \ {0} /\ MaxTicks \in Nat /\ MaxBars \in Nat

VARIABLES
  config,   \* what the maker was made for
  plan,     \* vec_bar: when bars begin, end and settle
  bars,     \* vec_bar: prices and volumes
  idx,      \* bar_idx + 1: the bar that ticks go to
  rtn,      \* rtn_bar_idx + 1: the next bar to return
  given,    \* history: the bars the strategy was given
  ticks,    \* history: the ticks so far
  over      \* the day is over, the maker gone

vars == <<config, plan, bars, idx, rtn, given, ticks, over>>

-----------------------------------------------------------------------------
(***************************************************************************)
(* The bars of a day                                                       *)
(***************************************************************************)
DaySec == 24 * 3600

Sec(h, m) == (h * 3600 + m * 60 - 18 * 3600 + DaySec) % DaySec

Span(h1, m1, h2, m2) == [bob |-> Sec(h1, m1), eob |-> Sec(h2, m2), auction |-> FALSE]

Auction(h, m) == [Span(h, m, h, m) EXCEPT !.eob = @ + 60, !.auction = TRUE]

DayTime == <<Auction(8, 59), Span(9, 0, 10, 15), Span(10, 30, 11, 30),
             Span(13, 30, 15, 0)>>

NightTime(h, m) == <<Auction(20, 59), Span(21, 0, h, m)>> \o DayTime

TradingTimespan ==
  [index |-> <<Auction(9, 29), Span(9, 30, 11, 30), Span(13, 0, 15, 0)>>,
   bond |-> <<Auction(9, 14), Span(9, 15, 11, 30), Span(13, 0, 15, 15)>>,
   day |-> DayTime,
   night2330 |-> NightTime(23, 30), night23 |-> NightTime(23, 0),
   night1 |-> NightTime(1, 0), night230 |-> NightTime(2, 30),
   other |-> <<[bob |-> 0, eob |-> DaySec - 1, auction |-> FALSE]>>]

Period(bob, eob, auction) == [bob |-> bob, eob |-> eob, auction |-> auction]

(* Mutant: the loop stops before a bar that ends with the span.           *)
CutShort(c, acc, ts) ==
  LET bob == IF acc.leave = 0 THEN ts.bob ELSE acc.bob
      eob == ts.bob + (IF acc.leave = 0 THEN c ELSE acc.leave)
      full == IF eob >= ts.eob THEN 0 ELSE (ts.eob - eob) \div c + 1
      edge(k) == IF k = 0 THEN bob ELSE eob + (k - 1) * c
  IN IF ts.auction
     THEN [acc EXCEPT !.bars = Append(@, ts)]
     ELSE [bars |-> acc.bars \o
                      [k \in 1 .. full |-> Period(edge(k - 1), edge(k), FALSE)],
           bob |-> edge(full), eob |-> edge(full + 1),
           leave |-> IF edge(full) # ts.eob THEN edge(full + 1) - ts.eob
                     ELSE acc.leave]

(* One turn of the loop over the trading spans ts, with bars of c seconds: *)
(* the last bar of a span may go on in the next one, by acc.leave seconds. *)
Cut(c, acc, ts) ==
  LET bob == IF acc.leave = 0 THEN ts.bob ELSE acc.bob
      eob == ts.bob + (IF acc.leave = 0 THEN c ELSE acc.leave)
      full == IF eob > ts.eob THEN 0 ELSE (ts.eob - eob) \div c + 1
      edge(k) == IF k = 0 THEN bob ELSE eob + (k - 1) * c
  IN IF ts.auction
     THEN [acc EXCEPT !.bars = Append(@, ts)]
     ELSE [bars |-> acc.bars \o
                      [k \in 1 .. full |-> Period(edge(k - 1), edge(k), FALSE)],
           bob |-> edge(full), eob |-> edge(full + 1),
           leave |-> IF edge(full) # ts.eob THEN edge(full + 1) - ts.eob
                     ELSE acc.leave]

CycleBars(c, spans) ==
  LET cut == FoldLeft(LAMBDA acc, ts : Cut(c, acc, ts),
                      [bars |-> <<>>, bob |-> 0, eob |-> 0, leave |-> 0], spans)
  IN IF cut.leave > 0
     THEN Append(cut.bars, Period(cut.bob, cut.eob - cut.leave, FALSE))
     ELSE cut.bars

(* From when to when ticks go to the bar, and the second that settles it.  *)
Placed(p, from, to, settle) ==
  [bob |-> p.bob, eob |-> p.eob, auction |-> p.auction,
   from |-> from, to |-> to, settle |-> settle]

(* The bars of configuration cf.  A cycle in seconds gives a bar for each  *)
(* auction and for each c seconds of trading; the others give one for the  *)
(* day or one for each span.                                               *)
VecBar(cf) ==
  LET spans == TradingTimespan[cf.class]
      cut == CycleBars(cf.cycle, spans)
      close(p) == IF cf.czce THEN p.eob - 1 ELSE p.eob
      atEnd(p) == \E k \in DOMAIN spans : spans[k].eob = p.eob
      ofDay == Period(spans[1].bob, spans[Len(spans)].eob, FALSE)
  IN CASE cf.cycle = Daily -> <<Placed(ofDay, 0, ofDay.eob + 1, close(ofDay))>>
     [] cf.cycle = Session ->
          [i \in DOMAIN spans |->
             LET p == spans[i] IN
             Placed(p, IF i = 1 THEN 0 ELSE p.bob,
                    IF p.auction THEN p.eob ELSE p.eob + 1, close(p))]
     [] OTHER ->
          [i \in DOMAIN cut |->
             LET p == cut[i] IN
             IF p.auction
             THEN Placed(p, IF i = 1 THEN 0 ELSE p.bob - 2 * 3600, p.eob, p.eob)
             ELSE IF atEnd(p) THEN Placed(p, p.bob, p.eob + 1, p.eob)
                              ELSE Placed(p, p.bob, p.eob, 0)]

-----------------------------------------------------------------------------
(***************************************************************************)
(* Bar2: what a tick does to a bar                                         *)
(***************************************************************************)
NoBar == [open |-> 0, high |-> 0, low |-> 0, close |-> 0, cum |-> 0, vol |-> 0,
          preClose |-> 0, preCum |-> 0, settled |-> 0]

(* Settling turns bob and eob into nanoseconds: no tick is in them then.   *)
InBar(i, t) == bars[i].settled = 0 /\ plan[i].bob <= t.sec /\ t.sec < plan[i].eob

AtSettle(i, t) == plan[i].settle # 0 /\ t.sec = plan[i].settle

IsInCurBar(i, t) == plan[i].from <= t.sec /\ t.sec < plan[i].to

IsNeedUpdateOpen(i, b, t) == IF plan[i].auction THEN InBar(i, t) ELSE b.open = 0

IsNeedUpdateOhlc(i, t) == InBar(i, t) \/ AtSettle(i, t)

IsNeedSettle(i, t) == IF plan[i].auction THEN InBar(i, t) ELSE AtSettle(i, t)

(* Mutant: a new bar looks at the price only.                             *)
UpdatePreClose(b, t) == [b EXCEPT !.preClose = t.px]

UpdatePre(b, t) == [b EXCEPT !.preClose = t.px, !.preCum = t.cum]

UpdateBar(b, t) ==
  [b EXCEPT !.high = IF t.px > @ THEN t.px ELSE @,
            !.low = IF t.px < @ \/ @ = 0 THEN t.px ELSE @,
            !.close = t.px, !.cum = t.cum]

(* A bar without a tick is flat at the price before it. *)
Settle(b) ==
  LET s == IF b.open # 0 THEN b
           ELSE [b EXCEPT !.open = b.preClose, !.high = b.preClose,
                          !.low = b.preClose, !.close = b.preClose,
                          !.cum = b.preCum]
  IN [s EXCEPT !.vol = s.cum - s.preCum, !.settled = @ + 1]

(* Tick t in bar i: the first half of OnTick's loop, up to the settlement. *)
Updated(i, b, t) ==
  LET o == IF IsNeedUpdateOpen(i, b, t) THEN [b EXCEPT !.open = t.px] ELSE b
      p == IF o.preClose = 0 THEN UpdatePre(o, t) ELSE o
      u == IF IsNeedUpdateOhlc(i, t) THEN UpdateBar(p, t) ELSE p
  IN IF IsNeedSettle(i, t) THEN Settle(u) ELSE u

-----------------------------------------------------------------------------
(***************************************************************************)
(* BarMaker                                                                *)
(***************************************************************************)
Size == Len(plan)

Cur == IF idx = 0 THEN 1 ELSE idx

(* The bars that tick t finds over are settled, each with the tick before  *)
(* t as its previous one; n is the bar where it stops.                     *)
Passed(n, t) ==
  [i \in 1 .. Size |->
     LET b == IF Cur < i /\ i <= n /\ ticks # <<>>
              THEN UpdatePre(bars[i], Last(ticks)) ELSE bars[i]
     IN IF Cur <= i /\ i <= n /\ plan[i].to <= t.sec THEN Settle(b) ELSE b]

StopAt(t) ==
  CHOOSE n \in Cur .. Size :
    /\ n = Size \/ t.sec < plan[n].to
    /\ \A i \in Cur .. n - 1 : plan[i].to <= t.sec

OnTick(t) ==
  LET n == StopAt(t)
      passed == Passed(n, t)
      settles == IsInCurBar(n, t) /\ IsNeedSettle(n, t)
      first == [passed EXCEPT ![n] =
                  IF IsInCurBar(n, t) THEN Updated(n, @, t)
                  ELSE IF t.sec < plan[n].from THEN UpdatePre(@, t)
                  ELSE @]
  IN /\ idx' = IF settles THEN n + 1 ELSE n
     /\ bars' = IF settles /\ n < Size
                THEN [first EXCEPT ![n + 1] = UpdatePre(@, t)] ELSE first

(* Mutant: the first of the bars that ended together is returned, and the  *)
(* others are taken for returned.                                          *)
GetBarFirst ==
  /\ rtn' = idx'
  /\ given' = IF rtn > 0 /\ rtn < idx' /\ bars'[rtn].open # 0
              THEN Append(given, rtn) ELSE given

(* The caller fetches bars until there is none: of all that were finished  *)
(* since the last call GetBar returns the last one, if it has a price.     *)
GetBar ==
  /\ rtn' = idx'
  /\ given' = IF rtn < idx' /\ idx' > 1 /\ bars'[idx' - 1].open # 0
              THEN Append(given, idx' - 1) ELSE given

(* A tick: CStrategy calls OnTick, then GetBar.  A maker whose last bar is *)
(* settled ignores it.                                                     *)
Tick(sec, px) ==
  /\ ~over /\ Size <= MaxBars /\ Len(ticks) < MaxTicks
  /\ ticks # <<>> => sec >= Last(ticks).sec
  /\ LET t == [sec |-> sec, px |-> px, cum |-> Len(ticks)] IN
     /\ ticks' = Append(ticks, t)
     /\ IF idx > Size THEN UNCHANGED <<bars, idx>> ELSE OnTick(t)
  /\ GetBar
  /\ UNCHANGED <<config, plan, over>>

(* The change of day: OnFinish settles what is left, and the makers go.    *)
Finish ==
  /\ ~over
  /\ bars' = [i \in 1 .. Size |-> IF i >= Cur THEN Settle(bars[i]) ELSE bars[i]]
  /\ idx' = Size + 1
  /\ GetBar
  /\ over' = TRUE
  /\ UNCHANGED <<config, plan, ticks>>

Init ==
  /\ config \in Configs
  /\ plan = VecBar(config)
  /\ bars = [i \in 1 .. Size |-> NoBar]
  /\ idx = 0 /\ rtn = 0
  /\ given = <<>> /\ ticks = <<>> /\ over = FALSE

(* Ticks come a second before, at and after the borders of the bars.       *)
TickTimes ==
  {e \in UNION {{plan[i].bob + d, plan[i].eob + d} : i \in 1 .. Size, d \in -1 .. 1} :
     e >= 0 /\ e < DaySec}

Next ==
  \/ \E sec \in TickTimes, px \in Prices : Tick(sec, px)
  \/ Finish

Spec == Init /\ [][Next]_vars

-----------------------------------------------------------------------------
(***************************************************************************)
(* Properties                                                              *)
(***************************************************************************)
Spans == {s \in Range(TradingTimespan[config.class]) : ~s.auction}

(* The seconds of trading before time e *)
Traded(e) ==
  MapThenSumSet(LAMBDA s : IF e <= s.bob THEN 0
                           ELSE (IF e < s.eob THEN e ELSE s.eob) - s.bob, Spans)

(* Some span ends together with a bar that began in an earlier one: leave  *)
(* keeps its value, and the bars after that are cut short by it.           *)
StaleLeave ==
  /\ config.cycle > 0
  /\ \E s, u \in Spans : /\ s.eob < u.eob
                         /\ Traded(s.eob) % config.cycle # 0
                         /\ Traded(u.eob) % config.cycle = 0

(* The bars of a day cut the trading time into pieces: the i-th one (an    *)
(* auction has its own) covers the i-th cycle of seconds of trading, breaks *)
(* left out, and the last one what is left.  generateVecBar cuts span by   *)
(* span and carries the rest over.  It does not hold when StaleLeave.      *)
BarsTile ==
  config.cycle > 0 /\ ~StaleLeave =>
    LET c == config.cycle
        own == SelectSeq(plan, LAMBDA p : ~p.auction)
        total == Traded(DaySec)
    IN /\ Len(own) = (total + c - 1) \div c
       /\ \A i \in DOMAIN own :
            /\ own[i].bob < own[i].eob
            /\ Traded(own[i].bob) = (i - 1) * c
            /\ Traded(own[i].eob) = IF i < Len(own) THEN i * c ELSE total

(* The ticks of bar i: those in its time, up to the one that settles it;   *)
(* an auction has one.                                                     *)
TicksOf(i) ==
  LET p == plan[i]
      in == {k \in DOMAIN ticks : p.bob <= ticks[k].sec /\ ticks[k].sec < p.eob}
      end == {k \in DOMAIN ticks : p.settle # 0 /\ ticks[k].sec = p.settle}
  IN IF p.auction THEN {k \in in : \A j \in in : k <= j}
     ELSE {k \in in \cup end : \A j \in end : k <= j}

(* A bar that begins before an earlier one of the list ends: one that goes *)
(* on behind an auction.  Ticks in its first part find the auction's bar.  *)
Straddles(i) == \E j \in 1 .. i - 1 : plan[j].eob > plan[i].bob

(* A tick that goes to the bar but is not in its time opens it when it is  *)
(* the first: one before a daily bar (adjust_bob = 0), or one at the end   *)
(* of a bar of CZCE, which settles a second earlier.                       *)
OpenedOutside(i) ==
  /\ ~plan[i].auction
  /\ \E k \in DOMAIN ticks : /\ IsInCurBar(i, ticks[k])
                             /\ \A j \in TicksOf(i) : k < j

(* A settled bar has the first, highest, lowest and last price of the      *)
(* ticks of its time and the volume since the tick before it; without      *)
(* ticks it is flat at the last price before it (in an auction, at one     *)
(* before it, for adjust_bob lets it keep the first).  OnTick deals ticks  *)
(* by adjust_bob and adjust_eob, settles at a tick of the bar, of a later  *)
(* one or at the end of the day, and no later tick may change the bar.     *)
BarsMatchTicks ==
  ~StaleLeave =>
    \A i \in 1 .. Size :
      LET b == bars[i]
          own == TicksOf(i)
          px == {ticks[k].px : k \in own}
          before == Min(own) - 1
          earlier == {k \in DOMAIN ticks : ticks[k].sec < plan[i].bob}
      IN b.settled > 0 /\ ~Straddles(i) /\ ~OpenedOutside(i) =>
           IF own # {}
           THEN /\ b.open = ticks[Min(own)].px /\ b.close = ticks[Max(own)].px
                /\ b.high = Max(px) /\ b.low = Min(px)
                /\ ~plan[i].auction =>
                     b.vol = ticks[Max(own)].cum -
                               ticks[IF before = 0 THEN 1 ELSE before].cum
           ELSE /\ {b.high, b.low, b.close} = {b.open} /\ b.vol = 0
                /\ b.open # 0 =>
                     \E k \in earlier : /\ b.open = ticks[k].px
                                        /\ plan[i].auction \/ k = Max(earlier)

(* The strategy gets each bar once, in order, and only when it is over.    *)
(* GetBar gives the last one of several that end together, so a bar with   *)
(* prices is left out only when a tick that settles the next one, or one   *)
(* that is behind it, is the first after the bar.  A bar other than the    *)
(* last of the day is settled once, so it has its times.                   *)
BarsGiven ==
  /\ \A j, k \in DOMAIN given : j < k => given[j] < given[k]
  /\ \A i \in Range(given) : i < idx /\ (i = Size \/ bars[i].settled = 1)
  /\ ~StaleLeave =>
       \A i \in 1 .. idx - 1 :
         bars[i].open # 0 /\ i \notin Range(given) =>
           /\ i < Size
           /\ \A k \in TicksOf(i + 1) :
                plan[i + 1].auction \/ ticks[k].sec = plan[i + 1].settle
                  \/ Straddles(i + 1)

(* Known to fail: every finished bar that has ticks is given               *)
EveryBarGiven ==
  \A i \in 1 .. idx - 1 : TicksOf(i) # {} => i \in Range(given)

(* Known to fail: every bar is settled once, so its times are right        *)
SettledOnce == \A i \in 1 .. Size : bars[i].settled <= 1
=============================================================================
