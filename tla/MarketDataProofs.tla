-------------------------- MODULE MarketDataProofs --------------------------
(***************************************************************************)
(* Three properties of module MarketData for every number of strategies,   *)
(* instruments, days, engines and requests: the front sends what the       *)
(* engine counts, a strategy that has read the engine's log is on the      *)
(* engine's day, and the engine's counts cover the strategies that use an  *)
(* instrument.                                                             *)
(*                                                                         *)
(* The second one needs to know where the day can still come from: the     *)
(* last base information in the log has the engine's day, and a strategy   *)
(* that has no base information left to read has that day already, and so  *)
(* has the answer to its query, if there is one (HelperInv).               *)
(***************************************************************************)
EXTENDS MarketData, FiniteSetTheorems, TLAPS

Positions == Waits \cup {"down", "reader", "run"}
Answers == {NoAnswer} \cup [cmd : {"heartbeat", "ack"}]
             \cup [cmd : {"base"}, day : Days]
Frames == [kind : {"start"}] \cup [kind : {"base"}, day : Days]

HelperTypes ==
  /\ pc \in [Helpers -> Positions] /\ ans \in [Helpers -> Answers]
  /\ hday \in [Helpers -> Days \cup {0}] /\ pos \in [Helpers -> Nat]
  /\ missed \in [Helpers -> BOOLEAN]

EngineTypes ==
  /\ eday \in Days /\ subs \in [Instrs -> Nat] /\ log \in Seq(Frames)

(* Exactly what is counted is subscribed at the front, at any time.        *)
FrontInv == front = {i \in Instrs : subs[i] > 0}

NoBase(k) == \A j \in k .. Len(log) : log[j].kind # "base"

(* The last base information in the log is that of the engine's day.       *)
LastDay ==
  \A k \in 1 .. Len(log) :
    log[k].kind = "base" /\ NoBase(k + 1) => log[k].day = eday

HelperInv(h) ==
  /\ pos[h] \in 1 .. Len(log) + 1
  /\ pc[h] \notin Waits => ans[h] = NoAnswer
  /\ pc[h] \in {"base", "query"} /\ ans[h] # NoAnswer => ans[h].day \in Days
  /\ pc[h] \in {"run", "ack", "query"} /\ ~missed[h] /\ NoBase(pos[h]) =>
       /\ hday[h] = eday
       /\ pc[h] = "query" /\ ans[h] # NoAnswer => ans[h].day = eday

DayInv ==
  /\ EngineTypes /\ HelperTypes /\ FrontInv /\ LastDay
  /\ \A h \in Helpers : HelperInv(h)

(* Nothing but the entries of strategy h changes.                          *)
OnlyEntry(h) ==
  /\ UNCHANGED evars
  /\ \A g \in Helpers \ {h} :
       /\ pc'[g] = pc[g] /\ ans'[g] = ans[g] /\ hday'[g] = hday[g]
       /\ pos'[g] = pos[g] /\ missed'[g] = missed[g]

-----------------------------------------------------------------------------
(* A step of one strategy keeps the invariant if it keeps its own part.    *)
LEMMA HelperStepKeeps ==
  ASSUME DayInv, NEW h \in Helpers, OnlyEntry(h), HelperTypes', HelperInv(h)'
  PROVE  DayInv'
<1>1. /\ eday' = eday /\ subs' = subs /\ log' = log /\ front' = front
  BY DEF OnlyEntry, evars
<1>2. EngineTypes' /\ FrontInv' /\ LastDay'
  BY <1>1 DEF DayInv, EngineTypes, FrontInv, LastDay, NoBase
<1>3. ASSUME NEW g \in Helpers PROVE HelperInv(g)'
  <2>1. CASE g = h
    BY <2>1
  <2>2. CASE g # h
    <3>1. /\ pc'[g] = pc[g] /\ ans'[g] = ans[g] /\ hday'[g] = hday[g]
          /\ pos'[g] = pos[g] /\ missed'[g] = missed[g]
      BY <2>2 DEF OnlyEntry
    <3>2. HelperInv(g)
      BY DEF DayInv
    <3> QED
      BY <1>1, <3>1, <3>2 DEF HelperInv, NoBase
  <2> QED
    BY <2>1, <2>2
<1> QED
  BY <1>2, <1>3 DEF DayInv

(* A strategy that goes on has no answer left.                             *)
LEMMA GoOnTypes ==
  ASSUME HelperTypes, NEW h \in Helpers, NEW next \in Positions, GoOn(h, next)
  PROVE  /\ pc' \in [Helpers -> Positions] /\ ans' \in [Helpers -> Answers]
         /\ pc'[h] = next /\ ans'[h] = NoAnswer
         /\ \A g \in Helpers \ {h} : pc'[g] = pc[g] /\ ans'[g] = ans[g]
BY DEF HelperTypes, GoOn, Answers

(* A request leaves no answer and only its strategy waits for it.         *)
LEMMA RequestTypes ==
  ASSUME HelperTypes, NEW h \in Helpers, NEW next \in Positions,
         NEW cmd, NEW S, NEW id, Request(h, cmd, S, next, id)
  PROVE  /\ pc' \in [Helpers -> Positions] /\ ans' \in [Helpers -> Answers]
         /\ pc'[h] = next /\ ans'[h] = NoAnswer
         /\ \A g \in Helpers \ {h} : pc'[g] = pc[g] /\ ans'[g] = ans[g]
BY DEF HelperTypes, Request, Answers

(* So does one that is sent only if there are instruments to name.        *)
LEMMA DoRequestTypes ==
  ASSUME HelperTypes, NEW h \in Helpers, NEW cmd, NEW S, DoRequest(h, cmd, S)
  PROVE  /\ pc' \in [Helpers -> Positions] /\ ans' \in [Helpers -> Answers]
         /\ pc'[h] \in {"run", "ack"} /\ ans'[h] = NoAnswer
         /\ \A g \in Helpers \ {h} : pc'[g] = pc[g] /\ ans'[g] = ans[g]
<1>1. "run" \in Positions /\ "ack" \in Positions
  BY DEF Positions, Waits
<1>2. CASE S = {}
  <2>1. GoOn(h, "run")
    BY <1>2 DEF DoRequest
  <2> QED
    BY <2>1, <1>1, GoOnTypes
<1>3. CASE S # {}
  <2>1. Request(h, cmd, S, "ack", bw[h] + 1)
    BY <1>3 DEF DoRequest
  <2> QED
    BY <2>1, <1>1, RequestTypes
<1> QED
  BY <1>2, <1>3

(* The change of day ends on the new day.                                  *)
LEMMA SwitchDayTypes ==
  ASSUME HelperTypes, NEW h \in Helpers, NEW d \in Days \cup {0}, SwitchDay(h, d)
  PROVE  /\ pc' \in [Helpers -> Positions] /\ ans' \in [Helpers -> Answers]
         /\ hday' \in [Helpers -> Days \cup {0}]
         /\ pc'[h] \in {"run", "ack"} /\ ans'[h] = NoAnswer /\ hday'[h] = d
         /\ \A g \in Helpers \ {h} :
              pc'[g] = pc[g] /\ ans'[g] = ans[g] /\ hday'[g] = hday[g]
<1>1. DoRequest(h, "subscribe", Want[h] \cap Listed[d])
  BY DEF SwitchDay
<1>2. hday' = [hday EXCEPT ![h] = d]
  BY DEF SwitchDay
<1>3. /\ hday' \in [Helpers -> Days \cup {0}] /\ hday'[h] = d
      /\ \A g \in Helpers \ {h} : hday'[g] = hday[g]
  BY <1>2 DEF HelperTypes
<1> QED
  BY <1>1, <1>3, DoRequestTypes

(* Nothing is left of a strategy that has ended.                           *)
LEMMA EndedTypes ==
  ASSUME DayInv, NEW h \in Helpers, UNCHANGED evars, Ended(h)
  PROVE  DayInv'
<1> USE DEF DayInv
<1>1. HelperTypes /\ GoOn(h, "down") /\ "down" \in Positions
  BY DEF Ended, Positions
<1>2. /\ pc' \in [Helpers -> Positions] /\ ans' \in [Helpers -> Answers]
      /\ pc'[h] = "down" /\ ans'[h] = NoAnswer
      /\ \A g \in Helpers \ {h} : pc'[g] = pc[g] /\ ans'[g] = ans[g]
  BY <1>1, GoOnTypes
<1>3. /\ hday' = [hday EXCEPT ![h] = 0] /\ pos' = [pos EXCEPT ![h] = 1]
      /\ missed' = [missed EXCEPT ![h] = FALSE]
  BY DEF Ended
<1>4. HelperTypes' /\ pos'[h] = 1 /\ OnlyEntry(h)
  BY <1>1, <1>2, <1>3 DEF HelperTypes, OnlyEntry
<1>5. Len(log)' \in Nat
  BY DEF EngineTypes, evars
<1>6. HelperInv(h)'
  BY <1>2, <1>4, <1>5 DEF HelperInv, Waits
<1> QED
  BY <1>4, <1>6, HelperStepKeeps

-----------------------------------------------------------------------------
(* The steps of a strategy.                                                *)
LEMMA RequestKeeps ==
  ASSUME DayInv, NEW h \in Helpers, NEW next \in Positions,
         NEW cmd, NEW S, NEW id, Request(h, cmd, S, next, id),
         UNCHANGED <<evars, hday, missed>>,
         \/ UNCHANGED pos
         \/ /\ pos' = [pos EXCEPT ![h] = @ + 1]
            /\ pos[h] <= Len(log) /\ log[pos[h]].kind # "base",
         next \in {"run", "ack", "query"} => pc[h] \in {"run", "ack", "query"}
  PROVE  DayInv'
<1>1. HelperTypes /\ HelperInv(h) /\ Len(log) \in Nat
  BY DEF DayInv, EngineTypes
<1>2. /\ pc' \in [Helpers -> Positions] /\ ans' \in [Helpers -> Answers]
      /\ pc'[h] = next /\ ans'[h] = NoAnswer
      /\ \A g \in Helpers \ {h} : pc'[g] = pc[g] /\ ans'[g] = ans[g]
  BY <1>1, RequestTypes
<1>3. HelperTypes' /\ OnlyEntry(h)
  BY <1>1, <1>2 DEF HelperTypes, OnlyEntry
<1>4. log' = log /\ eday' = eday
  BY DEF evars
<1>5. /\ pos'[h] \in 1 .. Len(log) + 1
      /\ NoBase(pos[h])' => NoBase(pos[h])
  <2>1. CASE UNCHANGED pos
    BY <1>1, <1>4, <2>1 DEF HelperInv, NoBase
  <2>2. CASE /\ pos' = [pos EXCEPT ![h] = @ + 1]
             /\ pos[h] <= Len(log) /\ log[pos[h]].kind # "base"
    <3>1. pos'[h] = pos[h] + 1 /\ pos[h] \in Nat \ {0}
      BY <1>1, <2>2 DEF HelperTypes, HelperInv
    <3> QED
      BY <1>1, <1>4, <2>2, <3>1 DEF NoBase
  <2> QED
    BY <2>1, <2>2
<1>6. HelperInv(h)'
  BY <1>1, <1>2, <1>4, <1>5 DEF HelperInv
<1> QED
  BY <1>3, <1>6, HelperStepKeeps

(* A strategy that goes on as it was, or sends a request of its own, with  *)
(* its day, its place in the log and its answers as before.                *)
LEMMA SettledKeeps ==
  ASSUME DayInv, NEW h \in Helpers, pc[h] \in {"run", "ack", "query"},
         pc' \in [Helpers -> Positions], ans' \in [Helpers -> Answers],
         pc'[h] \in {"run", "ack"}, ans'[h] = NoAnswer,
         \A g \in Helpers \ {h} : pc'[g] = pc[g] /\ ans'[g] = ans[g],
         UNCHANGED <<evars, hday, pos, missed>>
  PROVE  DayInv'
<1>1. HelperTypes /\ HelperInv(h) /\ Len(log) \in Nat
  BY DEF DayInv, EngineTypes
<1>2. HelperTypes' /\ OnlyEntry(h)
  BY <1>1 DEF HelperTypes, OnlyEntry
<1>3. log' = log /\ eday' = eday
  BY DEF evars
<1>4. HelperInv(h)'
  BY <1>1, <1>3 DEF HelperInv, NoBase
<1> QED
  BY <1>2, <1>4, HelperStepKeeps

(* The first two requests of a strategy, before it has a reader.          *)
LEMMA HelperStartKeeps ==
  ASSUME DayInv, NEW h \in Helpers, HelperStart(h) \/ HeartbeatAnswered(h)
  PROVE  DayInv'
<1>1. CASE HelperStart(h)
  <2>1. Request(h, "heartbeat", {}, "heartbeat", 1)
    BY <1>1 DEF HelperStart
  <2>2. UNCHANGED <<evars, hday, missed>> /\ UNCHANGED pos
    BY <1>1 DEF HelperStart
  <2> QED
    BY <2>1, <2>2, RequestKeeps DEF Positions, Waits
<1>2. CASE HeartbeatAnswered(h)
  <2>1. Request(h, "base", {}, "base", bw[h] + 1)
    BY <1>2 DEF HeartbeatAnswered
  <2>2. UNCHANGED <<evars, hday, missed>> /\ UNCHANGED pos
    BY <1>2 DEF HeartbeatAnswered
  <2> QED
    BY <2>1, <2>2, RequestKeeps DEF Positions, Waits
<1> QED
  BY <1>1, <1>2

(* The first base information gives the strategy a day.                   *)
LEMMA BaseAnsweredKeeps ==
  ASSUME DayInv, NEW h \in Helpers, BaseAnswered(h)
  PROVE  DayInv'
<1>1. HelperTypes /\ HelperInv(h) /\ "reader" \in Positions
  BY DEF DayInv, Positions
<1>2. GoOn(h, "reader")
  BY DEF BaseAnswered
<1>3. /\ pc' \in [Helpers -> Positions] /\ ans' \in [Helpers -> Answers]
      /\ pc'[h] = "reader" /\ ans'[h] = NoAnswer
      /\ \A g \in Helpers \ {h} : pc'[g] = pc[g] /\ ans'[g] = ans[g]
  BY <1>1, <1>2, GoOnTypes
<1>4. hday' = [hday EXCEPT ![h] = ans[h].day] /\ ans[h].day \in Days
  BY <1>1 DEF BaseAnswered, HelperInv
<1>5. UNCHANGED <<evars, pos, missed>>
  BY DEF BaseAnswered
<1>6. HelperTypes' /\ OnlyEntry(h)
  BY <1>1, <1>3, <1>4, <1>5 DEF HelperTypes, OnlyEntry
<1>7. HelperInv(h)'
  BY <1>1, <1>3, <1>5 DEF HelperInv, evars, Waits
<1> QED
  BY <1>6, <1>7, HelperStepKeeps

(* The reader starts at the end of the log: what is missed is noted.       *)
LEMMA HelperRunKeeps ==
  ASSUME DayInv, NEW h \in Helpers, HelperRun(h)
  PROVE  DayInv'
<1>1. HelperTypes /\ HelperInv(h) /\ Len(log) \in Nat
  BY DEF DayInv, EngineTypes
<1>2. SwitchDay(h, hday[h]) /\ hday[h] \in Days \cup {0}
  BY <1>1 DEF HelperRun, HelperTypes
<1>3. /\ pc' \in [Helpers -> Positions] /\ ans' \in [Helpers -> Answers]
      /\ hday' \in [Helpers -> Days \cup {0}]
      /\ pc'[h] \in {"run", "ack"} /\ ans'[h] = NoAnswer /\ hday'[h] = hday[h]
      /\ \A g \in Helpers \ {h} :
           pc'[g] = pc[g] /\ ans'[g] = ans[g] /\ hday'[g] = hday[g]
  BY <1>1, <1>2, SwitchDayTypes
<1>4. /\ pos' = [pos EXCEPT ![h] = Len(log) + 1]
      /\ missed' = [missed EXCEPT ![h] = eday # hday[h]]
      /\ UNCHANGED evars
  BY DEF HelperRun
<1>5. /\ pos' \in [Helpers -> Nat] /\ missed' \in [Helpers -> BOOLEAN]
      /\ pos'[h] = Len(log) + 1 /\ missed'[h] = (eday # hday[h])
      /\ \A g \in Helpers \ {h} : pos'[g] = pos[g] /\ missed'[g] = missed[g]
  BY <1>1, <1>4 DEF HelperTypes
<1>6. HelperTypes' /\ OnlyEntry(h)
  BY <1>3, <1>4, <1>5 DEF HelperTypes, OnlyEntry
<1>7. log' = log /\ eday' = eday
  BY <1>4 DEF evars
<1>8. HelperInv(h)'
  BY <1>1, <1>3, <1>5, <1>7 DEF HelperInv
<1> QED
  BY <1>6, <1>8, HelperStepKeeps

(* Base information is read: the last one brings the engine's day.         *)
LEMMA ReadBaseKeeps ==
  ASSUME DayInv, NEW h \in Helpers, ReadBase(h)
  PROVE  DayInv'
<1> DEFINE d == log[pos[h]].day
<1>1. /\ HelperTypes /\ HelperInv(h) /\ Len(log) \in Nat /\ LastDay
      /\ pos[h] \in 1 .. Len(log) /\ pc[h] = "run" /\ log[pos[h]].kind = "base"
  BY DEF DayInv, EngineTypes, ReadBase, HelperInv
<1>2. d \in Days
  <2>1. log[pos[h]] \in Frames
    BY <1>1 DEF DayInv, EngineTypes
  <2> QED
    BY <2>1, <1>1 DEF Frames
<1>3. /\ pos' \in [Helpers -> Nat] /\ pos'[h] = pos[h] + 1
      /\ \A g \in Helpers \ {h} : pos'[g] = pos[g]
      /\ UNCHANGED <<evars, missed>>
  BY <1>1 DEF ReadBase, HelperTypes
<1>4. /\ pc' \in [Helpers -> Positions] /\ ans' \in [Helpers -> Answers]
      /\ hday' \in [Helpers -> Days \cup {0}]
      /\ pc'[h] \in {"run", "ack"} /\ ans'[h] = NoAnswer /\ hday'[h] = d
      /\ \A g \in Helpers \ {h} :
           pc'[g] = pc[g] /\ ans'[g] = ans[g] /\ hday'[g] = hday[g]
  <2>1. CASE d # hday[h]
    <3>1. SwitchDay(h, d)
      BY <2>1 DEF ReadBase
    <3> QED
      BY <1>1, <1>2, <3>1, SwitchDayTypes
  <2>2. CASE d = hday[h]
    <3>1. UNCHANGED <<pc, ans, hday>>
      BY <2>2 DEF ReadBase
    <3> QED
      BY <1>1, <2>2, <3>1 DEF HelperTypes, HelperInv, Waits
  <2> QED
    BY <2>1, <2>2
<1>5. HelperTypes' /\ OnlyEntry(h)
  BY <1>1, <1>3, <1>4 DEF HelperTypes, OnlyEntry
<1>6. log' = log /\ eday' = eday
  BY <1>3 DEF evars
<1>7. NoBase(pos[h])' => d = eday
  BY <1>1, <1>3, <1>6 DEF LastDay, NoBase
<1>8. HelperInv(h)'
  BY <1>1, <1>3, <1>4, <1>6, <1>7 DEF HelperInv
<1> QED
  BY <1>5, <1>8, HelperStepKeeps

(* A start signal is no base information: to skip it loses no day.        *)
LEMMA ReadStartKeeps ==
  ASSUME DayInv, NEW h \in Helpers, ReadStart(h)
  PROVE  DayInv'
<1>1. /\ HelperTypes /\ HelperInv(h) /\ Len(log) \in Nat
      /\ pos[h] \in 1 .. Len(log) /\ pc[h] = "run" /\ log[pos[h]].kind # "base"
  BY DEF DayInv, EngineTypes, ReadStart, HelperInv
<1>2. /\ pos' = [pos EXCEPT ![h] = @ + 1]
      /\ UNCHANGED <<evars, hday, missed>>
  BY DEF ReadStart
<1>3. CASE Request(h, "base", {}, "query", bw[h] + 1)
  <2>1. "query" \in Positions /\ pos[h] <= Len(log)
    BY <1>1 DEF Positions, Waits
  <2>2. pc[h] \in {"run", "ack", "query"}
    BY <1>1
  <2> QED
    BY <1>1, <1>2, <1>3, <2>1, <2>2, RequestKeeps
<1>4. CASE UNCHANGED <<pc, ans>>
  <2>1. /\ pos' \in [Helpers -> Nat] /\ pos'[h] = pos[h] + 1
        /\ \A g \in Helpers \ {h} : pos'[g] = pos[g]
    BY <1>1, <1>2 DEF HelperTypes
  <2>2. HelperTypes' /\ OnlyEntry(h)
    BY <1>1, <1>2, <1>4, <2>1 DEF HelperTypes, OnlyEntry
  <2>3. log' = log /\ eday' = eday
    BY <1>2 DEF evars
  <2>4. NoBase(pos[h])' => NoBase(pos[h])
    BY <1>1, <2>1, <2>3 DEF NoBase
  <2>5. HelperInv(h)'
    BY <1>1, <1>2, <1>4, <2>1, <2>3, <2>4 DEF HelperInv
  <2> QED
    BY <2>2, <2>5, HelperStepKeeps
<1> QED
  BY <1>3, <1>4 DEF ReadStart

(* The answer to the query of a start signal.                              *)
LEMMA QueryAnsweredKeeps ==
  ASSUME DayInv, NEW h \in Helpers, QueryAnswered(h)
  PROVE  DayInv'
<1>1. /\ HelperTypes /\ HelperInv(h) /\ Len(log) \in Nat
      /\ pc[h] = "query" /\ ans[h] # NoAnswer /\ ans[h].day \in Days
  BY DEF DayInv, EngineTypes, QueryAnswered, HelperInv
<1>2. UNCHANGED <<evars, pos, missed>>
  BY DEF QueryAnswered
<1>3. CASE ans[h].day # hday[h]
  <2>1. SwitchDay(h, ans[h].day)
    BY <1>3 DEF QueryAnswered
  <2>2. /\ pc' \in [Helpers -> Positions] /\ ans' \in [Helpers -> Answers]
        /\ hday' \in [Helpers -> Days \cup {0}]
        /\ pc'[h] \in {"run", "ack"} /\ ans'[h] = NoAnswer
        /\ hday'[h] = ans[h].day
        /\ \A g \in Helpers \ {h} :
             pc'[g] = pc[g] /\ ans'[g] = ans[g] /\ hday'[g] = hday[g]
    BY <1>1, <2>1, SwitchDayTypes
  <2>3. HelperTypes' /\ OnlyEntry(h)
    BY <1>1, <1>2, <2>2 DEF HelperTypes, OnlyEntry
  <2>4. log' = log /\ eday' = eday
    BY <1>2 DEF evars
  <2>5. HelperInv(h)'
    BY <1>1, <1>2, <2>2, <2>4 DEF HelperInv, NoBase
  <2> QED
    BY <2>3, <2>5, HelperStepKeeps
<1>4. CASE ans[h].day = hday[h]
  <2>1. DoRequest(h, "subscribe", map[h]) /\ UNCHANGED hday
    BY <1>4 DEF QueryAnswered
  <2> QED
    BY <1>1, <1>2, <2>1, DoRequestTypes, SettledKeeps
<1> QED
  BY <1>3, <1>4

(* An acknowledgement or a timeout, a call of the strategy, its end.       *)
LEMMA OtherHelperStepsKeep ==
  ASSUME DayInv, NEW h \in Helpers, NEW S,
         \/ Acknowledged(h) \/ Released(h) \/ Timeout(h) \/ Release(h)
         \/ Subscribe(h, S) \/ Unsubscribe(h, S) \/ HelperDies(h)
  PROVE  DayInv'
<1>1. HelperTypes /\ "run" \in Positions /\ "release" \in Positions
  BY DEF DayInv, Positions, Waits
<1>2. ASSUME pc[h] \in {"run", "ack", "query"}, GoOn(h, "run"),
             UNCHANGED <<evars, hday, pos, missed>>
      PROVE  DayInv'
  BY <1>1, <1>2, GoOnTypes, SettledKeeps
<1>3. CASE Acknowledged(h)
  <2>1. GoOn(h, "run") /\ pc[h] = "ack" /\ UNCHANGED <<evars, hday, pos, missed>>
    BY <1>3 DEF Acknowledged
  <2> QED
    BY <2>1, <1>2
<1>4. CASE Released(h) \/ HelperDies(h)
  BY <1>4, EndedTypes DEF Released, HelperDies
<1>5. CASE Timeout(h)
  <2>1. UNCHANGED evars
    BY <1>5 DEF Timeout
  <2>2. CASE pc[h] \in {"ack", "query"}
    <3>1. GoOn(h, "run") /\ UNCHANGED <<hday, pos, missed>>
      BY <1>5, <2>2 DEF Timeout
    <3> QED
      BY <2>1, <2>2, <3>1, <1>2
  <2>3. CASE pc[h] \notin {"ack", "query"}
    BY <1>5, <2>1, <2>3, EndedTypes DEF Timeout
  <2> QED
    BY <2>2, <2>3
<1>6. CASE Release(h)
  <2>1. UNCHANGED evars
    BY <1>6 DEF Release
  <2>2. CASE map[h] = {}
    BY <1>6, <2>1, <2>2, EndedTypes DEF Release
  <2>3. CASE map[h] # {}
    <3>1. /\ Request(h, "unsubscribe", map[h], "release", bw[h] + 1)
          /\ UNCHANGED <<hday, missed>> /\ UNCHANGED pos
      BY <1>6, <2>3 DEF Release
    <3> QED
      BY <1>1, <2>1, <3>1, RequestKeeps
  <2> QED
    BY <2>2, <2>3
<1>7. CASE Subscribe(h, S) \/ Unsubscribe(h, S)
  <2>1. pc[h] = "run" /\ UNCHANGED <<evars, hday, pos, missed>>
    BY <1>7 DEF Subscribe, Unsubscribe
  <2>2. PICK cmd, T : DoRequest(h, cmd, T)
    BY <1>7 DEF Subscribe, Unsubscribe
  <2> QED
    BY <1>1, <2>1, <2>2, DoRequestTypes, SettledKeeps
<1> QED
  BY <1>3, <1>4, <1>5, <1>6, <1>7

-----------------------------------------------------------------------------
(* A subscription of the engine counts and subscribes the same instruments.*)
LEMMA EngineSubscribeKeeps ==
  ASSUME EngineTypes, FrontInv, NEW S, EngineSubscribe(S)
  PROVE  subs' \in [Instrs -> Nat] /\ FrontInv'
<1>1. PICK T : /\ T = S \cap Listed[eday]
               /\ subs' = [i \in Instrs |-> IF i \in T THEN subs[i] + 1 ELSE subs[i]]
               /\ front' = front \cup {i \in T : subs[i] = 0}
  BY DEF EngineSubscribe, FrontSubscribe
<1>2. T \subseteq Instrs
  BY <1>1, MDAssumption DEF EngineTypes
<1>3. subs \in [Instrs -> Nat]
  BY DEF EngineTypes
<1>4. subs' \in [Instrs -> Nat]
  BY <1>1, <1>3
<1>5. ASSUME NEW i \in Instrs PROVE i \in front' <=> subs'[i] > 0
  BY <1>1, <1>3 DEF FrontInv
<1>6. front' \subseteq Instrs
  BY <1>1, <1>2 DEF FrontInv
<1> QED
  BY <1>4, <1>5, <1>6 DEF FrontInv

(* One that is given back leaves the front with its last user.             *)
LEMMA EngineUnsubscribeKeeps ==
  ASSUME EngineTypes, FrontInv, NEW S, EngineUnsubscribe(S)
  PROVE  subs' \in [Instrs -> Nat] /\ FrontInv'
<1>1. PICK T : /\ T = {i \in S \cap Listed[eday] : subs[i] > 0}
               /\ subs' = [i \in Instrs |-> IF i \in T THEN subs[i] - 1 ELSE subs[i]]
               /\ front' = front \ {i \in T : subs[i] = 1}
  BY DEF EngineUnsubscribe, FrontUnsubscribe
<1>2. subs \in [Instrs -> Nat]
  BY DEF EngineTypes
<1>3. \A i \in T : subs[i] > 0
  BY <1>1
<1>4. subs' \in [Instrs -> Nat]
  BY <1>1, <1>2, <1>3
<1>5. ASSUME NEW i \in Instrs PROVE i \in front' <=> subs'[i] > 0
  BY <1>1, <1>2, <1>3 DEF FrontInv
<1>6. front' \subseteq Instrs
  BY <1>1 DEF FrontInv
<1> QED
  BY <1>4, <1>5, <1>6 DEF FrontInv

(* An answer reaches only a strategy that waits for one of its kind.       *)
LEMMA ReplyGives ==
  ASSUME HelperTypes, NEW r, NEW a \in Answers, Reply(r, a)
  PROVE  /\ ans' \in [Helpers -> Answers]
         /\ \A g \in Helpers :
              \/ ans'[g] = ans[g]
              \/ pc[g] \in Waits /\ ans'[g] = a /\ a.cmd = AnswerTo[pc[g]]
<1>1. CASE UNCHANGED ans
  BY <1>1 DEF HelperTypes
<1>2. CASE /\ ans' = [ans EXCEPT ![r.src] = a]
           /\ pc[r.src] \in Waits /\ a.cmd = AnswerTo[pc[r.src]]
  BY <1>2 DEF HelperTypes
<1> QED
  BY <1>1, <1>2 DEF Reply

(* The engine reads a request: an answer that carries a day carries its.   *)
LEMMA EngineReadKeeps ==
  ASSUME DayInv, EngineRead
  PROVE  DayInv'
<1>1. EngineTypes /\ HelperTypes /\ FrontInv /\ LastDay
  BY DEF DayInv
<1>2. UNCHANGED <<eday, log, pc, hday, pos, missed>>
  BY DEF EngineRead
<1>3. PICK r, a :
        /\ Reply(r, a)
        /\ \/ a = [cmd |-> "heartbeat"] \/ a = [cmd |-> "ack"]
           \/ a = [cmd |-> "base", day |-> eday]
        /\ \/ UNCHANGED <<subs, front>>
           \/ EngineSubscribe(r.set) \/ EngineUnsubscribe(r.set)
  BY DEF EngineRead
<1>4. a \in Answers
  BY <1>1, <1>3 DEF Answers, EngineTypes
<1>5. /\ ans' \in [Helpers -> Answers]
      /\ \A g \in Helpers :
           \/ ans'[g] = ans[g]
           \/ pc[g] \in Waits /\ ans'[g] = a /\ a.cmd = AnswerTo[pc[g]]
  BY <1>1, <1>3, <1>4, ReplyGives
<1>6. subs' \in [Instrs -> Nat] /\ FrontInv'
  <2>1. CASE UNCHANGED <<subs, front>>
    BY <1>1, <2>1 DEF EngineTypes, FrontInv
  <2> QED
    BY <1>1, <1>3, <2>1, EngineSubscribeKeeps, EngineUnsubscribeKeeps
<1>7. EngineTypes' /\ HelperTypes' /\ LastDay'
  BY <1>1, <1>2, <1>5, <1>6 DEF EngineTypes, HelperTypes, LastDay, NoBase
<1>8. ASSUME NEW g \in Helpers PROVE HelperInv(g)'
  <2>1. HelperInv(g) /\ eday \in Days
    BY <1>1 DEF DayInv, EngineTypes
  <2>2. CASE ans'[g] = ans[g]
    BY <1>2, <2>1, <2>2 DEF HelperInv, NoBase
  <2>3. CASE pc[g] \in Waits /\ ans'[g] = a /\ a.cmd = AnswerTo[pc[g]]
    <3>1. pc[g] \in {"base", "query"} => a.cmd = "base"
      BY <2>3 DEF AnswerTo
    <3>2. pc[g] \in {"base", "query"} => a.day = eday
      BY <1>3, <3>1
    <3> QED
      BY <1>2, <2>1, <2>3, <3>2 DEF HelperInv, NoBase
  <2> QED
    BY <1>5, <2>2, <2>3
<1> QED
  BY <1>6, <1>7, <1>8 DEF DayInv

(* The engine starts: the log ends on the base information of its day.     *)
LEMMA EngineInitKeeps ==
  ASSUME DayInv, EngineInit
  PROVE  DayInv'
<1>1. EngineTypes /\ HelperTypes /\ FrontInv /\ Len(log) \in Nat
  BY DEF DayInv, EngineTypes
<1>2. UNCHANGED <<subs, front, pc, ans, hday, pos, missed>>
  BY DEF EngineInit, hvars
<1>3. eday' \in Days /\ log' = Append(log, [kind |-> "base", day |-> eday'])
  BY DEF EngineInit
<1>4. log' \in Seq(Frames) /\ Len(log') = Len(log) + 1
  BY <1>1, <1>3 DEF EngineTypes, Frames
<1>5. log'[Len(log) + 1] = [kind |-> "base", day |-> eday']
  BY <1>1, <1>3 DEF EngineTypes
<1>6. EngineTypes' /\ HelperTypes' /\ FrontInv'
  BY <1>1, <1>2, <1>3, <1>4 DEF EngineTypes, HelperTypes, FrontInv
<1>7. \A k \in 1 .. Len(log) + 1 : ~NoBase(k)'
  BY <1>1, <1>4, <1>5 DEF NoBase
<1>8. LastDay'
  <2> SUFFICES ASSUME NEW k \in 1 .. Len(log'), NoBase(k + 1)'
               PROVE  log'[k].day = eday'
    BY DEF LastDay
  <2>1. k = Len(log) + 1
    BY <1>1, <1>4, <1>7
  <2> QED
    BY <1>5, <2>1
<1>9. ASSUME NEW h \in Helpers PROVE HelperInv(h)'
  <2>1. HelperInv(h)
    BY DEF DayInv
  <2>2. pos[h] \in 1 .. Len(log) + 1
    BY <2>1 DEF HelperInv
  <2>3. ~NoBase(pos[h])'
    BY <1>2, <1>7, <2>2
  <2> QED
    BY <1>1, <1>2, <1>4, <2>1, <2>2, <2>3 DEF HelperInv
<1> QED
  BY <1>6, <1>8, <1>9 DEF DayInv

(* It listens: a start signal changes nothing about the last day.          *)
LEMMA EngineListenKeeps ==
  ASSUME DayInv, EngineListen
  PROVE  DayInv'
<1>1. EngineTypes /\ HelperTypes /\ FrontInv /\ LastDay /\ Len(log) \in Nat
  BY DEF DayInv, EngineTypes
<1>2. UNCHANGED <<eday, pc, ans, hday, pos, missed>>
  BY DEF EngineListen, hvars
<1>3. log' = Append(log, [kind |-> "start"]) /\ EngineSubscribe(Subscribe0)
  BY DEF EngineListen
<1>4. /\ log' \in Seq(Frames) /\ Len(log') = Len(log) + 1
      /\ \A k \in 1 .. Len(log) : log'[k] = log[k]
      /\ log'[Len(log) + 1] = [kind |-> "start"]
  BY <1>1, <1>3 DEF EngineTypes, Frames
<1>5. subs' \in [Instrs -> Nat] /\ FrontInv'
  BY <1>1, <1>3, EngineSubscribeKeeps
<1>6. EngineTypes' /\ HelperTypes'
  BY <1>1, <1>2, <1>4, <1>5 DEF EngineTypes, HelperTypes
<1>7. ASSUME NEW k \in Nat \ {0}, NoBase(k)' PROVE NoBase(k)
  BY <1>1, <1>4, <1>7 DEF NoBase
<1>8. LastDay'
  <2> SUFFICES ASSUME NEW k \in 1 .. Len(log'), log'[k].kind = "base",
                      NoBase(k + 1)'
               PROVE  log'[k].day = eday'
    BY DEF LastDay
  <2>1. k \in 1 .. Len(log) /\ log'[k] = log[k]
    BY <1>1, <1>4
  <2>2. NoBase(k + 1)
    BY <1>7, <2>1
  <2> QED
    BY <1>1, <1>2, <2>1, <2>2 DEF LastDay
<1>9. ASSUME NEW h \in Helpers PROVE HelperInv(h)'
  <2>1. HelperInv(h) /\ pos[h] \in Nat \ {0}
    BY <1>1 DEF DayInv, HelperTypes, HelperInv
  <2>2. NoBase(pos[h])' => NoBase(pos[h])
    BY <1>2, <1>7, <2>1
  <2> QED
    BY <1>1, <1>2, <1>4, <2>1, <2>2 DEF HelperInv
<1> QED
  BY <1>5, <1>6, <1>8, <1>9 DEF DayInv

(* It ends: nothing is counted and nothing subscribed.                     *)
LEMMA EngineStopKeeps ==
  ASSUME DayInv, EngineStop
  PROVE  DayInv'
<1>1. /\ subs' = [i \in Instrs |-> 0] /\ front' = {}
      /\ UNCHANGED <<eday, log, hvars>>
  BY DEF EngineStop
<1>2. EngineTypes' /\ FrontInv'
  BY <1>1 DEF DayInv, EngineTypes, FrontInv
<1>3. HelperTypes' /\ LastDay' /\ \A h \in Helpers : HelperInv(h)'
  BY <1>1 DEF DayInv, HelperTypes, LastDay, HelperInv, NoBase, hvars
<1> QED
  BY <1>2, <1>3 DEF DayInv

-----------------------------------------------------------------------------
(* At first the engine has counted nothing and the log is empty.          *)
LEMMA InitDayInv == Init => DayInv
<1> SUFFICES ASSUME Init PROVE DayInv
  OBVIOUS
<1>1. EngineTypes /\ FrontInv /\ LastDay
  BY MDAssumption DEF Init, EngineTypes, FrontInv, LastDay, NoBase
<1>2. HelperTypes
  BY DEF Init, HelperTypes, Positions, Answers
<1>3. \A h \in Helpers : HelperInv(h)
  BY DEF Init, HelperInv, Waits
<1> QED
  BY <1>1, <1>2, <1>3 DEF DayInv

(* Every step keeps the invariant.                                        *)
LEMMA NextKeepsDayInv == DayInv /\ [Next]_vars => DayInv'
<1> SUFFICES ASSUME DayInv, [Next]_vars PROVE DayInv'
  OBVIOUS
<1>1. CASE EngineInit \/ EngineListen \/ EngineRead \/ EngineStop
  BY <1>1, EngineInitKeeps, EngineListenKeeps, EngineReadKeeps, EngineStopKeeps
<1>2. ASSUME NEW h \in Helpers,
             \/ HelperStart(h) \/ HelperStep(h) \/ Timeout(h)
             \/ \E i \in Instrs : Subscribe(h, {i}) \/ Unsubscribe(h, {i})
             \/ Release(h) \/ HelperDies(h)
      PROVE  DayInv'
  <2>1. CASE HelperStep(h)
    BY <2>1, HelperStartKeeps, BaseAnsweredKeeps, HelperRunKeeps,
       ReadBaseKeeps, ReadStartKeeps, QueryAnsweredKeeps,
       OtherHelperStepsKeep DEF HelperStep
  <2> QED
    BY <1>2, <2>1, HelperStartKeeps, OtherHelperStepsKeep
<1>3. CASE UNCHANGED vars
  <2>1. UNCHANGED <<eday, subs, front, log, pc, ans, hday, pos, missed>>
    BY <1>3 DEF vars, evars, hvars
  <2>2. EngineTypes' /\ FrontInv' /\ HelperTypes' /\ LastDay'
    BY <2>1 DEF DayInv, EngineTypes, FrontInv, HelperTypes, LastDay, NoBase
  <2>3. \A h \in Helpers : HelperInv(h)'
    BY <2>1 DEF DayInv, HelperInv, NoBase
  <2> QED
    BY <2>2, <2>3 DEF DayInv
<1> QED
  BY <1>1, <1>2, <1>3 DEF Next

(* The invariant holds over restarts of the engine and of strategies, for  *)
(* any number of them, instruments and days.                               *)
THEOREM DayInvHolds == Spec => []DayInv
<1>1. Init => DayInv
  BY InitDayInv
<1>2. DayInv /\ [Next]_vars => DayInv'
  BY NextKeepsDayInv
<1> QED
  BY <1>1, <1>2, PTL DEF Spec

(* The front sends ticks of exactly what engine_subscribe and              *)
(* engine_unsubscribe count, from the first tick on.                       *)
THEOREM FrontFollowsAlways == Spec => []FrontFollows
<1>1. DayInv => FrontFollows
  BY DEF DayInv, FrontInv, FrontFollows
<1> QED
  BY <1>1, DayInvHolds, PTL

(* A strategy that has read all of the engine's log is on the engine's     *)
(* day: the base information that initEngine writes reaches it by          *)
(* CMDHelperComm::read, or by the query that a start signal makes.         *)
THEOREM DayAgreesAlways == Spec => []DayAgrees
<1>1. DayInv => DayAgrees
  <2> SUFFICES ASSUME DayInv, NEW h \in Helpers,
                      pc[h] = "run", pos[h] > Len(log), ~missed[h]
               PROVE  hday[h] = eday
    BY DEF DayAgrees
  <2>1. HelperInv(h) /\ Len(log) \in Nat /\ pos[h] \in Nat
    BY DEF DayInv, EngineTypes, HelperTypes
  <2>2. NoBase(pos[h])
    BY <2>1 DEF NoBase
  <2> QED
    BY <2>1, <2>2 DEF HelperInv
<1> QED
  BY <1>1, DayInvHolds, PTL

-----------------------------------------------------------------------------
(***************************************************************************)
(* The counts of subs_instr_.  A request under way is counted from the     *)
(* moment it is written to the moment the engine reads it, so that what    *)
(* the engine has counted and will count covers what strategies hold.      *)
(***************************************************************************)
Commands == {"heartbeat", "base", "subscribe", "unsubscribe"}
Requests == [cmd : Commands, src : Helpers, bw : Nat, set : SUBSET Instrs]

CountTypes ==
  /\ req \in Seq(Requests) /\ bw \in [Helpers -> Nat]
  /\ map \in [Helpers -> SUBSET Instrs]

(* The requests of a kind that name an instrument, by their place in s. *)
Marked(s, cmd, i) == {k \in 1 .. Len(s) : s[k].cmd = cmd /\ i \in s[k].set}

Users(i) == {h \in Helpers : i \in Held(h)}

(* Nothing is requested of an engine that does not listen, and as long as  *)
(* no subscription has been lost nobody holds anything then.               *)
QuietInv ==
  est # "up" =>
    req = <<>> /\ (calm => \A h \in Helpers : Held(h) = {})

(* The inductive invariant behind CountsCover. *)
CoverInv == DayInv /\ CountTypes /\ QuietInv /\ CountsCover

(* One request more. *)
LEMMA MarkedAppend ==
  ASSUME NEW s \in Seq(Requests), NEW r \in Requests, NEW cmd, NEW i
  PROVE  /\ IsFiniteSet(Marked(s, cmd, i))
         /\ Cardinality(Marked(s, cmd, i)) \in Nat
         /\ Cardinality(Marked(Append(s, r), cmd, i)) =
              Cardinality(Marked(s, cmd, i))
              + IF r.cmd = cmd /\ i \in r.set THEN 1 ELSE 0
<1>1. PICK n \in Nat : n = Len(s)
  OBVIOUS
<1>2. IsFiniteSet(Marked(s, cmd, i)) /\ Cardinality(Marked(s, cmd, i)) \in Nat
  <2>1. IsFiniteSet(1 .. n)
    BY FS_Interval
  <2>2. Marked(s, cmd, i) \in SUBSET (1 .. n)
    BY <1>1 DEF Marked
  <2>3. IsFiniteSet(Marked(s, cmd, i))
    BY <2>1, <2>2, FS_Subset
  <2> QED
    BY <2>3, FS_CardinalityType
<1>3. /\ Len(Append(s, r)) = n + 1 /\ Append(s, r)[n + 1] = r
      /\ \A k \in 1 .. n : Append(s, r)[k] = s[k]
  BY <1>1
<1>4. CASE r.cmd = cmd /\ i \in r.set
  <2>1. Marked(Append(s, r), cmd, i) = Marked(s, cmd, i) \cup {n + 1}
    BY <1>1, <1>3, <1>4 DEF Marked
  <2>2. n + 1 \notin Marked(s, cmd, i)
    BY <1>1 DEF Marked
  <2> QED
    BY ZenonT(60), <1>2, <1>4, <2>1, <2>2, FS_AddElement
<1>5. CASE ~(r.cmd = cmd /\ i \in r.set)
  <2>1. Marked(Append(s, r), cmd, i) = Marked(s, cmd, i)
    BY <1>1, <1>3, <1>5 DEF Marked
  <2> QED
    BY <1>2, <1>5, <2>1
<1> QED
  BY <1>2, <1>4, <1>5

(* One request less. *)
LEMMA MarkedTail ==
  ASSUME NEW s \in Seq(Requests), s # <<>>, NEW cmd, NEW i
  PROVE  /\ Cardinality(Marked(Tail(s), cmd, i)) \in Nat
         /\ Cardinality(Marked(s, cmd, i)) =
              Cardinality(Marked(Tail(s), cmd, i))
              + IF Head(s).cmd = cmd /\ i \in Head(s).set THEN 1 ELSE 0
<1>1. PICK n \in Nat : n + 1 = Len(s)
  <2>1. Len(s) \in Nat /\ Len(s) # 0
    OBVIOUS
  <2>2. Len(s) - 1 \in Nat /\ (Len(s) - 1) + 1 = Len(s)
    BY <2>1
  <2> QED
    BY <2>2
<1>2. /\ Tail(s) \in Seq(Requests) /\ Len(Tail(s)) = n /\ Head(s) = s[1]
      /\ \A k \in 1 .. n : Tail(s)[k] = s[k + 1]
  BY <1>1
<1>3. PICK T, M : T = Marked(Tail(s), cmd, i) /\ M = Marked(s, cmd, i)
  OBVIOUS
<1>4. \A k : k \in T <=> /\ k \in 1 .. n
                         /\ s[k + 1].cmd = cmd /\ i \in s[k + 1].set
  BY <1>2, <1>3 DEF Marked
<1>5. \A k : k \in M <=> /\ k \in 1 .. n + 1
                         /\ s[k].cmd = cmd /\ i \in s[k].set
  BY <1>1, <1>3 DEF Marked
<1>6. IsFiniteSet(T) /\ Cardinality(T) \in Nat
  <2>1. IsFiniteSet(1 .. n) /\ T \in SUBSET (1 .. n)
    BY <1>4, FS_Interval
  <2> QED
    BY <2>1, FS_Subset, FS_CardinalityType
<1>7. IsFiniteSet(M \ {1}) /\ Cardinality(M \ {1}) = Cardinality(T)
  <2>1. PICK f : f = [k \in T |-> k + 1]
    OBVIOUS
  <2>2. \A k \in T : f[k] \in M \ {1}
    BY <1>4, <1>5, <2>1
  <2>3. \A k \in M \ {1} : k - 1 \in T /\ f[k - 1] = k
    <3> SUFFICES ASSUME NEW k \in M \ {1}
                 PROVE  k - 1 \in T /\ f[k - 1] = k
      OBVIOUS
    <3>1. /\ k \in 1 .. n + 1 /\ k # 1
          /\ s[k].cmd = cmd /\ i \in s[k].set
      BY <1>5
    <3>2. k - 1 \in 1 .. n /\ (k - 1) + 1 = k
      BY <3>1
    <3>3. k - 1 \in T
      BY <1>4, <3>1, <3>2
    <3> QED
      BY <2>1, <3>2, <3>3
  <2>4. \A k, l \in T : f[k] = f[l] => k = l
    BY <1>4, <2>1
  <2>5. f \in Bijection(T, M \ {1})
    <3>1. f \in [T -> M \ {1}]
      BY <2>1, <2>2
    <3>2. \A k \in M \ {1} : \E l \in T : f[l] = k
      BY <2>3
    <3>3. f \in Injection(T, M \ {1})
      BY <3>1, <2>4 DEF Injection, IsInjective
    <3>4. f \in Surjection(T, M \ {1})
      BY <3>1, <3>2 DEF Surjection
    <3> QED
      BY <3>3, <3>4 DEF Bijection
  <2> QED
    BY <1>6, <2>5, FS_Bijection DEF ExistsBijection
<1>8. CASE 1 \in M
  <2>1. M = (M \ {1}) \cup {1} /\ 1 \notin M \ {1}
    BY <1>8
  <2>2. Cardinality(M) = Cardinality(T) + 1
    BY <1>7, <2>1, FS_AddElement
  <2>3. Head(s).cmd = cmd /\ i \in Head(s).set
    BY <1>2, <1>5, <1>8
  <2> QED
    BY <1>3, <1>6, <2>2, <2>3
<1>9. CASE 1 \notin M
  <2>1. M = M \ {1}
    BY <1>9
  <2>2. ~(Head(s).cmd = cmd /\ i \in Head(s).set)
    BY <1>2, <1>5, <1>9
  <2>3. Cardinality(M) = Cardinality(T)
    BY <1>7, <2>1
  <2>4. Cardinality(M) = Cardinality(T)
          + IF Head(s).cmd = cmd /\ i \in Head(s).set THEN 1 ELSE 0
    BY <1>6, <2>2, <2>3
  <2> QED
    BY <1>3, <1>6, <2>4
<1> QED
  BY SMTT(30), <1>8, <1>9

(* Two sets of strategies that differ in one at most. *)
LEMMA UsersDiffer ==
  ASSUME NEW U \in SUBSET Helpers, NEW V \in SUBSET Helpers, NEW h \in Helpers,
         \A g \in Helpers \ {h} : g \in V <=> g \in U
  PROVE  /\ Cardinality(U) \in Nat /\ Cardinality(V) \in Nat
         /\ h \in U /\ h \in V => Cardinality(V) = Cardinality(U)
         /\ h \in U /\ h \notin V => Cardinality(V) = Cardinality(U) - 1
         /\ h \notin U /\ h \in V => Cardinality(V) = Cardinality(U) + 1
         /\ h \notin U /\ h \notin V => Cardinality(V) = Cardinality(U)
<1>1. IsFiniteSet(U) /\ IsFiniteSet(V)
  BY MDAssumption, FS_Subset
<1>2. Cardinality(U) \in Nat /\ Cardinality(V) \in Nat
  BY <1>1, FS_CardinalityType
<1>3. (h \in U <=> h \in V) => U = V
  OBVIOUS
<1>4. h \in U /\ h \notin V => V = U \ {h}
  OBVIOUS
<1>5. h \notin U /\ h \in V => V = U \cup {h}
  OBVIOUS
<1> QED
  BY <1>1, <1>2, <1>3, <1>4, <1>5, FS_AddElement, FS_RemoveElement

(* CountsCover, with its sets named. *)
LEMMA CoverMeans ==
  CountsCover <=>
    (calm => \A i \in Listed[eday] :
       subs[i] + Cardinality(Marked(req, "subscribe", i)) >=
         Cardinality(Users(i)) + Cardinality(Marked(req, "unsubscribe", i)))
BY DEF CountsCover, Pending, Marked, Users

(* What a strategy's step does to the requests and to what it holds: it     *)
(* takes no more than it asks for, and asks to give back what it holds.    *)
Moves(h) ==
  \/ req' = req /\ (calm' => Held(h)' \subseteq Held(h))
  \/ /\ est = "up"
     /\ \E r \in Requests :
          /\ req' = Append(req, r)
          /\ r.cmd \in {"heartbeat", "base"} => Held(h)' \subseteq Held(h)
          /\ r.cmd = "subscribe" => Held(h)' \subseteq Held(h) \cup r.set
          /\ r.cmd = "unsubscribe" =>
               Held(h)' \subseteq Held(h) \ r.set /\ r.set \subseteq Held(h)

(* Such a step keeps the counts covering. *)
LEMMA MoveKeeps ==
  ASSUME CoverInv, NEW h \in Helpers, DayInv', CountTypes', Moves(h),
         UNCHANGED <<est, eday, subs>>, calm' => calm,
         \A g \in Helpers \ {h} : Held(g)' = Held(g)
  PROVE  CoverInv'
<1> USE MDAssumption
<1>1. QuietInv'
  <2> SUFFICES ASSUME est # "up"
               PROVE  /\ req' = <<>>
                      /\ calm' => \A g \in Helpers : Held(g)' = {}
    BY DEF QuietInv
  <2>1. req' = req /\ (calm' => Held(h)' \subseteq Held(h))
    BY DEF Moves
  <2>2. req = <<>> /\ (calm => \A g \in Helpers : Held(g) = {})
    BY DEF CoverInv, QuietInv
  <2> QED
    BY <2>1, <2>2
<1>2. CountsCover'
  <2> SUFFICES ASSUME calm', NEW i \in Listed[eday]
               PROVE  subs[i] + Cardinality(Marked(req', "subscribe", i)) >=
                        Cardinality(Users(i)')
                        + Cardinality(Marked(req', "unsubscribe", i))
    BY DEF CountsCover, Pending, Marked, Users
  <2>1. subs[i] + Cardinality(Marked(req, "subscribe", i)) >=
          Cardinality(Users(i)) + Cardinality(Marked(req, "unsubscribe", i))
    BY CoverMeans DEF CoverInv
  <2>2. subs[i] \in Nat /\ req \in Seq(Requests)
    BY DEF CoverInv, DayInv, EngineTypes, CountTypes
  <2>3. PICK U, V : U = Users(i) /\ V = Users(i)'
    OBVIOUS
  <2>4. /\ U \in SUBSET Helpers /\ V \in SUBSET Helpers
        /\ \A g \in Helpers \ {h} : g \in V <=> g \in U
        /\ h \in U <=> i \in Held(h)
        /\ h \in V <=> i \in Held(h)'
    BY <2>3 DEF Users
  <2>5. /\ Cardinality(U) \in Nat /\ Cardinality(V) \in Nat
        /\ h \in U /\ h \in V => Cardinality(V) = Cardinality(U)
        /\ h \in U /\ h \notin V => Cardinality(V) = Cardinality(U) - 1
        /\ h \notin U /\ h \in V => Cardinality(V) = Cardinality(U) + 1
        /\ h \notin U /\ h \notin V => Cardinality(V) = Cardinality(U)
    BY <2>4, UsersDiffer
  <2>6. CASE req' = req /\ (calm' => Held(h)' \subseteq Held(h))
    <3>1. Cardinality(V) <= Cardinality(U)
      BY <2>4, <2>5, <2>6
    <3>2. Requests # {}
      <4>1. [cmd |-> "base", src |-> h, bw |-> 0, set |-> {}] \in Requests
        BY DEF Requests, Commands
      <4> QED
        BY <4>1
    <3>3. /\ Cardinality(Marked(req, "subscribe", i)) \in Nat
          /\ Cardinality(Marked(req, "unsubscribe", i)) \in Nat
      BY <2>2, <3>2, MarkedAppend
    <3> QED
      BY SMTT(30), <2>1, <2>2, <2>3, <2>5, <2>6, <3>1, <3>3
  <2>7. ASSUME NEW r \in Requests, req' = Append(req, r),
               r.cmd \in {"heartbeat", "base"} => Held(h)' \subseteq Held(h),
               r.cmd = "subscribe" => Held(h)' \subseteq Held(h) \cup r.set,
               r.cmd = "unsubscribe" =>
                 Held(h)' \subseteq Held(h) \ r.set /\ r.set \subseteq Held(h)
        PROVE  subs[i] + Cardinality(Marked(req', "subscribe", i)) >=
                 Cardinality(V) + Cardinality(Marked(req', "unsubscribe", i))
    <3>1. PICK s, u, s2, u2 :
            /\ s = Cardinality(Marked(req, "subscribe", i))
            /\ u = Cardinality(Marked(req, "unsubscribe", i))
            /\ s2 = Cardinality(Marked(req', "subscribe", i))
            /\ u2 = Cardinality(Marked(req', "unsubscribe", i))
      OBVIOUS
    <3>2. s \in Nat /\ u \in Nat
      BY <2>2, <2>7, <3>1, MarkedAppend
    <3>3. s2 = s + IF r.cmd = "subscribe" /\ i \in r.set THEN 1 ELSE 0
      BY <2>2, <2>7, <3>1, MarkedAppend
    <3>4. u2 = u + IF r.cmd = "unsubscribe" /\ i \in r.set THEN 1 ELSE 0
      BY <2>2, <2>7, <3>1, MarkedAppend
    <3>5. PICK c, a, b : c = subs[i] /\ a = Cardinality(U) /\ b = Cardinality(V)
      OBVIOUS
    <3>6. c \in Nat /\ a \in Nat /\ b \in Nat /\ c + s >= a + u
      BY <2>1, <2>2, <2>3, <2>5, <3>1, <3>5
    <3>7. SUFFICES c + s2 >= b + u2
      BY <3>1, <3>5
    <3>8. CASE r.cmd \in {"heartbeat", "base"}
      <4>1. s2 = s /\ u2 = u
        BY <3>2, <3>3, <3>4, <3>8
      <4>2. b <= a
        BY <2>4, <2>5, <2>7, <3>5, <3>8
      <4> QED
        BY <3>2, <3>6, <4>1, <4>2
    <3>9. CASE r.cmd = "subscribe"
      <4>1. u2 = u
        BY <3>2, <3>4, <3>9
      <4>2. \/ s2 = s + 1 /\ b <= a + 1
            \/ s2 = s /\ b <= a
        BY <2>4, <2>5, <2>7, <3>2, <3>3, <3>5, <3>9
      <4> QED
        BY <3>2, <3>6, <4>1, <4>2
    <3>10. CASE r.cmd = "unsubscribe"
      <4>1. s2 = s
        BY <3>2, <3>3, <3>10
      <4>2. \/ u2 = u + 1 /\ b = a - 1
            \/ u2 = u /\ b <= a
        BY <2>4, <2>5, <2>7, <3>2, <3>4, <3>5, <3>10
      <4> QED
        BY <3>2, <3>6, <4>1, <4>2
    <3> QED
      BY <2>7, <3>8, <3>9, <3>10 DEF Requests, Commands
  <2> QED
    BY <2>3, <2>6, <2>7 DEF Moves
<1> QED
  BY <1>1, <1>2 DEF CoverInv

(* A step of strategy h, for the counts. *)
StepOf(h) ==
  /\ CountTypes' /\ Moves(h) /\ (calm' => calm)
  /\ \A g \in Helpers \ {h} : Held(g)' = Held(g)

(* What the map of one strategy may become. *)
MapStep(h) ==
  /\ map' \in [Helpers -> SUBSET Instrs]
  /\ \A g \in Helpers \ {h} : map'[g] = map[g]

(* The others hold what they held. *)
LEMMA OthersHold ==
  ASSUME NEW h \in Helpers, MapStep(h),
         \A g \in Helpers \ {h} : pc'[g] = pc[g]
  PROVE  \A g \in Helpers \ {h} : Held(g)' = Held(g)
BY DEF MapStep, Held

(* A strategy that goes on, with no more than it held. *)
LEMMA GoOnMoves ==
  ASSUME CoverInv, NEW h \in Helpers, NEW next, GoOn(h, next), MapStep(h),
         req' = req, calm' = calm, bw' \in [Helpers -> Nat],
         Held(h)' \subseteq Held(h)
  PROVE  StepOf(h)
<1>1. \A g \in Helpers \ {h} : pc'[g] = pc[g]
  BY DEF GoOn, CoverInv, DayInv, HelperTypes
<1>2. \A g \in Helpers \ {h} : Held(g)' = Held(g)
  BY <1>1, OthersHold
<1>3. CountTypes'
  BY DEF CoverInv, CountTypes, MapStep
<1> QED
  BY <1>2, <1>3 DEF StepOf, Moves

(* A strategy that writes a request. *)
LEMMA RequestMoves ==
  ASSUME CoverInv, NEW h \in Helpers, NEW cmd \in Commands,
         NEW S \in SUBSET Instrs, NEW next, NEW id \in Nat,
         Request(h, cmd, S, next, id), MapStep(h),
         cmd \in {"heartbeat", "base"} => Held(h)' \subseteq Held(h),
         cmd = "subscribe" => Held(h)' \subseteq Held(h) \cup S,
         cmd = "unsubscribe" =>
           Held(h)' \subseteq Held(h) \ S /\ S \subseteq Held(h)
  PROVE  StepOf(h)
<1>1. \A g \in Helpers \ {h} : pc'[g] = pc[g]
  BY DEF Request, CoverInv, DayInv, HelperTypes
<1>2. \A g \in Helpers \ {h} : Held(g)' = Held(g)
  BY <1>1, OthersHold
<1>3. PICK r : r = [cmd |-> cmd, src |-> h, bw |-> id, set |-> S]
  OBVIOUS
<1>4. r \in Requests /\ r.cmd = cmd /\ r.set = S
  BY <1>3 DEF Requests
<1>5. req' = IF est = "up" THEN Append(req, r) ELSE req
  BY <1>3 DEF Request
<1>6. CountTypes'
  <2>1. req' \in Seq(Requests)
    BY <1>4, <1>5 DEF CoverInv, CountTypes
  <2>2. bw' \in [Helpers -> Nat]
    BY DEF Request, CoverInv, CountTypes
  <2> QED
    BY <2>1, <2>2 DEF CountTypes, MapStep
<1>7. calm' = (calm /\ (est = "up" \/ cmd \notin {"subscribe", "unsubscribe"}))
  BY DEF Request
<1>8. Moves(h)
  <2>1. CASE est = "up"
    BY <2>1, <1>4, <1>5 DEF Moves
  <2>2. CASE est # "up"
    <3>1. calm' => cmd \in {"heartbeat", "base"}
      BY <2>2, <1>7 DEF Commands
    <3> QED
      BY <2>2, <3>1, <1>5 DEF Moves
  <2> QED
    BY <2>1, <2>2
<1> QED
  BY <1>2, <1>6, <1>7, <1>8 DEF StepOf

(* A subscription or its end, which is not sent when it names nothing. *)
LEMMA DoRequestMoves ==
  ASSUME CoverInv, NEW h \in Helpers, NEW cmd \in {"subscribe", "unsubscribe"},
         NEW S \in SUBSET Instrs, DoRequest(h, cmd, S), MapStep(h),
         pc[h] # "release",
         cmd = "subscribe" => map'[h] \subseteq map[h] \cup S,
         cmd = "unsubscribe" =>
           map'[h] \subseteq map[h] \ S /\ S \subseteq map[h]
  PROVE  StepOf(h)
<1>1. Held(h) = map[h] /\ bw[h] \in Nat /\ bw \in [Helpers -> Nat]
  BY DEF Held, CoverInv, CountTypes
<1>2. CASE S = {}
  <2>1. GoOn(h, "run") /\ UNCHANGED <<bw, req, calm>>
    BY <1>2 DEF DoRequest
  <2>2. pc'[h] = "run"
    BY <2>1 DEF GoOn, CoverInv, DayInv, HelperTypes
  <2>3. Held(h)' \subseteq Held(h)
    BY <1>1, <1>2, <2>2 DEF Held
  <2> QED
    BY <1>1, <2>1, <2>3, GoOnMoves
<1>3. CASE S # {}
  <2>1. Request(h, cmd, S, "ack", bw[h] + 1)
    BY <1>3 DEF DoRequest
  <2>2. pc'[h] = "ack"
    BY <2>1 DEF Request, CoverInv, DayInv, HelperTypes
  <2>3. Held(h)' = map'[h]
    BY <2>2 DEF Held
  <2>4. cmd \in Commands /\ bw[h] + 1 \in Nat
    BY <1>1 DEF Commands
  <2> QED
    BY <1>1, <2>1, <2>3, <2>4, RequestMoves
<1> QED
  BY <1>2, <1>3

(* The change of day. *)
LEMMA SwitchDayMoves ==
  ASSUME CoverInv, NEW h \in Helpers, NEW d, SwitchDay(h, d),
         pc[h] # "release"
  PROVE  StepOf(h)
<1>1. PICK S : S = Want[h] \cap Listed[d]
  OBVIOUS
<1>2. S \in SUBSET Instrs
  BY <1>1, MDAssumption
<1>3. map' = [map EXCEPT ![h] = S] /\ DoRequest(h, "subscribe", S)
  BY <1>1 DEF SwitchDay
<1>4. MapStep(h) /\ map'[h] = S
  BY <1>2, <1>3 DEF MapStep, CoverInv, CountTypes
<1> QED
  BY <1>2, <1>3, <1>4, DoRequestMoves

(* The end of a strategy: it holds nothing any more. *)
LEMMA EndedMoves ==
  ASSUME CoverInv, NEW h \in Helpers, Ended(h), req' = req, calm' = calm
  PROVE  StepOf(h)
<1>1. /\ GoOn(h, "down") /\ bw' = [bw EXCEPT ![h] = 0]
      /\ map' = [map EXCEPT ![h] = {}]
  BY DEF Ended
<1>2. MapStep(h) /\ map'[h] = {} /\ bw' \in [Helpers -> Nat]
  BY <1>1 DEF MapStep, CoverInv, CountTypes
<1>3. Held(h)' = {}
  BY <1>2 DEF Held
<1> QED
  BY <1>1, <1>2, <1>3, GoOnMoves

(* The steps of a strategy by itself. *)
LEMMA HelperStepMoves ==
  ASSUME CoverInv, NEW h \in Helpers, HelperStart(h) \/ HelperStep(h)
  PROVE  StepOf(h) /\ UNCHANGED evars
<1>0. /\ pc \in [Helpers -> Positions] /\ bw \in [Helpers -> Nat]
      /\ map \in [Helpers -> SUBSET Instrs]
  BY DEF CoverInv, DayInv, HelperTypes, CountTypes
<1>m. map' = map => MapStep(h)
  BY <1>0 DEF MapStep
<1>1. CASE HelperStart(h)
  <2>1. /\ Request(h, "heartbeat", {}, "heartbeat", 1) /\ map' = map
        /\ pc[h] = "down" /\ UNCHANGED evars
    BY <1>1 DEF HelperStart
  <2>2. Held(h)' \subseteq Held(h)
    BY <2>1 DEF Held
  <2> QED
    BY <1>m, <2>1, <2>2, RequestMoves DEF Commands
<1>2. CASE HeartbeatAnswered(h)
  <2>1. /\ Request(h, "base", {}, "base", bw[h] + 1) /\ map' = map
        /\ pc[h] = "heartbeat" /\ UNCHANGED evars
    BY <1>2 DEF HeartbeatAnswered
  <2>2. Held(h)' \subseteq Held(h) /\ bw[h] + 1 \in Nat
    BY <1>0, <2>1 DEF Held
  <2> QED
    BY <1>m, <2>1, <2>2, RequestMoves DEF Commands
<1>3. CASE BaseAnswered(h)
  <2>1. /\ GoOn(h, "reader") /\ pc[h] = "base"
        /\ UNCHANGED <<req, calm, map, bw>> /\ UNCHANGED evars
    BY <1>3 DEF BaseAnswered
  <2>2. Held(h)' \subseteq Held(h)
    BY <2>1 DEF Held
  <2> QED
    BY <1>0, <1>m, <2>1, <2>2, GoOnMoves
<1>4. CASE HelperRun(h)
  <2>1. /\ SwitchDay(h, hday[h]) /\ pc[h] # "release" /\ UNCHANGED evars
    BY <1>4 DEF HelperRun
  <2> QED
    BY <2>1, SwitchDayMoves
<1>5. CASE ReadBase(h)
  <2>1. pc[h] = "run" /\ UNCHANGED evars
    BY <1>5 DEF ReadBase
  <2>2. CASE log[pos[h]].day # hday[h]
    <3>1. SwitchDay(h, log[pos[h]].day)
      BY <1>5, <2>2 DEF ReadBase
    <3> QED
      BY <2>1, <3>1, SwitchDayMoves
  <2>3. CASE ~(log[pos[h]].day # hday[h])
    <3>1. UNCHANGED <<req, pc, bw, map, calm>>
      BY <1>5, <2>3 DEF ReadBase
    <3>2. \A g \in Helpers : Held(g)' = Held(g)
      BY <3>1 DEF Held
    <3> QED
      BY <2>1, <3>1, <3>2 DEF StepOf, Moves, CoverInv, CountTypes
  <2> QED
    BY <2>2, <2>3
<1>6. CASE ReadStart(h)
  <2>1. pc[h] = "run" /\ UNCHANGED evars /\ map' = map
    BY <1>6 DEF ReadStart
  <2>2. CASE Request(h, "base", {}, "query", bw[h] + 1)
    <3>1. pc'[h] = "query"
      BY <1>0, <2>2 DEF Request
    <3>2. Held(h)' \subseteq Held(h) /\ bw[h] + 1 \in Nat
      BY <1>0, <2>1, <3>1 DEF Held
    <3> QED
      BY <1>m, <2>1, <2>2, <3>2, RequestMoves DEF Commands
  <2>3. CASE UNCHANGED <<req, pc, bw, calm>>
    <3>1. \A g \in Helpers : Held(g)' = Held(g)
      BY <2>1, <2>3 DEF Held
    <3> QED
      BY <2>1, <2>3, <3>1 DEF StepOf, Moves, CoverInv, CountTypes
  <2> QED
    BY <1>6, <2>2, <2>3 DEF ReadStart
<1>7. CASE QueryAnswered(h)
  <2>1. pc[h] # "release" /\ UNCHANGED evars
    BY <1>7 DEF QueryAnswered
  <2>2. CASE ans[h].day # hday[h]
    <3>1. SwitchDay(h, ans[h].day)
      BY <1>7, <2>2 DEF QueryAnswered
    <3> QED
      BY <2>1, <3>1, SwitchDayMoves
  <2>3. CASE ~(ans[h].day # hday[h])
    <3>1. DoRequest(h, "subscribe", map[h]) /\ map' = map
      BY <1>7, <2>3 DEF QueryAnswered
    <3>2. map[h] \in SUBSET Instrs
      BY <1>0
    <3> QED
      BY <1>m, <2>1, <3>1, <3>2, DoRequestMoves
  <2> QED
    BY <2>2, <2>3
<1>8. CASE Acknowledged(h)
  <2>1. /\ GoOn(h, "run") /\ pc[h] = "ack"
        /\ UNCHANGED <<req, calm, map, bw>> /\ UNCHANGED evars
    BY <1>8 DEF Acknowledged
  <2>2. Held(h)' \subseteq Held(h)
    BY <2>1 DEF Held
  <2> QED
    BY <1>0, <1>m, <2>1, <2>2, GoOnMoves
<1>9. CASE Released(h)
  <2>1. Ended(h) /\ req' = req /\ calm' = calm /\ UNCHANGED evars
    BY <1>9 DEF Released
  <2> QED
    BY <2>1, EndedMoves
<1> QED
  BY <1>1, <1>2, <1>3, <1>4, <1>5, <1>6, <1>7, <1>8, <1>9 DEF HelperStep

(* The timeout, the calls and the end of a strategy. *)
LEMMA HelperCallMoves ==
  ASSUME CoverInv, NEW h \in Helpers,
         \/ Timeout(h)
         \/ \E i \in Instrs : Subscribe(h, {i}) \/ Unsubscribe(h, {i})
         \/ Release(h) \/ HelperDies(h)
  PROVE  StepOf(h) /\ UNCHANGED evars
<1>0. /\ pc \in [Helpers -> Positions] /\ bw \in [Helpers -> Nat]
      /\ map \in [Helpers -> SUBSET Instrs]
  BY DEF CoverInv, DayInv, HelperTypes, CountTypes
<1>m. map' = map => MapStep(h)
  BY <1>0 DEF MapStep
<1>1. CASE Timeout(h)
  <2>1. UNCHANGED <<req, calm>> /\ UNCHANGED evars
    BY <1>1 DEF Timeout
  <2>2. CASE pc[h] \in {"ack", "query"}
    <3>1. GoOn(h, "run") /\ UNCHANGED <<bw, map>>
      BY <1>1, <2>2 DEF Timeout
    <3>2. Held(h)' \subseteq Held(h)
      BY <2>2, <3>1 DEF Held
    <3> QED
      BY <1>0, <1>m, <2>1, <3>1, <3>2, GoOnMoves
  <2>3. CASE pc[h] \notin {"ack", "query"}
    <3>1. Ended(h)
      BY <1>1, <2>3 DEF Timeout
    <3> QED
      BY <2>1, <3>1, EndedMoves
  <2> QED
    BY <2>2, <2>3
<1>2. ASSUME NEW i \in Instrs, Subscribe(h, {i})
      PROVE  StepOf(h) /\ UNCHANGED evars
  <2>1. PICK T : T = ({i} \cap Listed[hday[h]]) \ map[h]
    OBVIOUS
  <2>2. /\ T \in SUBSET Instrs /\ pc[h] = "run" /\ UNCHANGED evars
        /\ map' = [map EXCEPT ![h] = map[h] \cup T]
        /\ DoRequest(h, "subscribe", T)
    BY <1>0, <1>2, <2>1 DEF Subscribe
  <2>3. MapStep(h) /\ map'[h] = map[h] \cup T
    BY <1>0, <2>2 DEF MapStep
  <2> QED
    BY <2>2, <2>3, DoRequestMoves
<1>3. ASSUME NEW i \in Instrs, Unsubscribe(h, {i})
      PROVE  StepOf(h) /\ UNCHANGED evars
  <2>1. PICK T : T = {i} \cap Listed[hday[h]] \cap map[h]
    OBVIOUS
  <2>2. /\ T \in SUBSET Instrs /\ T \subseteq map[h]
        /\ pc[h] = "run" /\ UNCHANGED evars
        /\ map' = [map EXCEPT ![h] = map[h] \ T]
        /\ DoRequest(h, "unsubscribe", T)
    BY <1>0, <1>3, <2>1 DEF Unsubscribe
  <2>3. MapStep(h) /\ map'[h] = map[h] \ T
    BY <1>0, <2>2 DEF MapStep
  <2> QED
    BY <2>2, <2>3, DoRequestMoves
<1>4. CASE Release(h)
  <2>1. pc[h] = "run" /\ UNCHANGED evars
    BY <1>4 DEF Release
  <2>2. CASE map[h] = {}
    <3>1. Ended(h) /\ req' = req /\ calm' = calm
      BY <1>4, <2>2 DEF Release
    <3> QED
      BY <2>1, <3>1, EndedMoves
  <2>3. CASE map[h] # {}
    <3>1. Request(h, "unsubscribe", map[h], "release", bw[h] + 1) /\ map' = map
      BY <1>4, <2>3 DEF Release
    <3>2. pc'[h] = "release"
      BY <1>0, <3>1 DEF Request
    <3>3. Held(h) = map[h] /\ Held(h)' = {}
      BY <2>1, <3>2 DEF Held
    <3>4. map[h] \in SUBSET Instrs /\ bw[h] + 1 \in Nat
      BY <1>0
    <3> QED
      BY <1>m, <2>1, <3>1, <3>3, <3>4, RequestMoves DEF Commands
  <2> QED
    BY <2>2, <2>3
<1>5. CASE HelperDies(h)
  <2>1. Ended(h) /\ req' = req /\ calm' = calm /\ UNCHANGED evars
    BY <1>5 DEF HelperDies
  <2> QED
    BY <2>1, EndedMoves
<1> QED
  BY <1>1, <1>2, <1>3, <1>4, <1>5

(* The engine reads a request: what it counts, it has not to count later. *)
LEMMA EngineReadCovers ==
  ASSUME CoverInv, EngineRead, DayInv'
  PROVE  CoverInv'
<1> USE MDAssumption
<1>1. /\ est = "up" /\ req # <<>> /\ req \in Seq(Requests)
      /\ req' = Tail(req) /\ UNCHANGED <<est, eday, pc, map, bw, calm>>
  BY DEF EngineRead, CoverInv, CountTypes
<1>2. PICK r : r = Head(req)
  OBVIOUS
<1>3. /\ eday \in Days /\ subs \in [Instrs -> Nat]
      /\ subs' \in [Instrs -> Nat]
  BY DEF CoverInv, DayInv, EngineTypes
<1>4. CountTypes' /\ QuietInv'
  BY <1>1 DEF CoverInv, CountTypes, QuietInv
<1>5. CountsCover'
  <2> SUFFICES ASSUME calm, NEW i \in Listed[eday]
               PROVE  subs'[i] + Cardinality(Marked(req', "subscribe", i)) >=
                        Cardinality(Users(i))
                        + Cardinality(Marked(req', "unsubscribe", i))
    <3>1. \A h \in Helpers : Held(h)' = Held(h)
      BY <1>1 DEF Held
    <3>2. \A i \in Listed[eday] : Users(i)' = Users(i)
      BY <3>1 DEF Users
    <3>3. CountsCover' <=>
            (calm' => \A i \in Listed[eday'] :
               subs'[i] + Cardinality(Marked(req', "subscribe", i)) >=
                 Cardinality(Users(i)')
                 + Cardinality(Marked(req', "unsubscribe", i)))
      BY DEF CountsCover, Pending, Marked, Users
    <3> QED
      BY <1>1, <3>2, <3>3
  <2>1. PICK s, u, s2, u2, n, a, b :
          /\ s = Cardinality(Marked(req, "subscribe", i))
          /\ u = Cardinality(Marked(req, "unsubscribe", i))
          /\ s2 = Cardinality(Marked(Tail(req), "subscribe", i))
          /\ u2 = Cardinality(Marked(Tail(req), "unsubscribe", i))
          /\ n = Cardinality(Users(i)) /\ a = subs[i] /\ b = subs'[i]
    OBVIOUS
  <2>2. SUFFICES b + s2 >= n + u2
    BY <1>1, <2>1
  <2>3. s2 \in Nat /\ s = s2 + IF r.cmd = "subscribe" /\ i \in r.set
                               THEN 1 ELSE 0
    BY <1>1, <1>2, <2>1, MarkedTail
  <2>4. u2 \in Nat /\ u = u2 + IF r.cmd = "unsubscribe" /\ i \in r.set
                               THEN 1 ELSE 0
    BY <1>1, <1>2, <2>1, MarkedTail
  <2>5. i \in Instrs /\ a \in Nat /\ b \in Nat
    BY <1>3, <2>1
  <2>6. n \in Nat
    <3>1. IsFiniteSet(Users(i))
      BY FS_Subset DEF Users
    <3> QED
      BY <2>1, <3>1, FS_CardinalityType
  <2>7. a + s >= n + u
    BY <2>1, CoverMeans DEF CoverInv
  <2>8. CASE subs' = subs /\ r.cmd \in {"heartbeat", "base"}
    <3>1. b = a /\ s = s2 /\ u = u2
      BY <2>1, <2>3, <2>4, <2>8
    <3> QED
      BY <2>7, <3>1
  <2>9. CASE r.cmd = "subscribe" /\ EngineSubscribe(r.set)
    <3>1. b = IF i \in r.set THEN a + 1 ELSE a
      BY <2>1, <2>5, <2>9 DEF EngineSubscribe
    <3>2. u = u2
      BY <2>4, <2>9
    <3> QED
      BY <2>3, <2>4, <2>5, <2>6, <2>7, <2>9, <3>1, <3>2
  <2>10. CASE r.cmd = "unsubscribe" /\ EngineUnsubscribe(r.set)
    <3>1. b = IF i \in r.set /\ a > 0 THEN a - 1 ELSE a
      BY <2>1, <2>5, <2>10 DEF EngineUnsubscribe
    <3>2. s = s2
      BY <2>3, <2>10
    <3>3. i \in r.set => u = u2 + 1
      BY <2>4, <2>10
    <3>4. i \notin r.set => u = u2
      BY <2>4, <2>10
    <3> QED
      BY <2>3, <2>4, <2>5, <2>6, <2>7, <3>1, <3>2, <3>3, <3>4
  <2> QED
    BY <1>2, <2>8, <2>9, <2>10 DEF EngineRead
<1> QED
  BY <1>4, <1>5 DEF CoverInv

(* Without requests none is under way. *)
LEMMA NothingMarked ==
  ASSUME NEW cmd, NEW i
  PROVE  Cardinality(Marked(<<>>, cmd, i)) = 0
<1>1. Marked(<<>>, cmd, i) = {}
  BY DEF Marked
<1> QED
  BY <1>1, FS_EmptySet

(* The engine starts, listens and ends. *)
LEMMA EngineCovers ==
  ASSUME CoverInv, EngineInit \/ EngineListen \/ EngineStop, DayInv'
  PROVE  CoverInv'
<1> USE MDAssumption
<1>0. subs' \in [Instrs -> Nat] /\ eday' \in Days
  BY DEF DayInv, EngineTypes
<1>1. UNCHANGED <<pc, map, bw>> /\ (calm' => calm)
  <2>1. UNCHANGED hvars
    BY DEF EngineInit, EngineListen, EngineStop
  <2>2. CASE EngineStop
    BY <2>1, <2>2 DEF EngineStop, hvars
  <2>3. CASE EngineInit \/ EngineListen
    <3>1. calm' = calm
      BY <2>3 DEF EngineInit, EngineListen
    <3> QED
      BY <2>1, <3>1 DEF hvars
  <2> QED
    BY <2>2, <2>3
<1>2. req' = <<>>
  BY DEF EngineInit, EngineListen, EngineStop, CoverInv, QuietInv
<1>3. calm' => \A h \in Helpers : Held(h)' = {}
  <2>1. \A h \in Helpers : Held(h)' = Held(h)
    BY <1>1 DEF Held
  <2>2. CASE EngineInit \/ EngineListen
    <3>1. est # "up"
      BY <2>2 DEF EngineInit, EngineListen
    <3> QED
      BY <1>1, <2>1, <3>1 DEF CoverInv, QuietInv
  <2>3. CASE EngineStop
    BY <2>1, <2>3 DEF EngineStop
  <2> QED
    BY <2>2, <2>3
<1>4. CountTypes' /\ QuietInv'
  BY <1>1, <1>2, <1>3 DEF CoverInv, CountTypes, QuietInv
<1>5. CountsCover'
  <2> SUFFICES ASSUME calm', NEW i \in Listed[eday']
               PROVE  subs'[i] + Cardinality(Marked(req', "subscribe", i)) >=
                        Cardinality(Users(i)')
                        + Cardinality(Marked(req', "unsubscribe", i))
    BY DEF CountsCover, Pending, Marked, Users
  <2>1. subs'[i] \in Nat
    BY <1>0
  <2>2. Users(i)' = {}
    BY <1>3 DEF Users
  <2>3. Cardinality(Users(i)') = 0
    BY <2>2, FS_EmptySet
  <2>4. /\ Cardinality(Marked(req', "subscribe", i)) = 0
        /\ Cardinality(Marked(req', "unsubscribe", i)) = 0
    BY <1>2, NothingMarked
  <2> QED
    BY <2>1, <2>3, <2>4
<1> QED
  BY <1>4, <1>5 DEF CoverInv

(* At first nothing is requested and nothing held. *)
LEMMA InitCovers ==
  ASSUME Init
  PROVE  CoverInv
<1> USE MDAssumption
<1>1. DayInv
  BY InitDayInv
<1>2. CountTypes
  BY DEF Init, CountTypes
<1>3. req = <<>> /\ \A h \in Helpers : Held(h) = {}
  BY DEF Init, Held
<1>4. CountsCover
  <2> SUFFICES ASSUME NEW i \in Listed[eday]
               PROVE  subs[i] + Cardinality(Marked(req, "subscribe", i)) >=
                        Cardinality(Users(i))
                        + Cardinality(Marked(req, "unsubscribe", i))
    BY CoverMeans
  <2>1. subs[i] \in Nat
    BY <1>1 DEF DayInv, EngineTypes
  <2>2. Users(i) = {}
    BY <1>3 DEF Users
  <2>3. Cardinality(Users(i)) = 0
    BY <2>2, FS_EmptySet
  <2>4. /\ Cardinality(Marked(req, "subscribe", i)) = 0
        /\ Cardinality(Marked(req, "unsubscribe", i)) = 0
    BY <1>3, NothingMarked
  <2> QED
    BY <2>1, <2>3, <2>4
<1> QED
  BY <1>1, <1>2, <1>3, <1>4 DEF CoverInv, QuietInv

(* Every step keeps the counts covering. *)
LEMMA NextCovers ==
  ASSUME CoverInv, [Next]_vars
  PROVE  CoverInv'
<1>1. DayInv'
  BY NextKeepsDayInv DEF CoverInv
<1>2. CASE EngineInit \/ EngineListen \/ EngineStop
  BY <1>1, <1>2, EngineCovers
<1>3. CASE EngineRead
  BY <1>1, <1>3, EngineReadCovers
<1>4. ASSUME NEW h \in Helpers,
             \/ HelperStart(h) \/ HelperStep(h) \/ Timeout(h)
             \/ \E i \in Instrs : Subscribe(h, {i}) \/ Unsubscribe(h, {i})
             \/ Release(h) \/ HelperDies(h)
      PROVE  CoverInv'
  <2>1. StepOf(h) /\ UNCHANGED evars
    BY <1>4, HelperStepMoves, HelperCallMoves
  <2>2. UNCHANGED <<est, eday, subs>>
    BY <2>1 DEF evars
  <2> QED
    BY <1>1, <2>1, <2>2, MoveKeeps DEF StepOf
<1>5. CASE UNCHANGED vars
  <2>1. UNCHANGED <<est, eday, subs, req, pc, bw, map, calm>>
    BY <1>5 DEF vars, evars, hvars
  <2>2. \A h \in Helpers : Held(h)' = Held(h)
    BY <2>1 DEF Held
  <2>3. CountTypes' /\ QuietInv'
    BY <2>1, <2>2 DEF CoverInv, CountTypes, QuietInv
  <2>4. CountsCover'
    BY <2>1, <2>2 DEF CoverInv, CountsCover, Pending
  <2> QED
    BY <1>1, <2>3, <2>4 DEF CoverInv
<1> QED
  BY <1>2, <1>3, <1>4, <1>5 DEF Next

(* No instrument is given up at the front while a strategy uses it: what   *)
(* engine_subscribe and engine_unsubscribe have counted, with the requests *)
(* under way, covers the strategies that hold it, for any number of them,  *)
(* until a subscription is lost with an engine or while none listens.      *)
THEOREM CountsCoverAlways == Spec => []CountsCover
<1>1. Init => CoverInv
  BY InitCovers
<1>2. CoverInv /\ [Next]_vars => CoverInv'
  BY NextCovers
<1>3. CoverInv => CountsCover
  BY DEF CoverInv
<1> QED
  BY <1>1, <1>2, <1>3, PTL DEF Spec
=============================================================================
