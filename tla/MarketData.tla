----------------------------- MODULE MarketData -----------------------------
(***************************************************************************)
(* The market data engine (IMDEngine, CMDEngineCtp) and the strategies     *)
(* that subscribe to it through a helper (IMDHelper, CMDHelperComm,        *)
(* CStrategy).  Requests and answers go through the system io              *)
(* (sysRequest); the engine writes the base information of its trading day *)
(* and a start signal into its own log, from which a helper learns that    *)
(* the engine is new and the day has changed.                              *)
(*                                                                         *)
(* The system io is what can still be read of it: the engine reads from    *)
(* where it began to listen, so what is written while it does not listen   *)
(* is lost; a request makes a reader before it writes, so only an answer   *)
(* written later is found.  Ticks change nothing here and are left out.    *)
(***************************************************************************)
EXTENDS Integers, Sequences, FiniteSets

CONSTANTS
  Helpers,        \* the strategies, each with a unique name
  Instrs,
  Listed,         \* the instruments of the base information, of each day
  Subscribe0,     \* MDEngine/subscribe of the engine's configuration
  Want,           \* what each strategy subscribes to in on_switch_day
  MaxEngines,     \* bound: starts of the engine
  MaxHelpers,     \* bound: starts of strategies
  MaxCalls,       \* bound: further calls of subscribe and unsubscribe
  MaxSlow         \* bound: requests given up although the engine has them

Days == DOMAIN Listed

ASSUME MDAssumption ==
  /\ 1 \in Days /\ Days \subseteq Nat \ {0} /\ Listed \in [Days -> SUBSET Instrs]
  /\ Subscribe0 \subseteq Instrs /\ Want \in [Helpers -> SUBSET Instrs]
  /\ {MaxEngines, MaxHelpers, MaxCalls, MaxSlow} \subseteq Nat
  /\ IsFiniteSet(Helpers)

VARIABLES
  est,      \* the engine: down, init (initEngine done), up
  eday,     \* its trading day
  subs,     \* subs_instr_, 0 for an instrument that is not in the map
  front,    \* the instruments the front sends ticks of
  log,      \* the engine's log: start signals and base information
  req,      \* the requests that the engine will read
  pc,       \* of each strategy: what its thread does
  bw,       \* s_request_id of its process
  ans,      \* the answer to its request, if written
  map,      \* subs_instr_hash_map_
  hday,     \* CTradeBaseInfo::trading_day_, 0 at first
  pos,      \* the next frame of the log its reader returns
  aged,     \* the frames up to this one may be older than 5 seconds
  calm,     \* history: no subscription has been lost
  heard,    \* history: the instruments the engine has counted for it
  missed,   \* history: an engine started while it made its reader
  engines, helpers, calls, slow   \* bounds

evars == <<est, eday, subs, front, log, engines>>
hvars == <<pc, bw, ans, map, hday, pos, aged, missed, helpers>>
vars == <<evars, req, hvars, calm, heard, calls, slow>>

Waits == {"heartbeat", "base", "ack", "query", "release"}
NoAnswer == [cmd |-> "none"]

-----------------------------------------------------------------------------
Init ==
  /\ est = "down" /\ eday = 1 /\ subs = [i \in Instrs |-> 0]
  /\ front = {} /\ log = <<>> /\ req = <<>>
  /\ pc = [h \in Helpers |-> "down"] /\ bw = [h \in Helpers |-> 0]
  /\ ans = [h \in Helpers |-> NoAnswer] /\ map = [h \in Helpers |-> {}]
  /\ hday = [h \in Helpers |-> 0] /\ pos = [h \in Helpers |-> 1]
  /\ aged = [h \in Helpers |-> 0]
  /\ calm = TRUE /\ heard = [h \in Helpers |-> {}]
  /\ missed = [h \in Helpers |-> FALSE]
  /\ engines = 0 /\ helpers = 0 /\ calls = 0 /\ slow = 0

(***************************************************************************)
(* The engine                                                              *)
(***************************************************************************)
(* initEngine: the base information of the trade engine's day is written   *)
(* into the log.                                                           *)
EngineInit ==
  /\ est = "down" /\ engines < MaxEngines
  /\ engines' = engines + 1
  /\ est' = "init"
  /\ \E d \in Days : d >= eday /\ eday' = d
  /\ log' = Append(log, [kind |-> "base", day |-> eday'])
  /\ UNCHANGED <<subs, front, req, hvars, calm, heard, calls, slow>>

(* CMDEngineCtp::subscribe and unsubscribe *)
FrontSubscribe(S) == front' = front \cup S
FrontUnsubscribe(S) == front' = front \ S

(* Mutant of EngineSubscribe: an instrument is counted once. *)
EngineSubscribeOnce(S) ==
  LET T == S \cap Listed[eday] IN
  /\ subs' = [i \in Instrs |-> IF i \in T THEN 1 ELSE subs[i]]
  /\ FrontSubscribe({i \in T : subs[i] = 0})

(* engine_subscribe *)
EngineSubscribe(S) ==
  LET T == S \cap Listed[eday] IN
  /\ subs' = [i \in Instrs |-> IF i \in T THEN subs[i] + 1 ELSE subs[i]]
  /\ FrontSubscribe({i \in T : subs[i] = 0})

(* Mutant of EngineUnsubscribe: one user is left. *)
EngineUnsubscribeEarly(S) ==
  LET T == {i \in S \cap Listed[eday] : subs[i] > 0} IN
  /\ subs' = [i \in Instrs |-> IF i \in T THEN subs[i] - 1 ELSE subs[i]]
  /\ FrontUnsubscribe({i \in T : subs[i] <= 2})

(* engine_unsubscribe *)
EngineUnsubscribe(S) ==
  LET T == {i \in S \cap Listed[eday] : subs[i] > 0} IN
  /\ subs' = [i \in Instrs |-> IF i \in T THEN subs[i] - 1 ELSE subs[i]]
  /\ FrontUnsubscribe({i \in T : subs[i] = 1})

(* runEngine up to its loop: start() logs in, the configured               *)
(* subscriptions, the reader at the end of the system io, the start        *)
(* signal, do_running_ set.                                                *)
EngineListen ==
  /\ est = "init"
  /\ est' = "up" /\ req' = <<>>
  /\ EngineSubscribe(Subscribe0)
  /\ log' = Append(log, [kind |-> "start"])
  /\ UNCHANGED <<eday, engines, hvars, calm, heard, calls, slow>>

(* The answer of the engine to a request: its strategy finds it if it      *)
(* waits for an answer of that kind with that back_word.                   *)
AnswerTo == [heartbeat |-> "heartbeat", base |-> "base", query |-> "base",
             ack |-> "ack", release |-> "ack"]
Reply(r, a) ==
  IF /\ pc[r.src] \in Waits /\ ans[r.src] = NoAnswer
     /\ a.cmd = AnswerTo[pc[r.src]] /\ bw[r.src] = r.bw
  THEN ans' = [ans EXCEPT ![r.src] = a]
  ELSE UNCHANGED ans

(* One round of the loop of runEngine *)
EngineRead ==
  /\ est = "up" /\ req # <<>>
  /\ req' = Tail(req)
  /\ LET r == Head(req) IN
     \/ /\ r.cmd = "heartbeat" /\ Reply(r, [cmd |-> "heartbeat"])
        /\ UNCHANGED <<subs, front, heard>>
     \/ /\ r.cmd = "base" /\ Reply(r, [cmd |-> "base", day |-> eday])
        /\ UNCHANGED <<subs, front, heard>>
     \/ /\ r.cmd = "subscribe" /\ EngineSubscribe(r.set)
        /\ heard' = [heard EXCEPT ![r.src] = @ \cup (r.set \cap Listed[eday])]
        /\ Reply(r, [cmd |-> "ack"])
     \/ /\ r.cmd = "unsubscribe" /\ EngineUnsubscribe(r.set)
        /\ heard' = [heard EXCEPT ![r.src] = @ \ r.set]
        /\ Reply(r, [cmd |-> "ack"])
  /\ UNCHANGED <<est, eday, log, engines, pc, bw, map, hday, pos, aged,
                 missed, helpers, calm, calls, slow>>

(* What a strategy has subscribed to and not given back *)
Held(h) == IF pc[h] = "release" THEN {} ELSE map[h]

(* The process ends: start() fails, stop() in OnFrontDisconnected, a       *)
(* subscription the front refuses, or death.                               *)
EngineStop ==
  /\ est # "down"
  /\ est' = "down" /\ front' = {} /\ req' = <<>>
  /\ subs' = [i \in Instrs |-> 0]
  /\ heard' = [h \in Helpers |-> {}]
  /\ calm' = (calm /\ (\A h \in Helpers : Held(h) = {})
                   /\ \A k \in 1 .. Len(req) : req[k].cmd # "subscribe")
  /\ UNCHANGED <<eday, log, engines, hvars, calls, slow>>

-----------------------------------------------------------------------------
(***************************************************************************)
(* sysRequest                                                              *)
(***************************************************************************)
Request(h, cmd, S, next, id) ==
  /\ pc' = [pc EXCEPT ![h] = next]
  /\ bw' = [bw EXCEPT ![h] = id]
  /\ ans' = [ans EXCEPT ![h] = NoAnswer]
  /\ req' = IF est = "up"
            THEN Append(req, [cmd |-> cmd, src |-> h, bw |-> id, set |-> S])
            ELSE req
  /\ calm' = (calm /\ (est = "up" \/ cmd \notin {"subscribe", "unsubscribe"}))

(* The thread goes on; of a process that has ended nothing is left. *)
GoOn(h, next) ==
  /\ pc' = [pc EXCEPT ![h] = next]
  /\ ans' = [ans EXCEPT ![h] = NoAnswer]
Ended(h) ==
  /\ GoOn(h, "down")
  /\ bw' = [bw EXCEPT ![h] = 0] /\ map' = [map EXCEPT ![h] = {}]
  /\ hday' = [hday EXCEPT ![h] = 0] /\ pos' = [pos EXCEPT ![h] = 1]
  /\ aged' = [aged EXCEPT ![h] = 0] /\ missed' = [missed EXCEPT ![h] = FALSE]
  /\ heard' = [heard EXCEPT ![h] = {}]

(* doSubscribe, doUnsubscribe: without instruments there is no request. *)
DoRequest(h, cmd, S) ==
  IF S = {} THEN GoOn(h, "run") /\ UNCHANGED <<bw, req, calm>>
  ELSE Request(h, cmd, S, "ack", bw[h] + 1)

(* The engine has neither answered nor will it. *)
Lost(h) ==
  /\ ans[h] = NoAnswer
  /\ \A k \in 1 .. Len(req) : ~(req[k].src = h /\ req[k].bw = bw[h])

(***************************************************************************)
(* A strategy and its helper                                               *)
(***************************************************************************)
(* _init, testHeatBeat *)
HelperStart(h) ==
  /\ pc[h] = "down" /\ helpers < MaxHelpers
  /\ helpers' = helpers + 1
  /\ Request(h, "heartbeat", {}, "heartbeat", 1)
  /\ UNCHANGED <<evars, map, hday, pos, aged, missed, heard, calls, slow>>

(* _init, qryTradeBaseInfo *)
HeartbeatAnswered(h) ==
  /\ pc[h] = "heartbeat" /\ ans[h] # NoAnswer
  /\ Request(h, "base", {}, "base", bw[h] + 1)
  /\ UNCHANGED <<evars, map, hday, pos, aged, missed, helpers, heard, calls,
                 slow>>

BaseAnswered(h) ==
  /\ pc[h] = "base" /\ ans[h] # NoAnswer
  /\ hday' = [hday EXCEPT ![h] = ans[h].day]
  /\ GoOn(h, "reader")
  /\ UNCHANGED <<evars, req, bw, map, pos, aged, missed, helpers, calm,
                 heard, calls, slow>>

(* pre_on_switch_day: the map is cleared, the strategy subscribes in its   *)
(* callback.                                                               *)
SwitchDay(h, d) ==
  LET S == Want[h] \cap Listed[d] IN
  /\ hday' = [hday EXCEPT ![h] = d]
  /\ map' = [map EXCEPT ![h] = S]
  /\ DoRequest(h, "subscribe", S)

(* _init, the reader at the end of the log; then run(). *)
HelperRun(h) ==
  /\ pc[h] = "reader"
  /\ pos' = [pos EXCEPT ![h] = Len(log) + 1]
  /\ missed' = [missed EXCEPT ![h] = eday # hday[h]]
  /\ SwitchDay(h, hday[h])
  /\ UNCHANGED <<evars, aged, helpers, heard, calls, slow>>

(* Mutant of ReadBase: the base information in the log is skipped. *)
ReadBaseSkip(h) ==
  /\ pc[h] = "run" /\ pos[h] <= Len(log) /\ log[pos[h]].kind = "base"
  /\ pos' = [pos EXCEPT ![h] = @ + 1]
  /\ UNCHANGED <<req, pc, bw, ans, map, hday, calm>>
  /\ UNCHANGED <<evars, aged, missed, helpers, heard, calls, slow>>

(* CMDHelperComm::read, base information: CTradeBaseInfo::update switches  *)
(* the day if it is another one.                                           *)
ReadBase(h) ==
  /\ pc[h] = "run" /\ pos[h] <= Len(log) /\ log[pos[h]].kind = "base"
  /\ pos' = [pos EXCEPT ![h] = @ + 1]
  /\ IF log[pos[h]].day # hday[h] THEN SwitchDay(h, log[pos[h]].day)
     ELSE UNCHANGED <<req, pc, bw, ans, map, hday, calm>>
  /\ UNCHANGED <<evars, aged, missed, helpers, heard, calls, slow>>

(* CMDHelperComm::read, a start signal: one that is older than 5 seconds   *)
(* is skipped.                                                             *)
ReadStart(h) ==
  /\ pc[h] = "run" /\ pos[h] <= Len(log) /\ log[pos[h]].kind = "start"
  /\ pos' = [pos EXCEPT ![h] = @ + 1]
  /\ \/ Request(h, "base", {}, "query", bw[h] + 1)
     \/ /\ pos[h] <= aged[h]
        /\ UNCHANGED <<req, pc, bw, ans, calm>>
  /\ UNCHANGED <<evars, map, hday, aged, missed, helpers, heard, calls, slow>>

(* Mutant of QueryAnswered: nothing is subscribed again. *)
QueryAnsweredNoSub(h) ==
  /\ pc[h] = "query" /\ ans[h] # NoAnswer
  /\ IF ans[h].day # hday[h] THEN SwitchDay(h, ans[h].day)
     ELSE /\ GoOn(h, "run") /\ UNCHANGED <<bw, req, calm>>
          /\ UNCHANGED <<map, hday>>
  /\ UNCHANGED <<evars, pos, aged, missed, helpers, heard, calls, slow>>

(* The base information asked for after a start signal: a new day, or all  *)
(* of the map is subscribed again.                                         *)
QueryAnswered(h) ==
  /\ pc[h] = "query" /\ ans[h] # NoAnswer
  /\ IF ans[h].day # hday[h] THEN SwitchDay(h, ans[h].day)
     ELSE /\ DoRequest(h, "subscribe", map[h])
          /\ UNCHANGED <<map, hday>>
  /\ UNCHANGED <<evars, pos, aged, missed, helpers, heard, calls, slow>>

(* A subscription is acknowledged. *)
Acknowledged(h) ==
  /\ pc[h] = "ack" /\ ans[h] # NoAnswer
  /\ GoOn(h, "run")
  /\ UNCHANGED <<evars, req, bw, map, hday, pos, aged, missed, helpers, calm,
                 heard, calls, slow>>

(* So is what a strategy gives back at its end. *)
Released(h) ==
  /\ pc[h] = "release" /\ ans[h] # NoAnswer
  /\ Ended(h)
  /\ UNCHANGED <<evars, req, helpers, calm, calls, slow>>

(* The timeout of sysRequest: a strategy that initialises or ends gives    *)
(* up, one that runs goes on.                                              *)
Timeout(h) ==
  /\ pc[h] \in Waits /\ ans[h] = NoAnswer
  /\ \/ Lost(h) /\ UNCHANGED slow
     \/ ~Lost(h) /\ slow < MaxSlow /\ slow' = slow + 1
  /\ IF pc[h] \in {"ack", "query"}
     THEN /\ GoOn(h, "run")
          /\ aged' = [aged EXCEPT ![h] = Len(log)]
          /\ UNCHANGED <<bw, map, hday, pos, missed, heard>>
     ELSE Ended(h)
  /\ UNCHANGED <<evars, req, helpers, calm, calls>>

(* IMDHelper::subscribe: what is in the map already is not sent.  A call   *)
(* that sends nothing changes nothing.                                     *)
Subscribe(h, S) ==
  /\ pc[h] = "run" /\ calls < MaxCalls
  /\ calls' = calls + 1
  /\ LET T == (S \cap Listed[hday[h]]) \ map[h] IN
     /\ T # {}
     /\ map' = [map EXCEPT ![h] = @ \cup T]
     /\ DoRequest(h, "subscribe", T)
  /\ UNCHANGED <<evars, hday, pos, aged, missed, helpers, heard, slow>>

(* IMDHelper::unsubscribe: only what is in the map is sent. *)
Unsubscribe(h, S) ==
  /\ pc[h] = "run" /\ calls < MaxCalls
  /\ calls' = calls + 1
  /\ LET T == S \cap Listed[hday[h]] \cap map[h] IN
     /\ T # {}
     /\ map' = [map EXCEPT ![h] = @ \ T]
     /\ DoRequest(h, "unsubscribe", T)
  /\ UNCHANGED <<evars, hday, pos, aged, missed, helpers, heard, slow>>

(* IMDHelper::release, clear: everything in the map is given back. *)
Release(h) ==
  /\ pc[h] = "run"
  /\ IF map[h] = {} THEN Ended(h) /\ UNCHANGED <<req, calm>>
     ELSE /\ Request(h, "unsubscribe", map[h], "release", bw[h] + 1)
          /\ UNCHANGED <<map, hday, pos, aged, missed, heard>>
  /\ UNCHANGED <<evars, helpers, calls, slow>>

(* A strategy dies: nothing is given back.  Before it has subscribed, this *)
(* is as if it had given up.                                               *)
HelperDies(h) ==
  /\ pc[h] \in {"reader", "run", "ack", "query", "release"}
  /\ Ended(h)
  /\ UNCHANGED <<evars, req, helpers, calm, calls, slow>>

-----------------------------------------------------------------------------
HelperStep(h) ==
  \/ HeartbeatAnswered(h) \/ BaseAnswered(h) \/ HelperRun(h)
  \/ ReadBase(h) \/ ReadStart(h) \/ QueryAnswered(h)
  \/ Acknowledged(h) \/ Released(h)

Next ==
  \/ EngineInit \/ EngineListen \/ EngineRead \/ EngineStop
  \/ \E h \in Helpers :
       \/ HelperStart(h) \/ HelperStep(h) \/ Timeout(h)
       \/ \E i \in Instrs : Subscribe(h, {i}) \/ Unsubscribe(h, {i})
       \/ Release(h) \/ HelperDies(h)

Spec == Init /\ [][Next]_vars

(* An engine that runs reads its requests; a strategy goes on with what it *)
(* has read.                                                               *)
FairSpec ==
  /\ Spec
  /\ WF_vars(EngineRead)
  /\ \A h \in Helpers : WF_vars(HelperStep(h) \/ (Timeout(h) /\ Lost(h)))

-----------------------------------------------------------------------------
(***************************************************************************)
(* Properties                                                              *)
(***************************************************************************)
TypeOK ==
  /\ est \in {"down", "init", "up"} /\ eday \in Days
  /\ subs \in [Instrs -> Nat] /\ front \subseteq Instrs
  /\ pc \in [Helpers -> Waits \cup {"down", "reader", "run"}]
  /\ map \in [Helpers -> SUBSET Instrs]
  /\ hday \in [Helpers -> Days \cup {0}]
  /\ \A h \in Helpers : pos[h] \in 1 .. Len(log) + 1 /\ aged[h] \in 0 .. Len(log)

Pending(cmd, i) ==
  Cardinality({k \in 1 .. Len(req) : req[k].cmd = cmd /\ i \in req[k].set})

(* No instrument is given up at the front while a strategy uses it: the    *)
(* count of subs_instr_, with the requests under way, covers the           *)
(* strategies that have subscribed, over timeouts with late processing,    *)
(* deaths and releases, as long as no subscription was lost with an engine *)
(* or written while none listened (engine_subscribe, engine_unsubscribe).  *)
(* What is not listed on the engine's day is acknowledged and ignored.     *)
CountsCover ==
  calm => \A i \in Listed[eday] :
    subs[i] + Pending("subscribe", i) >=
      Cardinality({h \in Helpers : i \in Held(h)}) + Pending("unsubscribe", i)

(* The front sends ticks of exactly what the engine counts.                *)
FrontFollows ==
  est = "up" => front = {i \in Instrs : subs[i] > 0}

(* A strategy that has read all of the log of an engine that runs is on    *)
(* the engine's trading day, unless the engine started just while the      *)
(* strategy made its reader (CMDHelperComm::read, CTradeBaseInfo::update). *)
DayAgrees ==
  \A h \in Helpers :
    est = "up" /\ pc[h] = "run" /\ pos[h] > Len(log) /\ ~missed[h]
      => hday[h] = eday

(* IMDEngine.h: only if no user subscribes to an instrument anymore is it  *)
(* unsubscribed at the front.                                              *)
SubscribersKept ==
  est = "up" =>
    \A h \in Helpers : pc[h] = "run" => (heard[h] \cap map[h]) \subseteq front

(* After a restart of the engine, a strategy that reads the start signal   *)
(* in time gets all its instruments again, if the engine then stays and    *)
(* no request times out (IO_MD_START, reSubscribe).                        *)
Resubscribed ==
  \A h \in Helpers :
    (/\ est = "up" /\ pc[h] = "run"
     /\ \E k \in pos[h] .. Len(log) : log[k].kind = "start" /\ k > aged[h])
    ~> (\/ pc[h] # "down" /\ Held(h) \cap Listed[eday] \subseteq front
        \/ est # "up" \/ aged[h] = Len(log) \/ pc[h] = "down")
=============================================================================
