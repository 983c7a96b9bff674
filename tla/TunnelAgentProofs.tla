------------------------- MODULE TunnelAgentProofs -------------------------
(***************************************************************************)
(* The answers of the tunnel agent, for any clients, commands and files:   *)
(* what a client counts as a success is what the agent has done for that   *)
(* command, and a strategy is made of the parts of one command             *)
(* (DoneAsAsked), if no signal ends a shell command.                       *)
(*                                                                         *)
(* The invariant is about one session at a time: at which point of the     *)
(* exchange its two ends are (StageInv), and that the end of a command is  *)
(* the last thing said and a success is true (SaidInv).                    *)
(***************************************************************************)
EXTENDS TunnelAgent, SumTheorems, SequenceTheorems

(* The values of the variables. *)
CmdType == [op: {"SAVE", "MKDIR", "SHELL", "EXEC", "STG"}, name: Names,
            dir: BOOLEAN, what: {"status", "exit", "other"}]
AnyCmd == CmdType \cup {None}
PkgType ==
  [t: {"auth", "key", "bye", "save", "MKDIR", "STG", "SHELL", "script", "conf",
       "dir", "file", "part", "end", "args"},
   k: Nat, cmd: AnyCmd, len: Nat, good: BOOLEAN]
FileType == [left: Int, good: BOOLEAN]
CommanderType ==
  {None} \cup [t: {"save"}, k: Nat, f: FileType] \cup [t: {"shell"}, k: Nat]
    \cup [t: {"exec"}, st: {"RECV_FILE", "RECV_CONFIG", "RECV_DIR", "RECV_CMD"},
          k: Nat, cmd: CmdType, conf: Nat, f: FileType \cup {None}]
Ends == {"auth", "ACK", "SUCC", "FAIL"}
Answers == Ends \cup {"DATA"}
ShellType ==
  [st: {"none", "run", "exited", "stop"}, pipe: Nat, printed: Nat,
   code: {"ok", "fail", "killed"}]
Points == Waiting \cup {"off", "ready", "gone"}
SessionType ==
  [cpc: Points, cur: AnyCmd, k: Nat,
   shown: Nat, succ: SUBSET Nat, up: Seq(PkgType), out: Seq(Answers),
   down: Seq(Answers),
   wst: {"none", "INIT", "GET_DES_KEY", "DO_COMMAND", "released"},
   cm: CommanderType, sh: ShellType, done: SUBSET Nat]
ProcType ==
  [name: Names, st: {"forked", "zombie", "reaped"} \cup Titled, own: BOOLEAN,
   from: Clients \X Nat, parts: SUBSET ((Clients \cup {"none"}) \X Nat)]

(* An answer is on its way to the client. *)
Says(s, a) ==
  \/ \E j \in DOMAIN s.down : s.down[j] = a
  \/ \E j \in DOMAIN s.out : s.out[j] = a
Only(s, T) == s.cpc # "gone" => \A a \in Ends \ T : ~Says(s, a)
Silent(s) == s.cpc # "gone" => s.down = <<>> /\ s.out = <<>>

(* A client that is there: the end of a command is the last thing that is  *)
(* said, a success is one, and nothing is said that was not asked for.     *)
SaidInv(s) ==
  /\ s.cpc = "gone" => s.down = <<>>
  /\ s.cpc # "gone" =>
       /\ \A j \in DOMAIN s.down : s.down[j] # "DATA" =>
            j = Len(s.down) /\ s.out = <<>>
       /\ \A j \in DOMAIN s.out : s.out[j] # "DATA" => j = Len(s.out)
       /\ s.cpc \in {"off", "ready"} => s.down = <<>> /\ s.out = <<>>
       /\ Says(s, "SUCC") => s.k \in s.done

(* The client is at that point, or was when it ended. *)
Here(s, pc) == s.cpc \in {pc, "gone"}
(* Pieces of the file of this command, from the n-th package on. *)
Parts(s, q, n) ==
  \A j \in DOMAIN q : n <= j => q[j].t = "part" /\ q[j].k = s.k

(* What a client sends for a command, or what is left of it. *)
Request(s, q) ==
  /\ q # <<>> /\ q[1].k = s.k /\ Silent(s)
  /\ \/ q[1].t = "save" /\ Here(s, "echo") /\ Parts(s, q, 2)
     \/ q[1].t \in {"MKDIR", "STG"} /\ Here(s, "echo") /\ Len(q) = 1
     \/ q[1].t = "SHELL" /\ Here(s, "shell") /\ Len(q) = 1
     \/ /\ q[1].t = "script" /\ Here(s, "script") /\ Parts(s, q, 2)
        /\ q[1].len = Units /\ Len(q) <= Units /\ q[1].cmd \in CmdType

(* The waiter will release itself. *)
Doomed(q) == q # <<>> /\ q[1].t \in {"bye", "part"}

(* Between commands, or before the waiter has looked at one. *)
Between(s, q) ==
  \/ /\ q = <<>> /\ s.cpc \in {"ready", "gone", "echo", "shell", "conf", "args"}
     /\ s.cpc = "conf" => ~Says(s, "ACK")
  \/ Doomed(q)
  \/ Request(s, q)

Off(s) == s.wst = "none" /\ s.cpc = "off" /\ s.up = <<>> /\ s.cm = None /\ s.sh.st = "none"
Ended(s) == s.wst = "released" /\ s.up = <<>> /\ s.out = <<>> /\ s.cm = None /\ s.sh.st = "none"
Greeting(s) ==
  /\ s.wst = "INIT" /\ s.cm = None /\ s.sh.st = "none"
  /\ Here(s, "auth") /\ Silent(s) /\ \A j \in DOMAIN s.up : s.up[j].t = "auth" /\ j = 1
Keyed(s) ==
  /\ s.wst = "GET_DES_KEY" /\ s.cm = None /\ s.sh.st = "none"
  /\ \/ s.up = <<>> /\ Here(s, "auth") /\ Only(s, {"auth"})
     \/ s.up # <<>> /\ s.up[1].t = "key" /\ Between(s, Tail(s.up))

Idle(s) ==
  /\ s.cm = None \/ (s.cm.t = "shell" /\ s.sh.st = "stop")
  /\ s.sh.st \in {"none", "stop"}
  /\ Between(s, s.up)
Saving(s) ==
  /\ s.cm.t = "save" /\ s.cm.k = s.k /\ s.sh.st \in {"none", "stop"}
  /\ Here(s, "echo") /\ Silent(s) /\ Parts(s, s.up, 1)
Shelling(s) ==
  /\ s.cm.t = "shell" /\ s.cm.k = s.k /\ s.sh.st \in {"run", "exited"}
  /\ Here(s, "shell") /\ Only(s, {}) /\ (s.up = <<>> \/ (Doomed(s.up) /\ s.up[1].t = "bye"))
  /\ s.sh.code # "killed"

(* The stages of a loader: its next file is due, asked for, or on its way. *)
Asked(s, pc) == s.up = <<>> /\ Here(s, pc) /\ Only(s, {"ACK"})
Sent(s, pc) == Here(s, pc) /\ Silent(s)
FileComes(s) ==
  IF s.cm.f = None
  THEN /\ s.up # <<>> => s.up[1].t = "conf" /\ s.up[1].len = Units /\ s.up[1].k = s.k
       /\ Parts(s, s.up, 2) /\ Len(s.up) <= Units
  ELSE Parts(s, s.up, 1) /\ Len(s.up) <= s.cm.f.left
DirComes(s) ==
  \A j \in DOMAIN s.up :
    /\ s.up[j].t \in {"dir", "file", "part", "end"}
    /\ s.up[j].t = "end" \/ (s.up[j].t = "dir" /\ ~s.up[j].cmd.dir) => j = Len(s.up)
ArgsCome(s) ==
  Len(s.up) <= 1 /\ \A j \in DOMAIN s.up : s.up[j].t = "args" /\ s.up[j].k = s.k
Loading(s) ==
  /\ s.cm.t = "exec" /\ s.cm.k = s.k /\ s.sh.st \in {"none", "stop"}
  /\ \/ /\ s.cm.st = "RECV_FILE" /\ s.cm.f # None
        /\ Sent(s, "script") /\ FileComes(s)
     \/ /\ s.cm.st = "RECV_CONFIG"
        /\ (Asked(s, "script") /\ s.cm.f = None) \/ (Sent(s, "conf") /\ FileComes(s))
     \/ /\ s.cm.st = "RECV_DIR" /\ s.cm.conf = s.k
        /\ Asked(s, "conf") \/ (Sent(s, "dir") /\ DirComes(s))
     \/ /\ s.cm.st = "RECV_CMD" /\ s.cm.conf = s.k
        /\ Asked(s, "dir") \/ (Sent(s, "args") /\ ArgsCome(s))

Serving(s) ==
  /\ s.wst = "DO_COMMAND"
  /\ Idle(s) \/ Saving(s) \/ Shelling(s) \/ Loading(s)

StageInv(s) ==
  \/ Off(s)
  \/ s.cpc # "off" /\ (Ended(s) \/ Greeting(s) \/ Keyed(s) \/ Serving(s))

SessionInv(s) ==
  s \in SessionType /\ s.succ \subseteq s.done /\ SaidInv(s) /\ StageInv(s)

SessionsInv ==
  ses \in [Clients -> SessionType] /\ \A c \in Clients : SessionInv(ses[c])

TunnelInv ==
  /\ SessionsInv
  /\ procs \in Seq(ProcType)
  /\ \A p \in DOMAIN procs : procs[p].parts = {procs[p].from}

-----------------------------------------------------------------------------
(***************************************************************************)
(* A session by its fields                                                 *)
(***************************************************************************)

LEMMA SessionFields ==
  ASSUME NEW s \in SessionType
  PROVE  /\ s.cpc \in Points
         /\ s.cur \in AnyCmd /\ s.k \in Nat /\ s.shown \in Nat
         /\ s.succ \in SUBSET Nat /\ s.done \in SUBSET Nat
         /\ s.up \in Seq(PkgType)
         /\ s.out \in Seq(Answers) /\ s.down \in Seq(Answers)
         /\ s.wst \in {"none", "INIT", "GET_DES_KEY", "DO_COMMAND", "released"}
         /\ s.cm \in CommanderType /\ s.sh \in ShellType
BY DEF SessionType

LEMMA PkgFields ==
  ASSUME NEW p \in PkgType
  PROVE  /\ p.k \in Nat /\ p.len \in Nat /\ p.good \in BOOLEAN
         /\ p.cmd \in AnyCmd
         /\ p.t \in {"auth", "key", "bye", "save", "MKDIR", "STG", "SHELL",
                     "script", "conf", "dir", "file", "part", "end", "args"}
BY DEF PkgType

LEMMA PkgIn ==
  ASSUME NEW s \in SessionType, NEW t, 
         t \in {"auth", "key", "bye", "save", "MKDIR", "STG", "SHELL",
                     "script", "conf", "dir", "file", "part", "end", "args"}
  PROVE  /\ Pkg(t, s) \in PkgType /\ Pkg(t, s).t = t /\ Pkg(t, s).k = s.k
         /\ Pkg(t, s).cmd = s.cur
BY DEF SessionType, PkgType, Pkg

(* The commander of a strategy that is loaded, ... *)
LEMMA ExecFields ==
  ASSUME NEW s \in SessionType, s.cm.t = "exec"
  PROVE  /\ s.cm \in [t: {"exec"}, st: {"RECV_FILE", "RECV_CONFIG", "RECV_DIR", "RECV_CMD"},
                      k: Nat, cmd: CmdType, conf: Nat, f: FileType \cup {None}]
         /\ s.cm.f # None => s.cm.f \in FileType /\ s.cm.f.left \in Int
<1>1. s.cm \in CommanderType
  BY SessionFields
<1>2. s.cm \in [t: {"exec"}, st: {"RECV_FILE", "RECV_CONFIG", "RECV_DIR", "RECV_CMD"},
                k: Nat, cmd: CmdType, conf: Nat, f: FileType \cup {None}]
  BY <1>1 DEF CommanderType, None
<1>3. s.cm.f \in FileType \cup {None}
  BY <1>2
<1> QED
  BY <1>2, <1>3 DEF FileType

(* ... and of a file that is saved. *)
LEMMA SaveFields ==
  ASSUME NEW s \in SessionType, s.cm.t = "save"
  PROVE  s.cm.k \in Nat /\ s.cm.f \in FileType /\ s.cm.f.left \in Int
<1>1. s.cm \in CommanderType
  BY SessionFields
<1>2. s.cm \in [t: {"save"}, k: Nat, f: FileType]
  BY <1>1 DEF CommanderType, None
<1> QED
  BY <1>2 DEF FileType

(* Before it connects. *)
LEMMA InitSession ==
  NewSession \in SessionType /\ SessionInv(NewSession)
<1>1. PICK s : s = NewSession
  OBVIOUS
<1>2. s \in SessionType
  BY <1>1 DEF NewSession, SessionType, ShellType, CommanderType, AnyCmd, Points
<1>3. /\ s.up = <<>> /\ s.down = <<>> /\ s.out = <<>> /\ s.cpc = "off"
      /\ s.succ = {} /\ s.done = {} /\ s.wst = "none" /\ s.cm = None
      /\ s.sh.st = "none"
  BY <1>1 DEF NewSession
<1>4. SaidInv(s)
  BY <1>3 DEF SaidInv, Says
<1>5. StageInv(s)
  BY <1>3 DEF StageInv, Off
<1> QED
  BY <1>1, <1>2, <1>3, <1>4, <1>5 DEF SessionInv

(* A prefix of a sequence. *)
LEMMA PrefixFacts ==
  ASSUME NEW S, NEW q \in Seq(S), NEW n \in 0 .. Len(q)
  PROVE  /\ SubSeq(q, 1, n) \in Seq(S) /\ Len(SubSeq(q, 1, n)) = n
         /\ \A j \in DOMAIN SubSeq(q, 1, n) :
              SubSeq(q, 1, n)[j] = q[j] /\ j \in DOMAIN q
<1>1. \A i \in 1 .. n : q[i] \in S
  OBVIOUS
<1> QED
  BY <1>1, SubSeqProperties

(* The stage depends on nothing but these fields, and on what is said. *)
LEMMA SameStage ==
  ASSUME NEW s \in SessionType, NEW t \in SessionType, StageInv(s),
         t.wst = s.wst, t.cm = s.cm, t.sh.st = s.sh.st, t.sh.code = s.sh.code,
         t.cpc = s.cpc, t.up = s.up, t.k = s.k,
         \A a \in Ends : t.cpc # "gone" /\ Says(t, a) => Says(s, a),
         t.cpc # "gone" /\ Silent(s) => Silent(t),
         s.wst = "released" /\ s.out = <<>> => t.out = <<>>
  PROVE  StageInv(t)
<1>1. \A q, n : Parts(s, q, n) => Parts(t, q, n)
  BY DEF Parts
<1>2. \A pc : Here(s, pc) => Here(t, pc)
  BY DEF Here
<1>3. \A T : Only(s, T) => Only(t, T)
  BY DEF Only
<1>4. Silent(s) => Silent(t)
  BY DEF Silent
<1>5. \A q : Request(s, q) => Request(t, q)
  BY <1>1, <1>2, <1>4 DEF Request
<1>6. \A q : Between(s, q) => Between(t, q)
  BY <1>5 DEF Between, Ends
<1>7. CASE Off(s)
  BY <1>7 DEF StageInv, Off
<1>8. CASE Ended(s)
  <2>1. Ended(t)
    BY <1>8 DEF Ended
  <2> QED
    BY <1>7, <2>1 DEF StageInv
<1>9. CASE Greeting(s)
  <2>1. Greeting(t)
    BY <1>9, <1>2, <1>4 DEF Greeting
  <2> QED
    BY <1>7, <2>1 DEF StageInv
<1>10. CASE Keyed(s)
  <2>1. Keyed(t)
    BY <1>10, <1>2, <1>3, <1>6 DEF Keyed
  <2> QED
    BY <1>7, <2>1 DEF StageInv
<1>11. CASE Serving(s)
  <2>1. Idle(t) \/ Saving(t) \/ Shelling(t) \/ Loading(t)
    <3>1. Idle(s) => Idle(t)
      BY <1>6 DEF Idle
    <3>2. Saving(s) => Saving(t)
      BY <1>1, <1>2, <1>4 DEF Saving
    <3>3. Shelling(s) => Shelling(t)
      BY <1>2, <1>3 DEF Shelling
    <3>4. Loading(s) => Loading(t)
      <4>1. \A pc : Asked(s, pc) => Asked(t, pc)
        BY <1>2, <1>3 DEF Asked
      <4>2. \A pc : Sent(s, pc) => Sent(t, pc)
        BY <1>2, <1>4 DEF Sent
      <4>3. FileComes(s) => FileComes(t)
        BY <1>1 DEF FileComes
      <4>4. (DirComes(s) => DirComes(t)) /\ (ArgsCome(s) => ArgsCome(t))
        BY DEF DirComes, ArgsCome
      <4> QED
        BY <4>1, <4>2, <4>3, <4>4 DEF Loading
    <3> QED
      BY <1>11, <3>1, <3>2, <3>3, <3>4 DEF Serving
  <2> QED
    BY <1>7, <1>11, <2>1 DEF StageInv, Serving
<1> QED
  BY <1>7, <1>8, <1>9, <1>10, <1>11 DEF StageInv

-----------------------------------------------------------------------------
(***************************************************************************)
(* The client ends                                                         *)
(***************************************************************************)

(* t has the packages of s but perhaps the last ones. *)
Less(t, s) ==
  /\ t \in Seq(PkgType) /\ s \in Seq(PkgType) /\ Len(t) <= Len(s)
  /\ \A j \in DOMAIN t : t[j] = s[j] /\ j \in DOMAIN s

LEMMA LessTail ==
  ASSUME NEW q, NEW r, Less(r, q), r # <<>>
  PROVE  /\ q # <<>> /\ r[1] = q[1] /\ 1 \in DOMAIN r /\ 1 \in DOMAIN q
         /\ Less(Tail(r), Tail(q))
<1>1. r \in Seq(PkgType) /\ q \in Seq(PkgType) /\ Len(r) <= Len(q)
  BY DEF Less
<1>2. /\ Tail(r) \in Seq(PkgType) /\ Len(Tail(r)) = Len(r) - 1
      /\ DOMAIN Tail(r) = 1 .. Len(r) - 1 /\ Len(r) \in Nat \ {0}
      /\ 1 \in DOMAIN r /\ DOMAIN r = 1 .. Len(r)
      /\ \A k \in DOMAIN Tail(r) : Tail(r)[k] = r[k + 1] /\ k + 1 \in DOMAIN r
  BY <1>1, TailFacts
<1>3. q # <<>>
  BY <1>1, <1>2
<1>4. /\ Tail(q) \in Seq(PkgType) /\ Len(Tail(q)) = Len(q) - 1
      /\ DOMAIN Tail(q) = 1 .. Len(q) - 1 /\ Len(q) \in Nat \ {0}
      /\ 1 \in DOMAIN q
      /\ \A k \in DOMAIN Tail(q) : Tail(q)[k] = q[k + 1]
  BY <1>1, <1>3, TailFacts
<1>5. \A k \in DOMAIN Tail(r) : Tail(r)[k] = Tail(q)[k] /\ k \in DOMAIN Tail(q)
  BY <1>1, <1>2, <1>4 DEF Less
<1> QED
  BY <1>1, <1>2, <1>3, <1>4, <1>5 DEF Less

LEMMA LessEmpty ==
  ASSUME NEW q, NEW r, Less(r, q), q = <<>>
  PROVE  r = <<>>
BY DEF Less

(* It is gone: what it has sent, or the beginning of that, remains. *)
LEMMA GoneStage ==
  ASSUME NEW s \in SessionType, NEW t \in SessionType, StageInv(s), s.cpc # "off",
         t.wst = s.wst, t.cm = s.cm, t.sh = s.sh, t.out = s.out, t.k = s.k,
         t.cpc = "gone", Less(t.up, s.up)
  PROVE  StageInv(t)
<1>1. \A q, r, n : Parts(s, q, n) /\ Less(r, q) => Parts(t, r, n)
  BY DEF Parts, Less
<1>2. (\A pc : Here(t, pc)) /\ (\A T : Only(t, T)) /\ Silent(t)
  BY DEF Here, Only, Silent
<1>3. \A q, r : Request(s, q) /\ Less(r, q) => r = <<>> \/ Request(t, r)
  <2> SUFFICES ASSUME NEW q, NEW r, Request(s, q), Less(r, q), r # <<>>
               PROVE  Request(t, r)
    OBVIOUS
  <2>1. r[1] = q[1] /\ Len(r) <= Len(q) /\ Len(r) \in Nat /\ Len(q) \in Nat /\ Len(r) # 0
    BY LessTail DEF Less
  <2>2. \A n : Parts(s, q, n) => Parts(t, r, n)
    BY <1>1
  <2>3. Len(q) = 1 => Len(r) = 1
    <3>1. \A m, n \in Nat : m <= n /\ m # 0 /\ n = 1 => m = 1
      OBVIOUS
    <3> QED
      BY <2>1, <3>1
  <2>4. Len(q) <= Units => Len(r) <= Units
    BY <2>1, BoundsAssumption
  <2> QED
    BY <1>2, <2>1, <2>2, <2>3, <2>4 DEF Request
<1>4. \A q, r : Between(s, q) /\ Less(r, q) => Between(t, r)
  <2> SUFFICES ASSUME NEW q, NEW r, Between(s, q), Less(r, q)
               PROVE  Between(t, r)
    OBVIOUS
  <2>1. CASE r = <<>>
    BY <2>1 DEF Between
  <2>2. CASE r # <<>>
    BY <2>2, <1>3, LessTail DEF Between, Doomed
  <2> QED
    BY <2>1, <2>2
<1>5. ~Off(s)
  BY DEF Off
<1>6. t.up # <<>> =>
        /\ s.up # <<>> /\ t.up[1] = s.up[1] /\ 1 \in DOMAIN t.up
        /\ Less(Tail(t.up), Tail(s.up))
  BY LessTail
<1>7. s.up = <<>> => t.up = <<>>
  BY LessEmpty
<1>8. CASE Ended(s)
  <2>1. Ended(t)
    BY <1>7, <1>8 DEF Ended
  <2> QED
    BY <2>1 DEF StageInv
<1>9. CASE Greeting(s)
  <2>1. Greeting(t)
    BY <1>9, <1>2 DEF Greeting, Less
  <2> QED
    BY <2>1 DEF StageInv
<1>10. CASE Keyed(s)
  <2>1. Keyed(t)
    BY <1>10, <1>2, <1>4, <1>6, <1>7 DEF Keyed
  <2> QED
    BY <2>1 DEF StageInv
<1>11. CASE Serving(s)
  <2>1. Idle(s) => Idle(t)
    BY <1>4 DEF Idle
  <2>2. Saving(s) => Saving(t)
    BY <1>1, <1>2 DEF Saving
  <2>3. Shelling(s) => Shelling(t)
    BY <1>2, <1>6, <1>7 DEF Shelling, Doomed
  <2>4. Loading(s) => Loading(t)
    <3>1. \A pc : Asked(s, pc) => Asked(t, pc)
      BY <1>2, <1>7 DEF Asked
    <3>2. \A pc : Sent(s, pc) => Sent(t, pc)
      BY <1>2 DEF Sent
    <3>3. s.cm.t = "exec" /\ FileComes(s) => FileComes(t)
      <4> SUFFICES ASSUME s.cm.t = "exec", FileComes(s)
                   PROVE  FileComes(t)
        OBVIOUS
      <4>1. Len(t.up) <= Len(s.up) /\ Len(t.up) \in Nat /\ Len(s.up) \in Nat
        BY DEF Less
      <4>2. CASE s.cm.f = None
        <5>1. Len(s.up) <= Units => Len(t.up) <= Units
          BY <4>1, BoundsAssumption
        <5> QED
          BY <4>2, <5>1, <1>1, <1>6 DEF FileComes
      <4>3. CASE s.cm.f # None
        <5>1. Len(s.up) <= s.cm.f.left /\ Parts(s, s.up, 1)
          BY <4>3 DEF FileComes
        <5>2. \A m, n \in Nat, k \in Int : m <= n /\ n <= k => m <= k
          OBVIOUS
        <5>3. Len(t.up) <= s.cm.f.left
          BY <4>1, <4>3, <5>1, <5>2, ExecFields
        <5> QED
          BY <4>3, <5>1, <5>3, <1>1 DEF FileComes
      <4> QED
        BY <4>2, <4>3
    <3>4. (DirComes(s) => DirComes(t)) /\ (ArgsCome(s) => ArgsCome(t))
      BY DEF DirComes, ArgsCome, Less
    <3> QED
      BY <3>1, <3>2, <3>3, <3>4 DEF Loading
  <2> QED
    BY <1>11, <2>1, <2>2, <2>3, <2>4 DEF Serving, StageInv
<1> QED
  BY <1>5, <1>8, <1>9, <1>10, <1>11 DEF StageInv

(* More packages behind the others. *)
LEMMA MoreFacts ==
  ASSUME NEW q \in Seq(PkgType), NEW r \in Seq(PkgType)
  PROVE  /\ q \o r \in Seq(PkgType)
         /\ q = <<>> => q \o r = r
         /\ q # <<>> => /\ q \o r # <<>> /\ (q \o r)[1] = q[1]
                        /\ Tail(q \o r) = Tail(q) \o r
         /\ r = <<>> => q \o r = q
<1>1. q \o r \in Seq(PkgType) /\ (q = <<>> => q \o r = r) /\ (r = <<>> => q \o r = q)
  BY ConcatEmptySeq
<1>2. ASSUME q # <<>>
      PROVE  q \o r # <<>> /\ (q \o r)[1] = q[1] /\ Tail(q \o r) = Tail(q) \o r
  <2>1. /\ Tail(q) \in Seq(PkgType) /\ Len(Tail(q)) = Len(q) - 1
        /\ 1 \in DOMAIN q /\ DOMAIN q = 1 .. Len(q) /\ Len(q) \in Nat \ {0}
        /\ DOMAIN Tail(q) = 1 .. Len(q) - 1
        /\ \A k \in DOMAIN Tail(q) : Tail(q)[k] = q[k + 1] /\ k + 1 \in DOMAIN q
    BY <1>2, TailFacts
  <2>2. /\ q \o r \in Seq(PkgType) /\ Len(q \o r) = Len(q) + Len(r)
        /\ Len(r) \in Nat
        /\ DOMAIN (q \o r) = 1 .. Len(q) + Len(r)
        /\ \A k \in DOMAIN q : (q \o r)[k] = q[k]
        /\ \A k \in DOMAIN (q \o r) \ DOMAIN q :
             k - Len(q) \in DOMAIN r /\ (q \o r)[k] = r[k - Len(q)]
    BY ConcatFacts
  <2>3. q \o r # <<>> /\ (q \o r)[1] = q[1]
    BY <2>1, <2>2
  <2>4. /\ Tail(q \o r) \in Seq(PkgType) /\ Len(Tail(q \o r)) = Len(q \o r) - 1
        /\ \A k \in DOMAIN Tail(q \o r) :
             Tail(q \o r)[k] = (q \o r)[k + 1] /\ k + 1 \in DOMAIN (q \o r)
    BY <2>2, <2>3, TailFacts
  <2>5. /\ Tail(q) \o r \in Seq(PkgType) /\ Len(Tail(q) \o r) = Len(Tail(q)) + Len(r)
        /\ \A k \in DOMAIN Tail(q) : (Tail(q) \o r)[k] = Tail(q)[k]
        /\ \A k \in DOMAIN (Tail(q) \o r) \ DOMAIN Tail(q) :
             (Tail(q) \o r)[k] = r[k - Len(Tail(q))]
        /\ DOMAIN (Tail(q) \o r) = 1 .. Len(Tail(q)) + Len(r)
    BY <2>1, ConcatFacts
  <2>6. PICK m \in Nat, n \in Nat : m = Len(q) /\ n = Len(r) /\ m # 0
    BY <2>1, <2>2
  <2>7. PICK v, u : v = Tail(q \o r) /\ u = Tail(q) \o r
    OBVIOUS
  <2>8. /\ v \in Seq(PkgType) /\ u \in Seq(PkgType)
        /\ Len(v) = m + n - 1 /\ Len(u) = m + n - 1
    BY <2>1, <2>2, <2>4, <2>5, <2>6, <2>7
  <2>9. ASSUME NEW k \in 1 .. m + n - 1
        PROVE  v[k] = u[k]
    <3>1. k \in DOMAIN v /\ k \in DOMAIN u
      BY <2>8
    <3>2. v[k] = (q \o r)[k + 1] /\ k + 1 \in DOMAIN (q \o r)
      BY <2>4, <2>7, <3>1
    <3>3. CASE k < m
      <4>1. k \in DOMAIN Tail(q) /\ k + 1 \in DOMAIN q
        BY <2>1, <2>6, <3>3
      <4> QED
        BY <2>1, <2>2, <2>5, <2>7, <3>2, <4>1
    <3>4. CASE ~(k < m)
      <4>1. k \notin DOMAIN Tail(q) /\ k + 1 \notin DOMAIN q
        BY <2>1, <2>6, <3>4
      <4>2. u[k] = r[k - Len(Tail(q))]
        BY <2>5, <2>7, <3>1, <4>1
      <4>3. v[k] = r[k + 1 - Len(q)]
        BY <2>2, <3>2, <4>1
      <4>4. k - Len(Tail(q)) = k + 1 - Len(q)
        BY <2>1, <2>6
      <4> QED
        BY <4>2, <4>3, <4>4
    <3> QED
      BY <3>3, <3>4
  <2> QED
    BY <2>3, <2>7, <2>8, <2>9
<1> QED
  BY <1>1, <1>2

(* It says so, or has given up on what it has got. *)
LEMMA ByeStage ==
  ASSUME NEW s \in SessionType, NEW t \in SessionType, StageInv(s),
         s.cpc \in (Waiting \ {"auth"}) \cup {"ready"},
         t.wst = s.wst, t.cm = s.cm, t.sh = s.sh, t.out = s.out, t.k = s.k,
         t.cpc = "gone", NEW p \in PkgType, p.t = "bye",
         t.up = IF s.wst = "released" THEN s.up ELSE s.up \o <<p>>,
         s.cpc # "ready" => ~Silent(s),
         s.cpc \in {"script", "conf", "dir"} => ~Only(s, {"ACK"})
  PROVE  StageInv(t)
<1>1. s.up \in Seq(PkgType) /\ <<p>> \in Seq(PkgType) /\ <<p>>[1] = p
  BY SessionFields
<1>2. s.cpc \notin {"off", "gone", "auth"}
  BY DEF Waiting
<1>3. \A q \in Seq(PkgType) : Between(s, q) => Doomed(q \o <<p>>)
  <2> SUFFICES ASSUME NEW q \in Seq(PkgType), Between(s, q)
               PROVE  Doomed(q \o <<p>>)
    OBVIOUS
  <2>1. CASE q = <<>>
    <3>1. q \o <<p>> = <<p>>
      BY <1>1, <2>1, MoreFacts
    <3> QED
      BY <1>1, <3>1 DEF Doomed
  <2>2. CASE Doomed(q)
    BY <1>1, <2>2, MoreFacts DEF Doomed
  <2>3. ~Request(s, q)
    BY <1>2 DEF Request, Here
  <2> QED
    BY <2>1, <2>2, <2>3 DEF Between
<1>4. CASE Ended(s)
  BY <1>4 DEF StageInv, Ended
<1>5. ~Off(s) /\ ~Greeting(s)
  BY <1>2 DEF Off, Greeting, Here
<1>6. CASE Keyed(s)
  <2>1. s.up # <<>> /\ s.up[1].t = "key" /\ Between(s, Tail(s.up)) /\ s.wst # "released"
    BY <1>2, <1>6 DEF Keyed, Here
  <2>2. Tail(s.up) \in Seq(PkgType)
    BY <1>1, <2>1, TailFacts
  <2>3. /\ t.up # <<>> /\ t.up[1] = s.up[1]
        /\ Tail(t.up) = Tail(s.up) \o <<p>>
    <3>1. PICK q \in Seq(PkgType), r \in Seq(PkgType) : q = s.up /\ r = <<p>>
      BY <1>1
    <3>2. t.up = q \o r
      BY <2>1, <3>1
    <3>3. q \o r # <<>> /\ (q \o r)[1] = q[1] /\ Tail(q \o r) = Tail(q) \o r
      BY <2>1, <3>1, MoreFacts
    <3> QED
      BY <3>1, <3>2, <3>3
  <2>4. Doomed(Tail(t.up))
    BY <1>3, <2>1, <2>2, <2>3
  <2>5. Keyed(t)
    BY <1>6, <2>1, <2>3, <2>4 DEF Keyed, Between
  <2> QED
    BY <2>5 DEF StageInv
<1>7. CASE Serving(s)
  <2>1. s.wst = "DO_COMMAND" /\ t.up = s.up \o <<p>>
    BY <1>7 DEF Serving
  <2>2. CASE Idle(s)
    <3>1. Idle(t)
      BY <1>1, <1>3, <2>1, <2>2 DEF Idle, Between
    <3> QED
      BY <2>1, <3>1 DEF StageInv, Serving
  <2>3. ~Saving(s)
    BY <1>2 DEF Saving, Here
  <2>4. CASE Shelling(s)
    <3>1. Doomed(t.up) /\ t.up[1].t = "bye"
      BY <1>1, <2>1, <2>4, MoreFacts DEF Shelling, Doomed
    <3>2. Shelling(t)
      BY <2>4, <3>1 DEF Shelling, Here, Only
    <3> QED
      BY <2>1, <3>2 DEF StageInv, Serving
  <2>5. ~Loading(s)
    BY <1>2 DEF Loading, Asked, Sent, Here
  <2> QED
    BY <1>7, <2>2, <2>3, <2>4, <2>5 DEF Serving
<1> QED
  BY <1>4, <1>5, <1>6, <1>7 DEF StageInv

-----------------------------------------------------------------------------
(***************************************************************************)
(* The client goes on                                                      *)
(***************************************************************************)

(* It has the agent's greeting, and sends its key. *)
LEMMA AuthStage ==
  ASSUME NEW s \in SessionType, NEW t \in SessionType, StageInv(s),
         s.cpc = "auth", ~Silent(s),
         t.wst = s.wst, t.cm = s.cm, t.sh = s.sh, t.k = s.k, t.cpc = "ready",
         t.out = <<>>, NEW p \in PkgType, p.t = "key",
         t.up = IF s.wst = "released" THEN s.up ELSE s.up \o <<p>>
  PROVE  StageInv(t)
<1>1. s.up \in Seq(PkgType) /\ <<p>> \in Seq(PkgType) /\ <<p>>[1] = p /\ Tail(<<p>>) = <<>>
  BY SessionFields
<1>2. s.cpc \notin {"off", "gone", "ready"}
  OBVIOUS
<1>3. CASE Ended(s)
  BY <1>3 DEF StageInv, Ended
<1>4. ~Off(s) /\ ~Greeting(s)
  BY DEF Off, Greeting
<1>5. \A q : Between(s, q) => Doomed(q)
  BY DEF Between, Request, Here
<1>6. CASE Keyed(s)
  <2>1. CASE s.up = <<>>
    <3>1. t.up = <<p>>
      BY <1>1, <1>6, <2>1, MoreFacts DEF Keyed
    <3>2. Between(t, Tail(t.up))
      BY <1>1, <3>1 DEF Between
    <3>3. Keyed(t)
      BY <1>1, <1>6, <3>1, <3>2 DEF Keyed
    <3> QED
      BY <3>3 DEF StageInv
  <2>2. CASE s.up # <<>>
    <3>1. s.up[1].t = "key" /\ Doomed(Tail(s.up)) /\ Tail(s.up) \in Seq(PkgType)
      BY <1>1, <1>5, <1>6, <2>2, TailFacts DEF Keyed
    <3>2. /\ t.up # <<>> /\ t.up[1] = s.up[1] /\ Tail(t.up) = Tail(s.up) \o <<p>>
      <4>1. PICK q \in Seq(PkgType), r \in Seq(PkgType) : q = s.up /\ r = <<p>>
        BY <1>1
      <4>2. t.up = q \o r
        BY <1>6, <4>1 DEF Keyed
      <4>3. q \o r # <<>> /\ (q \o r)[1] = q[1] /\ Tail(q \o r) = Tail(q) \o r
        BY <2>2, <4>1, MoreFacts
      <4> QED
        BY <4>1, <4>2, <4>3
    <3>3. Doomed(Tail(t.up))
      BY <1>1, <3>1, <3>2, MoreFacts DEF Doomed
    <3>4. Keyed(t)
      BY <1>6, <3>1, <3>2, <3>3 DEF Keyed, Between
    <3> QED
      BY <3>4 DEF StageInv
  <2> QED
    BY <2>1, <2>2
<1>7. CASE Serving(s)
  <2>1. s.wst = "DO_COMMAND" /\ t.up = s.up \o <<p>>
    BY <1>7 DEF Serving
  <2>2. CASE Idle(s)
    <3>1. Doomed(s.up)
      BY <1>5, <2>2 DEF Idle
    <3>2. Doomed(t.up)
      BY <1>1, <2>1, <3>1, MoreFacts DEF Doomed
    <3>3. Idle(t)
      BY <2>2, <3>2 DEF Idle, Between
    <3> QED
      BY <2>1, <3>3 DEF StageInv, Serving
  <2>3. ~Saving(s) /\ ~Shelling(s)
    BY DEF Saving, Shelling, Here
  <2>4. ~Loading(s)
    BY DEF Loading, Asked, Sent, Here
  <2> QED
    BY <1>7, <2>2, <2>3, <2>4 DEF Serving
<1> QED
  BY <1>3, <1>4, <1>6, <1>7 DEF StageInv

(* A command has ended well. *)
LEMMA SuccStage ==
  ASSUME NEW s \in SessionType, NEW t \in SessionType, StageInv(s),
         s.cpc \in {"echo", "shell", "conf", "args"}, Says(s, "SUCC"),
         t.wst = s.wst, t.cm = s.cm, t.sh = s.sh, t.k = s.k, t.cpc = "ready",
         t.out = <<>>, t.up = s.up
  PROVE  StageInv(t)
<1>1. ~Silent(s)
  BY SessionFields DEF Silent, Says
<1>2. ~Off(s) /\ ~Greeting(s)
  BY DEF Off, Greeting, Here
<1>3. \A q : Between(s, q) => Between(t, q)
  BY <1>1 DEF Between, Request
<1>4. CASE Ended(s)
  BY <1>4 DEF StageInv, Ended
<1>5. CASE Keyed(s)
  <2>1. Keyed(t)
    BY <1>3, <1>5 DEF Keyed, Here
  <2> QED
    BY <2>1 DEF StageInv
<1>6. CASE Serving(s)
  <2>1. CASE Idle(s)
    <3>1. Idle(t)
      BY <1>3, <2>1 DEF Idle
    <3> QED
      BY <1>6, <3>1 DEF StageInv, Serving
  <2>2. ~Saving(s) /\ ~Shelling(s)
    BY <1>1 DEF Saving, Shelling, Only, Ends
  <2>3. ~Loading(s)
    BY <1>1 DEF Loading, Asked, Sent, Only, Ends
  <2> QED
    BY <1>6, <2>1, <2>2, <2>3 DEF Serving
<1> QED
  BY <1>2, <1>4, <1>5, <1>6 DEF StageInv

(* It gives the next command. *)
LEMMA RequestStage ==
  ASSUME NEW s \in SessionType, NEW t \in SessionType, StageInv(s), s.cpc = "ready",
         t.wst = s.wst, t.cm = s.cm, t.sh = s.sh, t.cpc \notin {"off", "ready"},
         t.out = s.out, NEW pkgs \in Seq(PkgType), Request(t, pkgs),
         t.up = IF s.wst = "released" THEN s.up ELSE s.up \o pkgs
  PROVE  StageInv(t)
<1>1. s.up \in Seq(PkgType)
  BY SessionFields
<1>2. \A q \in Seq(PkgType) : Between(s, q) => Between(t, q \o pkgs)
  <2> SUFFICES ASSUME NEW q \in Seq(PkgType), Between(s, q)
               PROVE  Between(t, q \o pkgs)
    OBVIOUS
  <2>1. CASE q = <<>>
    <3>1. q \o pkgs = pkgs
      BY <2>1, MoreFacts
    <3> QED
      BY <3>1 DEF Between
  <2>2. CASE Doomed(q)
    BY <2>2, MoreFacts DEF Doomed, Between
  <2>3. ~Request(s, q)
    BY DEF Request, Here
  <2> QED
    BY <2>1, <2>2, <2>3 DEF Between
<1>3. ~Off(s) /\ ~Greeting(s)
  BY DEF Off, Greeting, Here
<1>4. CASE Ended(s)
  BY <1>4 DEF StageInv, Ended
<1>5. CASE Keyed(s)
  <2>1. s.up # <<>> /\ s.up[1].t = "key" /\ Between(s, Tail(s.up)) /\ s.wst # "released"
    BY <1>5 DEF Keyed, Here
  <2>2. Tail(s.up) \in Seq(PkgType)
    BY <1>1, <2>1, TailFacts
  <2>3. t.up # <<>> /\ t.up[1] = s.up[1] /\ Tail(t.up) = Tail(s.up) \o pkgs
    <3>1. PICK q \in Seq(PkgType) : q = s.up
      BY <1>1
    <3>2. t.up = q \o pkgs
      BY <2>1, <3>1
    <3>3. q \o pkgs # <<>> /\ (q \o pkgs)[1] = q[1] /\ Tail(q \o pkgs) = Tail(q) \o pkgs
      BY <2>1, <3>1, MoreFacts
    <3> QED
      BY <3>1, <3>2, <3>3
  <2>4. Between(t, Tail(t.up))
    BY <1>2, <2>1, <2>2, <2>3
  <2>5. Keyed(t)
    BY <1>5, <2>1, <2>3, <2>4 DEF Keyed
  <2> QED
    BY <2>5 DEF StageInv
<1>6. CASE Serving(s)
  <2>1. t.up = s.up \o pkgs
    BY <1>6 DEF Serving
  <2>2. CASE Idle(s)
    <3>1. Between(t, t.up)
      BY <1>1, <1>2, <2>1, <2>2 DEF Idle
    <3>2. Idle(t)
      BY <2>2, <3>1 DEF Idle
    <3> QED
      BY <1>6, <3>2 DEF StageInv, Serving
  <2>3. ~Saving(s) /\ ~Shelling(s)
    BY DEF Saving, Shelling, Here
  <2>4. ~Loading(s)
    BY DEF Loading, Asked, Sent, Here
  <2> QED
    BY <1>6, <2>2, <2>3, <2>4 DEF Serving
<1> QED
  BY <1>3, <1>4, <1>5, <1>6 DEF StageInv

(* The agent has got a part of EXEC, and gets the next one. *)
LEMMA NextPartStage ==
  ASSUME NEW s \in SessionType, NEW t \in SessionType, StageInv(s), Says(s, "ACK"),
         t.wst = s.wst, t.cm = s.cm, t.sh = s.sh, t.k = s.k,
         t.out = <<>>, t.down = <<>>, NEW pkgs \in Seq(PkgType),
         t.up = IF s.wst = "released" THEN s.up ELSE s.up \o pkgs,
         \/ /\ s.cpc = "script" /\ t.cpc = "conf"
            /\ pkgs # <<>> => /\ pkgs[1].t = "conf" /\ pkgs[1].len = Units
                              /\ pkgs[1].k = s.k
            /\ Parts(s, pkgs, 2) /\ Len(pkgs) <= Units
         \/ /\ s.cpc = "conf" /\ t.cpc = "dir"
            /\ \A j \in DOMAIN pkgs :
                 /\ pkgs[j].t \in {"dir", "file", "part", "end"}
                 /\ pkgs[j].t = "end" \/ (pkgs[j].t = "dir" /\ ~pkgs[j].cmd.dir)
                      => j = Len(pkgs)
         \/ /\ s.cpc = "dir" /\ t.cpc = "args" /\ Len(pkgs) <= 1
            /\ \A j \in DOMAIN pkgs : pkgs[j].t = "args" /\ pkgs[j].k = s.k
  PROVE  StageInv(t)
<1>1. s.up \in Seq(PkgType)
  BY SessionFields
<1>2. ~Silent(s) /\ ~Off(s) /\ ~Greeting(s)
  BY SessionFields DEF Silent, Says, Off, Greeting, Here
<1>3. \A q \in Seq(PkgType) : Between(s, q) => Doomed(q \o pkgs)
  <2>1. \A q \in Seq(PkgType) : Between(s, q) => Doomed(q)
    BY <1>2 DEF Between, Request
  <2> QED
    BY <2>1, MoreFacts DEF Doomed
<1>4. CASE Ended(s)
  BY <1>4 DEF StageInv, Ended
<1>5. CASE Keyed(s)
  <2>1. s.up # <<>> /\ s.up[1].t = "key" /\ Between(s, Tail(s.up)) /\ s.wst # "released"
    BY <1>5 DEF Keyed, Here
  <2>2. Tail(s.up) \in Seq(PkgType)
    BY <1>1, <2>1, TailFacts
  <2>3. t.up # <<>> /\ t.up[1] = s.up[1] /\ Tail(t.up) = Tail(s.up) \o pkgs
    <3>1. PICK q \in Seq(PkgType) : q = s.up
      BY <1>1
    <3>2. t.up = q \o pkgs
      BY <2>1, <3>1
    <3>3. q \o pkgs # <<>> /\ (q \o pkgs)[1] = q[1] /\ Tail(q \o pkgs) = Tail(q) \o pkgs
      BY <2>1, <3>1, MoreFacts
    <3> QED
      BY <3>1, <3>2, <3>3
  <2>4. Between(t, Tail(t.up))
    BY <1>3, <2>1, <2>2, <2>3 DEF Between
  <2>5. Keyed(t)
    BY <1>5, <2>1, <2>3, <2>4 DEF Keyed
  <2> QED
    BY <2>5 DEF StageInv
<1>6. CASE Serving(s)
  <2>1. t.up = s.up \o pkgs
    BY <1>6 DEF Serving
  <2>2. CASE Idle(s)
    <3>1. Between(t, t.up)
      BY <1>1, <1>3, <2>1, <2>2 DEF Idle, Between
    <3>2. Idle(t)
      BY <2>2, <3>1 DEF Idle
    <3> QED
      BY <1>6, <3>2 DEF StageInv, Serving
  <2>3. ~Saving(s) /\ ~Shelling(s)
    BY DEF Saving, Shelling, Here
  <2>4. CASE Loading(s)
    <3>1. s.up = <<>> => t.up = pkgs
      BY <1>1, <2>1, MoreFacts
    <3>2. Parts(s, pkgs, 2) => Parts(t, pkgs, 2)
      BY DEF Parts
    <3>3. Sent(t, t.cpc)
      BY DEF Sent, Here, Silent
    <3>4. CASE s.cpc = "script"
      <4>1. s.cm.st = "RECV_CONFIG" /\ s.cm.f = None /\ s.up = <<>>
        BY <1>2, <2>4, <3>4 DEF Loading, Asked, Sent, Here
      <4>2. FileComes(t)
        BY <3>1, <3>2, <3>4, <4>1 DEF FileComes
      <4>3. Loading(t)
        BY <2>4, <3>3, <3>4, <4>1, <4>2 DEF Loading
      <4> QED
        BY <1>6, <3>4, <4>3 DEF StageInv, Serving
    <3>5. CASE s.cpc = "conf"
      <4>1. s.cm.st = "RECV_DIR" /\ s.cm.conf = s.k /\ s.up = <<>>
        BY <1>2, <2>4, <3>5 DEF Loading, Asked, Sent, Here
      <4>2. DirComes(t)
        BY <3>1, <3>5, <4>1 DEF DirComes
      <4>3. Loading(t)
        BY <2>4, <3>3, <3>5, <4>1, <4>2 DEF Loading
      <4> QED
        BY <1>6, <3>5, <4>3 DEF StageInv, Serving
    <3>6. CASE s.cpc = "dir"
      <4>1. s.cm.st = "RECV_CMD" /\ s.cm.conf = s.k /\ s.up = <<>>
        BY <1>2, <2>4, <3>6 DEF Loading, Asked, Sent, Here
      <4>2. ArgsCome(t)
        BY <3>1, <3>6, <4>1 DEF ArgsCome
      <4>3. Loading(t)
        BY <2>4, <3>3, <3>6, <4>1, <4>2 DEF Loading
      <4> QED
        BY <1>6, <3>6, <4>3 DEF StageInv, Serving
    <3> QED
      BY <3>4, <3>5, <3>6
  <2> QED
    BY <1>6, <2>2, <2>3, <2>4 DEF Serving
<1> QED
  BY <1>2, <1>4, <1>5, <1>6 DEF StageInv

-----------------------------------------------------------------------------
(***************************************************************************)
(* What the client sends                                                   *)
(***************************************************************************)

LEMMA FilePkgsFacts ==
  ASSUME NEW s \in SessionType, NEW t \in {"save", "script", "conf", "file"},
         NEW edit \in {"none", "grown", "shrunk", "changed"}
  PROVE  /\ FilePkgs(t, s, edit) \in Seq(PkgType) /\ FilePkgs(t, s, edit) # <<>>
         /\ FilePkgs(t, s, edit)[1].t = t /\ FilePkgs(t, s, edit)[1].k = s.k
         /\ FilePkgs(t, s, edit)[1].len = Units
         /\ FilePkgs(t, s, edit)[1].cmd = s.cur
         /\ Parts(s, FilePkgs(t, s, edit), 2)
         /\ edit # "grown" => Len(FilePkgs(t, s, edit)) <= Units
<1>1. Units \in Nat \ {0}
  BY BoundsAssumption
<1>2. PICK n \in Nat : n = (CASE edit = "grown"  -> Units + 1
                              [] edit = "shrunk" -> Units - 1
                              [] OTHER           -> Units)
  BY <1>1
<1>3. n <= Units + 1 /\ (edit # "grown" => n <= Units)
  BY <1>1, <1>2
<1>4. PICK h : h = [Pkg(t, s) EXCEPT !.len = Units, !.good = (edit # "changed")]
  OBVIOUS
<1>5. /\ h \in PkgType /\ h.t = t /\ h.k = s.k /\ h.len = Units /\ h.cmd = s.cur
  <2>1. /\ Pkg(t, s) \in PkgType /\ Pkg(t, s).t = t /\ Pkg(t, s).k = s.k
        /\ Pkg(t, s).cmd = s.cur
    BY PkgIn
  <2> QED
    BY <1>1, <1>4, <2>1 DEF PkgType
<1>6. PICK p : p = Pkg("part", s)
  OBVIOUS
<1>7. p \in PkgType /\ p.t = "part" /\ p.k = s.k
  BY <1>6, PkgIn
<1>8. PICK r : r = [i \in 1 .. n - 1 |-> p]
  OBVIOUS
<1>9. \E m \in Nat : m = (IF n = 0 THEN 0 ELSE n - 1) /\ 1 .. n - 1 = 1 .. m
  <2>1. n = 0 => 1 .. n - 1 = 1 .. 0
    OBVIOUS
  <2>2. n # 0 => n - 1 \in Nat
    OBVIOUS
  <2> QED
    BY <2>1, <2>2
<1>10. PICK m \in Nat : m = (IF n = 0 THEN 0 ELSE n - 1) /\ 1 .. n - 1 = 1 .. m
  BY <1>9
<1>11. /\ r \in Seq(PkgType) /\ Len(r) = m /\ DOMAIN r = 1 .. m
       /\ \A j \in DOMAIN r : r[j] = p
  <2>1. r = [i \in 1 .. m |-> p] /\ m \in Nat
    BY <1>8, <1>10
  <2>2. r \in [1 .. m -> PkgType]
    BY <1>7, <2>1
  <2> QED
    BY <2>1, <2>2
<1>12. FilePkgs(t, s, edit) = <<h>> \o r
  BY <1>2, <1>4, <1>6, <1>8 DEF FilePkgs
<1>13. <<h>> \in Seq(PkgType) /\ <<h>>[1] = h /\ Len(<<h>>) = 1 /\ <<h>> # <<>>
  BY <1>5
<1>14. PICK g \in Seq(PkgType) : g = <<h>>
  BY <1>13
<1>15. /\ g \o r \in Seq(PkgType) /\ Len(g \o r) = 1 + m
       /\ DOMAIN (g \o r) = 1 .. 1 + m /\ (g \o r)[1] = h
       /\ \A k \in DOMAIN (g \o r) \ DOMAIN g :
            k - Len(g) \in DOMAIN r /\ (g \o r)[k] = r[k - Len(g)]
  BY <1>11, <1>13, <1>14, ConcatFacts
<1>16. \A k \in DOMAIN (g \o r) : 2 <= k => (g \o r)[k] = p
  BY <1>11, <1>13, <1>14, <1>15
<1>17. g \o r # <<>> /\ (edit # "grown" => Len(g \o r) <= Units)
  BY <1>1, <1>3, <1>10, <1>15
<1>18. Parts(s, g \o r, 2)
  BY <1>7, <1>16 DEF Parts
<1> QED
  BY <1>5, <1>12, <1>14, <1>15, <1>17, <1>18

LEMMA DirPkgsFacts ==
  ASSUME NEW s \in SessionType
  PROVE  /\ DirPkgs(s) \in Seq(PkgType)
         /\ \A j \in DOMAIN DirPkgs(s) :
              /\ DirPkgs(s)[j].t \in {"dir", "file", "part", "end"}
              /\ DirPkgs(s)[j].t = "end"
                   \/ (DirPkgs(s)[j].t = "dir" /\ ~DirPkgs(s)[j].cmd.dir)
                 => j = Len(DirPkgs(s))
<1>1. PICK d : d = Pkg("dir", s)
  OBVIOUS
<1>2. d \in PkgType /\ d.t = "dir" /\ d.cmd = s.cur
  BY <1>1, PkgIn
<1>3. PICK e : e = Pkg("end", s)
  OBVIOUS
<1>4. e \in PkgType /\ e.t = "end"
  BY <1>3, PkgIn
<1>5. PICK q \in Seq(PkgType) : q = FilePkgs("file", s, "none")
  BY FilePkgsFacts
<1>6. \A j \in DOMAIN q : q[j].t \in {"file", "part"}
  <2>1. q[1].t = "file" /\ Parts(s, q, 2)
    BY <1>5, FilePkgsFacts
  <2>2. \A j \in DOMAIN q : j = 1 \/ 2 <= j
    OBVIOUS
  <2> QED
    BY <2>1, <2>2 DEF Parts
<1>7. PICK u \in Seq(PkgType), v \in Seq(PkgType) : u = <<d>> /\ v = <<e>>
  <2>1. <<d>> \in Seq(PkgType) /\ <<e>> \in Seq(PkgType)
    BY <1>2, <1>4
  <2> QED
    BY <2>1
<1>8. Len(u) = 1 /\ Len(v) = 1 /\ u[1] = d /\ v[1] = e
  BY <1>7
<1>9. CASE s.cur.dir
  <2>1. PICK w : w = q \o v
    OBVIOUS
  <2>2. /\ w \in Seq(PkgType) /\ Len(w) = Len(q) + 1 /\ Len(q) \in Nat
        /\ DOMAIN q = 1 .. Len(q) /\ DOMAIN w = 1 .. Len(q) + 1
        /\ \A k \in DOMAIN q : w[k] = q[k]
        /\ \A k \in DOMAIN w \ DOMAIN q :
             k - Len(q) \in DOMAIN v /\ w[k] = v[k - Len(q)]
    BY <1>8, <2>1, ConcatFacts
  <2>3. \A k \in DOMAIN w : w[k].t \in {"file", "part"} \/ (k = Len(w) /\ w[k].t = "end")
    <3> SUFFICES ASSUME NEW k \in DOMAIN w
                 PROVE  w[k].t \in {"file", "part"} \/ (k = Len(w) /\ w[k].t = "end")
      OBVIOUS
    <3>1. CASE k \in DOMAIN q
      BY <1>6, <2>2, <3>1
    <3>2. CASE k \notin DOMAIN q
      <4>1. k = Len(q) + 1
        BY <2>2, <3>2
      <4>2. k - Len(q) = 1
        BY <2>2, <4>1
      <4> QED
        BY <1>4, <1>8, <2>2, <3>2, <4>1, <4>2
    <3> QED
      BY <3>1, <3>2
  <2>4. PICK z : z = u \o w
    OBVIOUS
  <2>5. /\ z \in Seq(PkgType) /\ Len(z) = 1 + Len(w) /\ Len(w) \in Nat
        /\ DOMAIN u = 1 .. 1 /\ DOMAIN z = 1 .. 1 + Len(w)
        /\ \A k \in DOMAIN u : z[k] = u[k]
        /\ \A k \in DOMAIN z \ DOMAIN u : k - 1 \in DOMAIN w /\ z[k] = w[k - 1]
    <3>1. w \in Seq(PkgType)
      BY <2>2
    <3>2. /\ u \o w \in Seq(PkgType) /\ Len(u \o w) = Len(u) + Len(w)
          /\ DOMAIN u = 1 .. Len(u) /\ Len(w) \in Nat
          /\ DOMAIN (u \o w) = 1 .. Len(u) + Len(w)
          /\ \A k \in DOMAIN u : (u \o w)[k] = u[k]
          /\ \A k \in DOMAIN (u \o w) \ DOMAIN u :
               k - Len(u) \in DOMAIN w /\ (u \o w)[k] = w[k - Len(u)]
      BY <3>1, ConcatFacts
    <3> QED
      BY <1>8, <2>4, <3>2
  <2>6. DirPkgs(s) = z
    BY <1>1, <1>3, <1>5, <1>7, <1>9, <2>1, <2>4 DEF DirPkgs
  <2>7. ASSUME NEW j \in DOMAIN z
        PROVE  /\ z[j].t \in {"dir", "file", "part", "end"}
               /\ z[j].t = "end" \/ (z[j].t = "dir" /\ ~z[j].cmd.dir) => j = Len(z)
    <3>1. CASE j \in DOMAIN u
      <4>1. z[j] = d
        BY <1>8, <2>5, <3>1
      <4> QED
        BY <1>2, <1>9, <4>1
    <3>2. CASE j \notin DOMAIN u
      <4>1. j - 1 \in DOMAIN w /\ z[j] = w[j - 1]
        BY <2>5, <3>2
      <4>2. j - 1 = Len(w) => j = Len(z)
        BY <2>5
      <4> QED
        BY <2>3, <4>1, <4>2
    <3> QED
      BY <3>1, <3>2
  <2> QED
    BY <2>5, <2>6, <2>7
<1>10. CASE ~s.cur.dir
  <2>1. DirPkgs(s) = u
    <3>1. DirPkgs(s) = <<d>> \o <<>>
      BY <1>1, <1>10 DEF DirPkgs
    <3> QED
      BY <1>7, <3>1, ConcatEmptySeq
  <2> QED
    BY <1>2, <1>8, <2>1
<1> QED
  BY <1>9, <1>10

-----------------------------------------------------------------------------
(***************************************************************************)
(* The steps of the client                                                 *)
(***************************************************************************)

LEMMA SendsFields ==
  ASSUME NEW s \in SessionType, NEW pkgs \in Seq(PkgType), NEW t, t = Sends(s, pkgs)
  PROVE  /\ t \in SessionType /\ t.cpc = s.cpc /\ t.cur = s.cur /\ t.k = s.k
         /\ t.succ = s.succ /\ t.out = s.out /\ t.down = s.down /\ t.wst = s.wst
         /\ t.cm = s.cm /\ t.sh = s.sh /\ t.done = s.done /\ t.shown = s.shown
         /\ t.up = IF s.wst = "released" THEN s.up ELSE s.up \o pkgs
<1>1. s.up \in Seq(PkgType)
  BY SessionFields
<1>2. PICK u : u = IF s.wst = "released" THEN s.up ELSE s.up \o pkgs
  OBVIOUS
<1>3. u \in Seq(PkgType)
  BY <1>1, <1>2
<1>4. t = [s EXCEPT !.up = u]
  BY <1>2 DEF Sends, SessionType
<1> QED
  BY <1>2, <1>3, <1>4 DEF SessionType

LEMMA GoneFields ==
  ASSUME NEW s \in SessionType, NEW t, t = Gone(s)
  PROVE  /\ t \in SessionType /\ t.cpc = "gone" /\ t.k = s.k /\ t.up = s.up
         /\ t.succ = s.succ /\ t.out = s.out /\ t.down = <<>> /\ t.wst = s.wst
         /\ t.cm = s.cm /\ t.sh = s.sh /\ t.done = s.done
<1>1. PICK e \in Seq(Answers), n \in AnyCmd, z \in Nat :
        e = <<>> /\ n = None /\ z = 0
  <2>1. <<>> \in Seq(Answers)
    OBVIOUS
  <2>2. None \in AnyCmd
    BY DEF AnyCmd
  <2> QED
    BY <2>1, <2>2
<1>2. t = [s EXCEPT !.cpc = "gone", !.cur = n, !.shown = z, !.down = e]
  BY <1>1 DEF Gone
<1>3. t \in SessionType
  <2>1. "gone" \in Points
    BY DEF Points
  <2> QED
    BY <1>2, <2>1 DEF SessionType
<1>4. /\ t.cpc = "gone" /\ t.k = s.k /\ t.up = s.up
      /\ t.succ = s.succ /\ t.out = s.out /\ t.down = e /\ t.wst = s.wst
      /\ t.cm = s.cm /\ t.sh = s.sh /\ t.done = s.done
  BY <1>2 DEF SessionType
<1> QED
  BY <1>1, <1>3, <1>4

LEMMA GoneSession ==
  ASSUME NEW s, NEW t \in SessionType, SessionInv(s), t.cpc = "gone", t.down = <<>>,
         t.succ = s.succ, t.done = s.done, StageInv(t)
  PROVE  SessionInv(t)
<1>1. SaidInv(t)
  BY DEF SaidInv
<1>2. t.succ \subseteq t.done
  BY DEF SessionInv
<1> QED
  BY <1>1, <1>2 DEF SessionInv

LEMMA LessSame ==
  ASSUME NEW q \in Seq(PkgType)
  PROVE  Less(q, q)
BY DEF Less

(* ReadClosed, Kill. *)
LEMMA EndKeeps ==
  ASSUME NEW s, SessionInv(s), s.cpc # "off"
  PROVE  /\ SessionInv(Gone(s))
         /\ \A n \in 0 .. Len(s.up) :
              SessionInv([Gone(s) EXCEPT !.up = SubSeq(@, 1, n)])
<1>1. s \in SessionType /\ StageInv(s) /\ s.up \in Seq(PkgType)
  BY SessionFields DEF SessionInv
<1>2. SessionInv(Gone(s))
  <2>1. PICK t : t = Gone(s)
    OBVIOUS
  <2>2. /\ t \in SessionType /\ t.cpc = "gone" /\ t.k = s.k /\ t.up = s.up
        /\ t.succ = s.succ /\ t.out = s.out /\ t.down = <<>> /\ t.wst = s.wst
        /\ t.cm = s.cm /\ t.sh = s.sh /\ t.done = s.done
    BY <1>1, <2>1, GoneFields
  <2>3. StageInv(t)
    BY <1>1, <2>2, GoneStage, LessSame
  <2> QED
    BY <2>1, <2>2, <2>3, GoneSession
<1>3. ASSUME NEW n \in 0 .. Len(s.up)
      PROVE  SessionInv([Gone(s) EXCEPT !.up = SubSeq(@, 1, n)])
  <2>1. PICK g : g = Gone(s)
    OBVIOUS
  <2>2. /\ g \in SessionType /\ g.cpc = "gone" /\ g.k = s.k /\ g.up = s.up
        /\ g.succ = s.succ /\ g.out = s.out /\ g.down = <<>> /\ g.wst = s.wst
        /\ g.cm = s.cm /\ g.sh = s.sh /\ g.done = s.done
    BY <1>1, <2>1, GoneFields
  <2>3. PICK u : u = SubSeq(s.up, 1, n)
    OBVIOUS
  <2>4. u \in Seq(PkgType) /\ Less(u, s.up)
    BY <1>1, <2>3, PrefixFacts DEF Less
  <2>5. PICK t : t = [g EXCEPT !.up = u]
    OBVIOUS
  <2>6. t = [Gone(s) EXCEPT !.up = SubSeq(@, 1, n)]
    BY <2>1, <2>2, <2>3, <2>5 DEF SessionType
  <2>7. /\ t \in SessionType /\ t.cpc = "gone" /\ t.k = s.k /\ t.up = u
        /\ t.succ = s.succ /\ t.out = s.out /\ t.down = <<>> /\ t.wst = s.wst
        /\ t.cm = s.cm /\ t.sh = s.sh /\ t.done = s.done
    BY <2>2, <2>4, <2>5 DEF SessionType
  <2>8. StageInv(t)
    BY <1>1, <2>4, <2>7, GoneStage
  <2> QED
    BY <2>6, <2>7, <2>8, GoneSession
<1> QED
  BY <1>2, <1>3

(* sayBye: of a client that is ready, or that has not got what it waited   *)
(* for.                                                                    *)
LEMMA ByeKeeps ==
  ASSUME NEW s, SessionInv(s), NEW r \in SessionType,
         r.cpc = s.cpc, r.k = s.k, r.up = s.up, r.succ = s.succ, r.out = s.out,
         r.wst = s.wst, r.cm = s.cm, r.sh = s.sh, r.done = s.done,
         s.cpc \in (Waiting \ {"auth"}) \cup {"ready"},
         s.cpc # "ready" => ~Silent(s),
         s.cpc \in {"script", "conf", "dir"} => ~Only(s, {"ACK"})
  PROVE  SessionInv(Bye(r))
<1>1. s \in SessionType /\ StageInv(s) /\ s.up \in Seq(PkgType)
  BY SessionFields DEF SessionInv
<1>3. PICK p : p = Pkg("bye", r)
  OBVIOUS
<1>4. p \in PkgType /\ p.t = "bye"
  BY <1>3, PkgIn
<1>5. PICK b \in Seq(PkgType) : b = <<p>>
  <2>1. <<p>> \in Seq(PkgType)
    BY <1>4
  <2> QED
    BY <2>1
<1>6. PICK g : g = Sends(r, b)
  OBVIOUS
<1>7. /\ g \in SessionType /\ g.k = r.k /\ g.succ = r.succ /\ g.out = r.out
      /\ g.wst = r.wst /\ g.cm = r.cm /\ g.sh = r.sh /\ g.done = r.done
      /\ g.up = IF r.wst = "released" THEN r.up ELSE r.up \o b
  <2>1. r \in SessionType /\ b \in Seq(PkgType)
    OBVIOUS
  <2> QED
    BY <1>6, <2>1, SendsFields
<1>8. PICK t : t = Gone(g)
  OBVIOUS
<1>9. /\ t \in SessionType /\ t.cpc = "gone" /\ t.k = g.k /\ t.up = g.up
      /\ t.succ = g.succ /\ t.out = g.out /\ t.down = <<>> /\ t.wst = g.wst
      /\ t.cm = g.cm /\ t.sh = g.sh /\ t.done = g.done
  BY <1>7, <1>8, GoneFields
<1>10. t = Bye(r)
  BY <1>3, <1>5, <1>6, <1>8 DEF Bye
<1>11. /\ t.k = s.k /\ t.succ = s.succ /\ t.out = s.out /\ t.wst = s.wst
       /\ t.cm = s.cm /\ t.sh = s.sh /\ t.done = s.done
       /\ t.up = IF s.wst = "released" THEN s.up ELSE s.up \o <<p>>
  BY <1>5, <1>7, <1>9
<1>12. StageInv(t)
  BY <1>1, <1>4, <1>9, <1>11, ByeStage
<1> QED
  BY <1>9, <1>10, <1>11, <1>12, GoneSession

(* connect. *)
LEMMA ConnectKeeps ==
  ASSUME NEW s, SessionInv(s), s.cpc = "off"
  PROVE  SessionInv([s EXCEPT !.cpc = "auth", !.wst = "INIT",
                              !.up = <<Pkg("auth", s)>>])
<1>1. /\ s \in SessionType /\ Off(s) /\ s.down = <<>> /\ s.out = <<>>
      /\ s.succ \subseteq s.done
  BY DEF SessionInv, StageInv, SaidInv
<1>2. PICK p : p = Pkg("auth", s)
  OBVIOUS
<1>3. p \in PkgType /\ p.t = "auth"
  BY <1>1, <1>2, PkgIn
<1>4. PICK u \in Seq(PkgType) : u = <<p>>
  <2>1. <<p>> \in Seq(PkgType)
    BY <1>3
  <2> QED
    BY <2>1
<1>5. PICK t : t = [s EXCEPT !.cpc = "auth", !.wst = "INIT", !.up = u]
  OBVIOUS
<1>6. /\ t \in SessionType /\ t.cpc = "auth" /\ t.wst = "INIT" /\ t.up = u
      /\ t.down = <<>> /\ t.out = <<>> /\ t.cm = s.cm /\ t.sh = s.sh
      /\ t.succ = s.succ /\ t.done = s.done
  <2>1. "auth" \in Points
    BY DEF Points, Waiting
  <2> QED
    BY <1>1, <1>5, <2>1 DEF SessionType
<1>7. SaidInv(t)
  BY <1>6 DEF SaidInv, Says
<1>8. \A j \in DOMAIN u : u[j].t = "auth" /\ j = 1
  BY <1>3, <1>4
<1>9. Greeting(t)
  BY <1>1, <1>6, <1>8 DEF Greeting, Off, Here, Silent
<1> QED
  BY <1>1, <1>2, <1>4, <1>5, <1>6, <1>7, <1>9 DEF SessionInv, StageInv

(* What the client hears: output, or the end of a command or of a part. *)
LEMMA HeardFacts ==
  ASSUME NEW s, SessionInv(s), s.cpc \in Waiting, s.down # <<>>
  PROVE  /\ ~Silent(s) /\ Tail(s.down) \in Seq(Answers) /\ Head(s.down) \in Answers
         /\ \A j \in DOMAIN Tail(s.down) :
              Tail(s.down)[j] = s.down[j + 1] /\ j + 1 \in DOMAIN s.down
         /\ Len(Tail(s.down)) = Len(s.down) - 1 /\ Len(s.down) \in Nat
         /\ Head(s.down) # "DATA" =>
              /\ Tail(s.down) = <<>> /\ s.out = <<>>
              /\ Says(s, Head(s.down)) /\ Head(s.down) \in Ends
<1>1. s \in SessionType /\ s.down \in Seq(Answers) /\ SaidInv(s) /\ s.cpc # "gone"
  BY SessionFields DEF SessionInv, Waiting
<1>2. PICK d \in Seq(Answers) : d = s.down
  BY <1>1
<1>3. /\ Head(d) \in Answers /\ Head(d) = d[1] /\ 1 \in DOMAIN d
      /\ Tail(d) \in Seq(Answers) /\ Len(Tail(d)) = Len(d) - 1
      /\ Len(d) \in Nat \ {0}
      /\ \A k \in DOMAIN Tail(d) : Tail(d)[k] = d[k + 1] /\ k + 1 \in DOMAIN d
  BY <1>2, TailFacts
<1>4. ASSUME Head(d) # "DATA"
      PROVE  Tail(d) = <<>> /\ s.out = <<>> /\ Says(s, Head(d)) /\ Head(d) \in Ends
  <2>1. Len(d) = 1 /\ s.out = <<>>
    <3>1. 1 \in DOMAIN s.down /\ s.down[1] # "DATA"
      BY <1>2, <1>3, <1>4
    <3>2. Len(s.down) = 1 /\ s.out = <<>>
      BY <1>1, <3>1 DEF SaidInv
    <3> QED
      BY <1>2, <3>2
  <2>2. Len(Tail(d)) = 0
    BY <1>3, <2>1
  <2>3. Tail(d) = <<>>
    <3>1. \A q \in Seq(Answers) : Len(q) = 0 => q = <<>>
      OBVIOUS
    <3> QED
      BY <1>3, <2>2, <3>1
  <2>4. Says(s, Head(d))
    <3>1. 1 \in DOMAIN s.down /\ s.down[1] = Head(d)
      BY <1>2, <1>3
    <3> QED
      BY <3>1 DEF Says
  <2> QED
    BY <1>3, <1>4, <2>1, <2>3, <2>4 DEF Answers
<1>5. ~Silent(s)
  BY <1>1 DEF Silent
<1> QED
  BY <1>2, <1>3, <1>4, <1>5

(* Output is shown. *)
LEMMA DataKeeps ==
  ASSUME NEW s, SessionInv(s), s.cpc \in Waiting, s.down # <<>>
  PROVE  SessionInv([s EXCEPT !.down = Tail(@), !.shown = @ + 1])
<1>1. s \in SessionType /\ SaidInv(s) /\ StageInv(s) /\ s.succ \subseteq s.done
  BY DEF SessionInv
<1>2. s.cpc \notin {"off", "ready", "gone"}
  BY DEF Waiting
<1>3. PICK d \in Seq(Answers) : d = Tail(s.down)
  BY HeardFacts
<1>4. /\ ~Silent(s) /\ Len(d) = Len(s.down) - 1 /\ Len(s.down) \in Nat
      /\ \A j \in DOMAIN d : d[j] = s.down[j + 1] /\ j + 1 \in DOMAIN s.down
  BY <1>3, HeardFacts
<1>5. PICK z \in Nat : z = s.shown + 1
  BY <1>1, SessionFields
<1>6. PICK t : t = [s EXCEPT !.down = d, !.shown = z]
  OBVIOUS
<1>7. t = [s EXCEPT !.down = Tail(@), !.shown = @ + 1]
  BY <1>1, <1>3, <1>5, <1>6 DEF SessionType
<1>8. /\ t \in SessionType /\ t.cpc = s.cpc /\ t.k = s.k /\ t.up = s.up
      /\ t.succ = s.succ /\ t.out = s.out /\ t.down = d /\ t.wst = s.wst
      /\ t.cm = s.cm /\ t.sh = s.sh /\ t.done = s.done
  BY <1>1, <1>6 DEF SessionType
<1>9. \A a : Says(t, a) => Says(s, a)
  BY <1>4, <1>8 DEF Says
<1>10. SaidInv(t)
  <2>1. \A j \in DOMAIN d : d[j] # "DATA" => j = Len(d) /\ s.out = <<>>
    <3> SUFFICES ASSUME NEW j \in DOMAIN d, d[j] # "DATA"
                 PROVE  j = Len(d) /\ s.out = <<>>
      OBVIOUS
    <3>1. j + 1 = Len(s.down) /\ s.out = <<>>
      BY <1>1, <1>2, <1>4 DEF SaidInv
    <3>2. j \in Nat
      OBVIOUS
    <3> QED
      BY <1>4, <3>1, <3>2
  <2> QED
    BY <1>1, <1>2, <1>8, <1>9, <2>1 DEF SaidInv
<1>11. StageInv(t)
  BY <1>1, <1>4, <1>8, <1>9, SameStage
<1> QED
  BY <1>1, <1>7, <1>8, <1>10, <1>11 DEF SessionInv

(* What is said to a client that has heard all is nothing. *)
LEMMA AllHeard ==
  ASSUME NEW t \in SessionType, t.succ \subseteq t.done, StageInv(t),
         t.down = <<>>, t.out = <<>>
  PROVE  SessionInv(t)
<1>1. SaidInv(t)
  BY DEF SaidInv, Says
<1> QED
  BY <1>1 DEF SessionInv

(* An end is acted on (Answered). *)
LEMMA AnsweredKeeps ==
  ASSUME NEW s, SessionInv(s), s.cpc \in Waiting, s.down # <<>>,
         NEW m, m = Head(s.down), m # "DATA",
         NEW r \in SessionType, r.down = <<>>,
         r.cpc = s.cpc, r.k = s.k, r.up = s.up, r.succ = s.succ, r.out = s.out,
         r.wst = s.wst, r.cm = s.cm, r.sh = s.sh, r.done = s.done
  PROVE  SessionInv(Answered(r, m))
<1>1. s \in SessionType /\ SaidInv(s) /\ StageInv(s) /\ s.succ \subseteq s.done
  BY DEF SessionInv
<1>2. ~Silent(s) /\ Says(s, m) /\ m \in Ends /\ r.out = <<>>
  BY HeardFacts
<1>3. s.cpc \notin {"off", "ready", "gone"}
  BY DEF Waiting
<1>4. PICK a : a = Answered(r, m)
  OBVIOUS
<1>5. CASE s.cpc = "auth"
  <2>1. PICK p : p = Pkg("key", r)
    OBVIOUS
  <2>2. p \in PkgType /\ p.t = "key"
    BY <2>1, PkgIn
  <2>3. PICK b \in Seq(PkgType) : b = <<p>>
    <3>1. <<p>> \in Seq(PkgType)
      BY <2>2
    <3> QED
      BY <3>1
  <2>4. PICK g : g = Sends(r, b)
    OBVIOUS
  <2>5. /\ g \in SessionType /\ g.k = r.k /\ g.succ = r.succ /\ g.out = r.out
        /\ g.down = r.down /\ g.wst = r.wst /\ g.cm = r.cm /\ g.sh = r.sh
        /\ g.done = r.done
        /\ g.up = IF r.wst = "released" THEN r.up ELSE r.up \o b
    BY <2>4, SendsFields
  <2>6. a = [g EXCEPT !.cpc = "ready"]
    BY <1>4, <1>5, <2>1, <2>3, <2>4 DEF Answered
  <2>7. "ready" \in Points
    BY DEF Points
  <2>8. /\ a \in SessionType /\ a.cpc = "ready" /\ a.k = g.k /\ a.succ = g.succ
        /\ a.out = g.out /\ a.down = g.down /\ a.wst = g.wst /\ a.cm = g.cm
        /\ a.sh = g.sh /\ a.done = g.done /\ a.up = g.up
    BY <2>5, <2>6, <2>7 DEF SessionType
  <2>9. /\ a.k = s.k /\ a.succ = s.succ /\ a.out = <<>> /\ a.down = <<>>
        /\ a.wst = s.wst /\ a.cm = s.cm /\ a.sh = s.sh /\ a.done = s.done
        /\ a.up = IF s.wst = "released" THEN s.up ELSE s.up \o <<p>>
    BY <1>2, <2>3, <2>5, <2>8
  <2>10. StageInv(a)
    BY <1>1, <1>2, <1>5, <2>2, <2>8, <2>9, AuthStage
  <2> QED
    BY <1>1, <1>4, <2>8, <2>9, <2>10, AllHeard
<1>6. CASE s.cpc \in {"echo", "shell", "conf", "args"} /\ m = "SUCC"
  <2>1. PICK u : u = r.succ \cup {r.k}
    OBVIOUS
  <2>2. u \in SUBSET Nat
    BY <2>1, SessionFields
  <2>3. a = [r EXCEPT !.cpc = "ready", !.succ = u]
    <3>1. a = [r EXCEPT !.cpc = "ready", !.succ = @ \cup {r.k}]
      BY <1>4, <1>6 DEF Answered
    <3> QED
      BY <2>1, <3>1 DEF SessionType
  <2>4. "ready" \in Points
    BY DEF Points
  <2>5. /\ a \in SessionType /\ a.cpc = "ready" /\ a.k = r.k /\ a.succ = u
        /\ a.out = r.out /\ a.down = r.down /\ a.wst = r.wst /\ a.cm = r.cm
        /\ a.sh = r.sh /\ a.done = r.done /\ a.up = r.up
    BY <2>2, <2>3, <2>4 DEF SessionType
  <2>6. s.k \in s.done
    BY <1>1, <1>2, <1>3, <1>6 DEF SaidInv
  <2>7. a.succ \subseteq a.done
    BY <1>1, <2>1, <2>5, <2>6
  <2>8. StageInv(a)
    <3>1. /\ a.k = s.k /\ a.out = <<>> /\ a.wst = s.wst /\ a.cm = s.cm
          /\ a.sh = s.sh /\ a.up = s.up
      BY <1>2, <2>5
    <3> QED
      BY <1>1, <1>2, <1>6, <2>5, <3>1, SuccStage
  <2> QED
    BY <1>2, <1>4, <2>5, <2>7, <2>8, AllHeard
<1>7. ASSUME NEW pc \in {"conf", "dir", "args"}, NEW q \in Seq(PkgType),
             s.cpc \in {"script", "conf", "dir"}, m = "ACK",
             a = [Sends(r, q) EXCEPT !.cpc = pc],
             \/ /\ s.cpc = "script" /\ pc = "conf"
                /\ q # <<>> => q[1].t = "conf" /\ q[1].len = Units /\ q[1].k = s.k
                /\ Parts(s, q, 2) /\ Len(q) <= Units
             \/ /\ s.cpc = "conf" /\ pc = "dir"
                /\ \A j \in DOMAIN q :
                     /\ q[j].t \in {"dir", "file", "part", "end"}
                     /\ q[j].t = "end" \/ (q[j].t = "dir" /\ ~q[j].cmd.dir)
                          => j = Len(q)
             \/ /\ s.cpc = "dir" /\ pc = "args" /\ Len(q) <= 1
                /\ \A j \in DOMAIN q : q[j].t = "args" /\ q[j].k = s.k
      PROVE  SessionInv(a)
  <2>1. PICK g : g = Sends(r, q)
    OBVIOUS
  <2>2. /\ g \in SessionType /\ g.k = r.k /\ g.succ = r.succ /\ g.out = r.out
        /\ g.down = r.down /\ g.wst = r.wst /\ g.cm = r.cm /\ g.sh = r.sh
        /\ g.done = r.done
        /\ g.up = IF r.wst = "released" THEN r.up ELSE r.up \o q
    BY <2>1, SendsFields
  <2>3. pc \in Points
    BY DEF Points, Waiting
  <2>4. a = [g EXCEPT !.cpc = pc]
    BY <1>7, <2>1
  <2>5. /\ a \in SessionType /\ a.cpc = pc /\ a.k = g.k /\ a.succ = g.succ
        /\ a.out = g.out /\ a.down = g.down /\ a.wst = g.wst /\ a.cm = g.cm
        /\ a.sh = g.sh /\ a.done = g.done /\ a.up = g.up
    BY <2>2, <2>3, <2>4 DEF SessionType
  <2>6. /\ a.k = s.k /\ a.succ = s.succ /\ a.out = <<>> /\ a.down = <<>>
        /\ a.wst = s.wst /\ a.cm = s.cm /\ a.sh = s.sh /\ a.done = s.done
        /\ a.up = IF s.wst = "released" THEN s.up ELSE s.up \o q
    BY <1>2, <2>2, <2>5
  <2>7. Says(s, "ACK")
    BY <1>2, <1>7
  <2>8. StageInv(a)
    BY <1>1, <1>7, <2>5, <2>6, <2>7, NextPartStage
  <2> QED
    BY <1>1, <2>5, <2>6, <2>8, AllHeard
<1>8. CASE s.cpc = "script" /\ m = "ACK"
  <2>1. PICK q \in Seq(PkgType) : q = FilePkgs("conf", r, "none")
    BY FilePkgsFacts
  <2>2. /\ q[1].t = "conf" /\ q[1].len = Units /\ q[1].k = r.k
        /\ Parts(r, q, 2) /\ Len(q) <= Units
    BY <2>1, FilePkgsFacts
  <2>3. Parts(s, q, 2)
    BY <2>2 DEF Parts
  <2>4. a = [Sends(r, q) EXCEPT !.cpc = "conf"]
    BY <1>4, <1>8, <2>1 DEF Answered
  <2> QED
    BY <1>4, <1>7, <1>8, <2>2, <2>3, <2>4
<1>9. CASE s.cpc = "conf" /\ m = "ACK"
  <2>1. PICK q \in Seq(PkgType) : q = DirPkgs(r)
    BY DirPkgsFacts
  <2>2. \A j \in DOMAIN q :
          /\ q[j].t \in {"dir", "file", "part", "end"}
          /\ q[j].t = "end" \/ (q[j].t = "dir" /\ ~q[j].cmd.dir) => j = Len(q)
    BY <2>1, DirPkgsFacts
  <2>3. a = [Sends(r, q) EXCEPT !.cpc = "dir"]
    BY <1>4, <1>9, <2>1 DEF Answered
  <2> QED
    BY <1>4, <1>7, <1>9, <2>2, <2>3
<1>10. CASE s.cpc = "dir" /\ m = "ACK"
  <2>1. PICK p : p = Pkg("args", r)
    OBVIOUS
  <2>2. p \in PkgType /\ p.t = "args" /\ p.k = s.k
    BY <2>1, PkgIn
  <2>3. PICK q \in Seq(PkgType) : q = <<p>>
    <3>1. <<p>> \in Seq(PkgType)
      BY <2>2
    <3> QED
      BY <3>1
  <2>4. Len(q) <= 1 /\ \A j \in DOMAIN q : q[j].t = "args" /\ q[j].k = s.k
    BY <2>2, <2>3
  <2>5. a = [Sends(r, q) EXCEPT !.cpc = "args"]
    BY <1>4, <1>10, <2>1, <2>3 DEF Answered
  <2> QED
    BY <1>4, <1>7, <1>10, <2>4, <2>5
<1>11. CASE /\ s.cpc # "auth"
            /\ ~(s.cpc \in {"echo", "shell", "conf", "args"} /\ m = "SUCC")
            /\ ~(s.cpc \in {"script", "conf", "dir"} /\ m = "ACK")
  <2>1. a = Bye(r)
    BY <1>4, <1>11 DEF Answered
  <2>2. s.cpc \in {"script", "conf", "dir"} => ~Only(s, {"ACK"})
    BY <1>2, <1>3, <1>11 DEF Only
  <2> QED
    BY <1>2, <1>4, <1>11, <2>1, <2>2, ByeKeeps
<1> QED
  BY <1>5, <1>6, <1>8, <1>9, <1>10, <1>11

(* The next command, with what is sent of it first. *)
LEMMA CommandKeeps ==
  ASSUME NEW s, SessionInv(s), s.cpc = "ready", NEW cmd \in CmdType,
         NEW r \in SessionType, r.cur = cmd, r.k = s.k + 1, r.cpc = s.cpc,
         r.up = s.up, r.out = s.out, r.down = s.down, r.succ = s.succ,
         r.done = s.done, r.wst = s.wst, r.cm = s.cm, r.sh = s.sh,
         NEW pc \in {"echo", "shell", "script"}, NEW pkgs \in Seq(PkgType),
         pkgs # <<>>, pkgs[1].k = r.k,
         \/ pkgs[1].t = "save" /\ pc = "echo" /\ Parts(r, pkgs, 2)
         \/ pkgs[1].t \in {"MKDIR", "STG"} /\ pc = "echo" /\ Len(pkgs) = 1
         \/ pkgs[1].t = "SHELL" /\ pc = "shell" /\ Len(pkgs) = 1
         \/ /\ pkgs[1].t = "script" /\ pc = "script" /\ Parts(r, pkgs, 2)
            /\ pkgs[1].len = Units /\ Len(pkgs) <= Units /\ pkgs[1].cmd \in CmdType
  PROVE  SessionInv(Sends([r EXCEPT !.cpc = pc], pkgs))
<1>1. /\ s \in SessionType /\ SaidInv(s) /\ StageInv(s) /\ s.succ \subseteq s.done
      /\ s.down = <<>> /\ s.out = <<>>
  BY DEF SessionInv, SaidInv
<1>2. pc \in Points /\ pc \notin {"off", "ready", "gone"}
  BY DEF Points, Waiting
<1>3. PICK v : v = [r EXCEPT !.cpc = pc]
  OBVIOUS
<1>4. /\ v \in SessionType /\ v.cpc = pc /\ v.k = r.k /\ v.up = r.up
      /\ v.out = r.out /\ v.down = r.down /\ v.succ = r.succ /\ v.done = r.done
      /\ v.wst = r.wst /\ v.cm = r.cm /\ v.sh = r.sh
  BY <1>2, <1>3 DEF SessionType
<1>5. PICK t : t = Sends(v, pkgs)
  OBVIOUS
<1>6. /\ t \in SessionType /\ t.cpc = v.cpc /\ t.k = v.k /\ t.out = v.out
      /\ t.down = v.down /\ t.succ = v.succ /\ t.done = v.done /\ t.wst = v.wst
      /\ t.cm = v.cm /\ t.sh = v.sh
      /\ t.up = IF v.wst = "released" THEN v.up ELSE v.up \o pkgs
  BY <1>4, <1>5, SendsFields
<1>7. /\ t.cpc = pc /\ t.k = r.k /\ t.out = <<>> /\ t.down = <<>> /\ t.succ = s.succ
      /\ t.done = s.done /\ t.wst = s.wst /\ t.cm = s.cm /\ t.sh = s.sh
      /\ t.up = IF s.wst = "released" THEN s.up ELSE s.up \o pkgs
  BY <1>1, <1>4, <1>6
<1>8. Parts(r, pkgs, 2) => Parts(t, pkgs, 2)
  BY <1>7 DEF Parts
<1>9. Request(t, pkgs)
  BY <1>7, <1>8 DEF Request, Here, Silent
<1>10. t.cpc \notin {"off", "ready"} /\ t.out = s.out
  BY <1>1, <1>2, <1>7
<1>11. StageInv(t)
  BY <1>1, <1>6, <1>7, <1>9, <1>10, RequestStage
<1> QED
  BY <1>1, <1>3, <1>5, <1>6, <1>7, <1>11, AllHeard

(* A session is exchanged for one that is as it should be. *)
LEMMA PutKeeps ==
  ASSUME SessionsInv, NEW c \in Clients, NEW t, SessionInv(t), Put(c, t)
  PROVE  SessionsInv'
<1>1. ses \in [Clients -> SessionType] /\ t \in SessionType
  BY DEF SessionsInv, SessionInv
<1>2. ses' \in [Clients -> SessionType]
  BY <1>1 DEF Put
<1>3. ASSUME NEW d \in Clients
      PROVE  SessionInv(ses'[d])
  <2>1. ses'[d] = IF d = c THEN t ELSE ses[d]
    BY <1>1 DEF Put
  <2> QED
    BY <2>1 DEF SessionsInv
<1> QED
  BY <1>2, <1>3 DEF SessionsInv

LEMMA DoOneCommandKeeps ==
  ASSUME SessionsInv, NEW c \in Clients, NEW cmd \in Commands[c], DoOneCommand(c, cmd)
  PROVE  SessionsInv'
<1>1. PICK s : s = ses[c]
  OBVIOUS
<1>2. SessionInv(s) /\ s \in SessionType /\ s.cpc = "ready"
  BY <1>1 DEF SessionsInv, SessionInv, DoOneCommand
<1>3. cmd \in CmdType
  BY CommandsAssumption DEF CmdType
<1>4. PICK k \in Nat, z \in Nat : k = s.k + 1 /\ z = 0
  BY <1>2, SessionFields
<1>5. cmd \in AnyCmd
  BY <1>3 DEF AnyCmd
<1>6. PICK r : r = [s EXCEPT !.cur = cmd, !.k = k, !.shown = z]
  OBVIOUS
<1>7. /\ r \in SessionType /\ r.cur = cmd /\ r.k = k /\ r.cpc = s.cpc
      /\ r.up = s.up /\ r.out = s.out /\ r.down = s.down /\ r.succ = s.succ
      /\ r.done = s.done /\ r.wst = s.wst /\ r.cm = s.cm /\ r.sh = s.sh
  BY <1>2, <1>5, <1>6 DEF SessionType
<1>8. r = [ses[c] EXCEPT !.cur = cmd, !.k = @ + 1, !.shown = 0]
  BY <1>1, <1>2, <1>4, <1>6 DEF SessionType
<1>9. \/ /\ cmd.op = "SAVE"
         /\ \E edit \in {"none", "grown", "shrunk", "changed"} :
              Put(c, Sends([r EXCEPT !.cpc = "echo"], FilePkgs("save", r, edit)))
      \/ /\ cmd.op \in {"MKDIR", "STG"}
         /\ Put(c, Sends([r EXCEPT !.cpc = "echo"], <<Pkg(cmd.op, r)>>))
      \/ /\ cmd.op = "SHELL"
         /\ Put(c, Sends([r EXCEPT !.cpc = "shell"], <<Pkg("SHELL", r)>>))
      \/ /\ cmd.op = "EXEC"
         /\ \E edit \in {"none", "changed"} :
              Put(c, Sends([r EXCEPT !.cpc = "script"], FilePkgs("script", r, edit)))
  BY <1>8 DEF DoOneCommand
<1>10. r.k = s.k + 1
  BY <1>4, <1>7
<1>11. ASSUME NEW pc \in {"echo", "shell", "script"}, NEW q \in Seq(PkgType),
              q # <<>>, q[1].k = r.k, 
              \/ q[1].t = "save" /\ pc = "echo" /\ Parts(r, q, 2)
              \/ q[1].t \in {"MKDIR", "STG"} /\ pc = "echo" /\ Len(q) = 1
              \/ q[1].t = "SHELL" /\ pc = "shell" /\ Len(q) = 1
              \/ /\ q[1].t = "script" /\ pc = "script" /\ Parts(r, q, 2)
                 /\ q[1].len = Units /\ Len(q) <= Units /\ q[1].cmd \in CmdType,
              Put(c, Sends([r EXCEPT !.cpc = pc], q))
       PROVE  SessionsInv'
  <2>1. PICK t : t = Sends([r EXCEPT !.cpc = pc], q)
    OBVIOUS
  <2>2. SessionInv(t)
    BY <1>2, <1>3, <1>7, <1>10, <1>11, <2>1, CommandKeeps
  <2> QED
    BY <1>11, <2>1, <2>2, PutKeeps
<1>12. CASE \E edit \in {"none", "grown", "shrunk", "changed"} :
              Put(c, Sends([r EXCEPT !.cpc = "echo"], FilePkgs("save", r, edit)))
  <2>1. PICK edit \in {"none", "grown", "shrunk", "changed"} :
          Put(c, Sends([r EXCEPT !.cpc = "echo"], FilePkgs("save", r, edit)))
    BY <1>12
  <2>2. PICK q : q = FilePkgs("save", r, edit)
    OBVIOUS
  <2>3. /\ q \in Seq(PkgType) /\ q # <<>> /\ q[1].t = "save" /\ q[1].k = r.k
        /\ Parts(r, q, 2)
    <3>1. r \in SessionType /\ "save" \in {"save", "script", "conf", "file"}
          /\ edit \in {"none", "grown", "shrunk", "changed"}
      BY <1>7, <2>1
    <3>2. /\ FilePkgs("save", r, edit) \in Seq(PkgType) /\ FilePkgs("save", r, edit) # <<>>
          /\ FilePkgs("save", r, edit)[1].t = "save" /\ FilePkgs("save", r, edit)[1].k = r.k
          /\ Parts(r, FilePkgs("save", r, edit), 2)
      <4>1. PICK kind \in {"save", "script", "conf", "file"} : kind = "save"
        OBVIOUS
      <4>2. /\ FilePkgs(kind, r, edit) \in Seq(PkgType) /\ FilePkgs(kind, r, edit) # <<>>
            /\ FilePkgs(kind, r, edit)[1].t = kind /\ FilePkgs(kind, r, edit)[1].k = r.k
            /\ FilePkgs(kind, r, edit)[1].len = Units
            /\ FilePkgs(kind, r, edit)[1].cmd = r.cur
            /\ Parts(r, FilePkgs(kind, r, edit), 2)
            /\ edit # "grown" => Len(FilePkgs(kind, r, edit)) <= Units
        BY <3>1, FilePkgsFacts
      <4> QED
        BY <4>1, <4>2
    <3> QED
      BY <2>2, <3>2
  <2> QED
    <3>1. Put(c, Sends([r EXCEPT !.cpc = "echo"], q))
      BY <2>1, <2>2
    <3> QED
      BY <1>11, <2>3, <3>1
<1>13. CASE \E edit \in {"none", "changed"} :
              Put(c, Sends([r EXCEPT !.cpc = "script"], FilePkgs("script", r, edit)))
  <2>1. PICK edit \in {"none", "changed"} :
          Put(c, Sends([r EXCEPT !.cpc = "script"], FilePkgs("script", r, edit)))
    BY <1>13
  <2>2. PICK q : q = FilePkgs("script", r, edit)
    OBVIOUS
  <2>3. /\ q \in Seq(PkgType) /\ q # <<>> /\ q[1].t = "script" /\ q[1].k = r.k
        /\ q[1].len = Units /\ q[1].cmd = cmd /\ Parts(r, q, 2) /\ Len(q) <= Units
    <3>1. r \in SessionType /\ "script" \in {"save", "script", "conf", "file"}
          /\ edit \in {"none", "grown", "shrunk", "changed"}
      BY <1>7, <2>1
    <3>2. /\ FilePkgs("script", r, edit) \in Seq(PkgType) /\ FilePkgs("script", r, edit) # <<>>
          /\ FilePkgs("script", r, edit)[1].t = "script" /\ FilePkgs("script", r, edit)[1].k = r.k
          /\ Parts(r, FilePkgs("script", r, edit), 2)
          /\ FilePkgs("script", r, edit)[1].len = Units
          /\ FilePkgs("script", r, edit)[1].cmd = r.cur
          /\ (edit # "grown" => Len(FilePkgs("script", r, edit)) <= Units)
      BY <3>1, FilePkgsFacts
    <3> QED
      BY <1>7, <2>1, <2>2, <3>2
  <2> QED
    <3>1. Put(c, Sends([r EXCEPT !.cpc = "script"], q))
      BY <2>1, <2>2
    <3> QED
      BY <1>3, <1>11, <2>3, <3>1
<1>14. ASSUME NEW op \in {"MKDIR", "STG", "SHELL"}, NEW pc \in {"echo", "shell"},
              pc = IF op = "SHELL" THEN "shell" ELSE "echo",
              Put(c, Sends([r EXCEPT !.cpc = pc], <<Pkg(op, r)>>))
       PROVE  SessionsInv'
  <2>1. PICK p : p = Pkg(op, r)
    OBVIOUS
  <2>2. p \in PkgType /\ p.t = op /\ p.k = r.k
    BY <1>7, <2>1, PkgIn
  <2>3. PICK q \in Seq(PkgType) : q = <<p>>
    <3>1. <<p>> \in Seq(PkgType)
      BY <2>2
    <3> QED
      BY <3>1
  <2>4. q # <<>> /\ q[1] = p /\ Len(q) = 1
    BY <2>3
  <2>5. Put(c, Sends([r EXCEPT !.cpc = pc], q))
    BY <1>14, <2>1, <2>3
  <2> QED
    BY <1>11, <1>14, <2>2, <2>4, <2>5
<1> QED
  BY <1>9, <1>12, <1>13, <1>14

LEMMA ReadKeeps ==
  ASSUME SessionsInv, NEW c \in Clients, Read(c)
  PROVE  SessionsInv'
<1>1. PICK s : s = ses[c]
  OBVIOUS
<1>2. /\ SessionInv(s) /\ s \in SessionType /\ s.cpc \in Waiting /\ s.down # <<>>
  BY <1>1 DEF SessionsInv, SessionInv, Read
<1>3. PICK m : m = Head(s.down)
  OBVIOUS
<1>4. PICK d \in Seq(Answers) : d = Tail(s.down)
  BY <1>2, HeardFacts
<1>5. PICK r : r = [s EXCEPT !.down = d]
  OBVIOUS
<1>6. /\ r \in SessionType /\ r.cpc = s.cpc /\ r.k = s.k /\ r.up = s.up
      /\ r.succ = s.succ /\ r.out = s.out /\ r.down = d /\ r.wst = s.wst
      /\ r.cm = s.cm /\ r.sh = s.sh /\ r.done = s.done /\ r.shown = s.shown
  BY <1>2, <1>5 DEF SessionType
<1>7. r = [ses[c] EXCEPT !.down = Tail(@)]
  BY <1>1, <1>2, <1>4, <1>5 DEF SessionType
<1>8. \/ m = "DATA" /\ Put(c, [r EXCEPT !.shown = @ + 1])
      \/ m # "DATA" /\ Put(c, Answered(r, m))
      \/ s.cpc = "shell" /\ Put(c, Bye(r))
  BY <1>1, <1>3, <1>7 DEF Read
<1>9. CASE m = "DATA" /\ Put(c, [r EXCEPT !.shown = @ + 1])
  <2>1. PICK t : t = [s EXCEPT !.down = Tail(@), !.shown = @ + 1]
    OBVIOUS
  <2>2. t = [r EXCEPT !.shown = @ + 1]
    BY <1>2, <1>4, <1>5, <2>1 DEF SessionType
  <2>3. SessionInv(t)
    BY <1>2, <2>1, DataKeeps
  <2> QED
    BY <1>9, <2>2, <2>3, PutKeeps
<1>10. CASE m # "DATA" /\ Put(c, Answered(r, m))
  <2>1. r.down = <<>>
    <3>1. Tail(s.down) = <<>>
      BY <1>2, <1>3, <1>10, HeardFacts
    <3> QED
      BY <1>4, <1>6, <3>1
  <2>2. PICK t : t = Answered(r, m)
    OBVIOUS
  <2>3. SessionInv(t)
    BY <1>2, <1>3, <1>6, <1>10, <2>1, <2>2, AnsweredKeeps
  <2> QED
    BY <1>10, <2>2, <2>3, PutKeeps
<1>11. CASE s.cpc = "shell" /\ Put(c, Bye(r))
  <2>1. PICK t : t = Bye(r)
    OBVIOUS
  <2>2. s.cpc \in (Waiting \ {"auth"}) \cup {"ready"} /\ ~Silent(s)
    BY <1>2, <1>11, HeardFacts
  <2>3. SessionInv(t)
    BY <1>2, <1>6, <1>11, <2>1, <2>2, ByeKeeps
  <2> QED
    BY <1>11, <2>1, <2>3, PutKeeps
<1> QED
  BY <1>8, <1>9, <1>10, <1>11

(* Every step of a client. *)
LEMMA ClientKeeps ==
  ASSUME SessionsInv, NEW c \in Clients, Client(c)
  PROVE  SessionsInv'
<1>1. PICK s : s = ses[c]
  OBVIOUS
<1>2. SessionInv(s) /\ s \in SessionType
  BY <1>1 DEF SessionsInv, SessionInv
<1>3. CASE Connect(c)
  <2>1. PICK t : t = [s EXCEPT !.cpc = "auth", !.wst = "INIT",
                               !.up = <<Pkg("auth", s)>>]
    OBVIOUS
  <2>2. s.cpc = "off" /\ Put(c, t)
    BY <1>1, <1>3, <2>1 DEF Connect
  <2> QED
    BY <1>2, <2>1, <2>2, ConnectKeeps, PutKeeps
<1>4. CASE SayBye(c)
  <2>1. PICK t : t = Bye(s)
    OBVIOUS
  <2>2. s.cpc = "ready" /\ Put(c, t)
    BY <1>1, <1>4, <2>1 DEF SayBye
  <2>3. SessionInv(t)
    BY <1>2, <2>1, <2>2, ByeKeeps
  <2> QED
    BY <2>2, <2>3, PutKeeps
<1>5. CASE Read(c)
  BY <1>5, ReadKeeps
<1>6. CASE ReadClosed(c)
  <2>1. PICK t : t = Gone(s)
    OBVIOUS
  <2>2. s.cpc # "off" /\ Put(c, t)
    BY <1>1, <1>6, <2>1 DEF ReadClosed, Waiting
  <2> QED
    BY <1>2, <2>1, <2>2, EndKeeps, PutKeeps
<1>7. CASE Kill(c)
  <2>1. PICK n \in 0 .. Len(s.up) : Put(c, [Gone(s) EXCEPT !.up = SubSeq(@, 1, n)])
    BY <1>1, <1>7 DEF Kill
  <2>2. PICK t : t = [Gone(s) EXCEPT !.up = SubSeq(@, 1, n)]
    OBVIOUS
  <2>3. s.cpc # "off"
    BY <1>1, <1>7 DEF Kill, Waiting
  <2>4. SessionInv(t)
    BY <1>2, <2>2, <2>3, EndKeeps
  <2> QED
    BY <2>1, <2>2, <2>4, PutKeeps
<1>8. CASE \E cmd \in Commands[c] : DoOneCommand(c, cmd)
  BY <1>8, DoOneCommandKeeps
<1> QED
  BY <1>3, <1>4, <1>5, <1>6, <1>7, <1>8 DEF Client

-----------------------------------------------------------------------------
(***************************************************************************)
(* The waiter                                                              *)
(***************************************************************************)

(* r is the session s without its first package. *)
RestOf(r, s) ==
  /\ r \in SessionType /\ r.cpc = s.cpc /\ r.cur = s.cur /\ r.k = s.k
  /\ r.succ = s.succ /\ r.out = s.out /\ r.down = s.down /\ r.wst = s.wst
  /\ r.cm = s.cm /\ r.sh = s.sh /\ r.done = s.done /\ r.shown = s.shown
  /\ r.up = Tail(s.up) /\ r.up \in Seq(PkgType)
  /\ Head(s.up) \in PkgType /\ Head(s.up) = s.up[1] /\ 1 \in DOMAIN s.up
  /\ Len(r.up) = Len(s.up) - 1 /\ Len(s.up) \in Nat \ {0}
  /\ DOMAIN s.up = 1 .. Len(s.up) /\ DOMAIN r.up = 1 .. Len(s.up) - 1
  /\ \A j \in DOMAIN r.up : r.up[j] = s.up[j + 1] /\ j + 1 \in DOMAIN s.up

LEMMA RestFields ==
  ASSUME NEW s \in SessionType, s.up # <<>>, NEW r, r = [s EXCEPT !.up = Tail(@)]
  PROVE  RestOf(r, s)
<1>1. PICK q \in Seq(PkgType) : q = s.up
  BY SessionFields
<1>2. PICK u : u = Tail(q)
  OBVIOUS
<1>3. /\ Head(q) \in PkgType /\ Head(q) = q[1] /\ 1 \in DOMAIN q
      /\ u \in Seq(PkgType) /\ Len(u) = Len(q) - 1
      /\ DOMAIN q = 1 .. Len(q) /\ Len(q) \in Nat \ {0}
      /\ DOMAIN u = 1 .. Len(q) - 1
      /\ \A k \in DOMAIN u : u[k] = q[k + 1] /\ k + 1 \in DOMAIN q
  BY <1>1, <1>2, TailFacts
<1>4. r = [s EXCEPT !.up = u]
  BY <1>1, <1>2 DEF SessionType
<1>5. /\ r \in SessionType /\ r.cpc = s.cpc /\ r.cur = s.cur /\ r.k = s.k
      /\ r.succ = s.succ /\ r.out = s.out /\ r.down = s.down /\ r.wst = s.wst
      /\ r.cm = s.cm /\ r.sh = s.sh /\ r.done = s.done /\ r.shown = s.shown
      /\ r.up = u
  BY <1>3, <1>4 DEF SessionType
<1> QED
  BY <1>1, <1>2, <1>3, <1>5 DEF RestOf

(* r is the session s, but for what is said. *)
Spoken(r, s, out) ==
  /\ r \in SessionType /\ r.cpc = s.cpc /\ r.cur = s.cur /\ r.k = s.k
  /\ r.succ = s.succ /\ r.down = s.down /\ r.wst = s.wst /\ r.up = s.up
  /\ r.cm = s.cm /\ r.sh = s.sh /\ r.done = s.done
  /\ r.out = out /\ r.out \in Seq(Answers)

LEMMA SayFields ==
  ASSUME NEW s \in SessionType, NEW a \in Answers, NEW r, r = Say(s, a)
  PROVE  Spoken(r, s, Append(s.out, a))
<1>1. PICK q \in Seq(Answers) : q = Append(s.out, a)
  <2>1. PICK o \in Seq(Answers) : o = s.out
    BY SessionFields
  <2>2. Append(o, a) \in Seq(Answers)
    OBVIOUS
  <2> QED
    BY <2>1, <2>2
<1>2. r = [s EXCEPT !.out = q]
  BY <1>1 DEF Say, SessionType
<1>3. /\ r \in SessionType /\ r.cpc = s.cpc /\ r.cur = s.cur /\ r.k = s.k
      /\ r.succ = s.succ /\ r.down = s.down /\ r.wst = s.wst /\ r.up = s.up
      /\ r.cm = s.cm /\ r.sh = s.sh /\ r.done = s.done /\ r.out = q
  BY <1>2 DEF SessionType
<1> QED
  BY <1>1, <1>3 DEF Spoken

(* Nothing is said. *)
LEMMA UnsaidKeeps ==
  ASSUME NEW s, SessionInv(s), NEW t \in SessionType,
         t.cpc = s.cpc, t.k = s.k, t.down = s.down, t.out = s.out,
         t.succ = s.succ, s.done \subseteq t.done, StageInv(t)
  PROVE  SessionInv(t)
<1>1. s.succ \subseteq s.done /\ SaidInv(s)
  BY DEF SessionInv
<1>2. \A a : Says(t, a) => Says(s, a)
  BY DEF Says
<1>3. SaidInv(t)
  BY <1>1, <1>2 DEF SaidInv
<1> QED
  BY <1>1, <1>3 DEF SessionInv

(* The end of a command or of a part of it is said. *)
LEMMA SaidOne ==
  ASSUME NEW s, SessionInv(s), NEW t \in SessionType, NEW a \in Ends,
         Silent(s), s.cpc \notin {"off", "ready"},
         t.cpc = s.cpc, t.k = s.k, t.down = s.down, t.out = Append(s.out, a),
         t.succ = s.succ, s.done \subseteq t.done, a = "SUCC" => s.k \in t.done
  PROVE  /\ SaidInv(t) /\ t.succ \subseteq t.done
         /\ \A b : t.cpc # "gone" /\ Says(t, b) => b = a
<1>1. s.succ \subseteq s.done /\ SaidInv(s)
  BY DEF SessionInv
<1>2. ASSUME s.cpc # "gone"
      PROVE  t.down = <<>> /\ t.out = <<a>>
  <2>1. s.down = <<>> /\ s.out = <<>>
    BY <1>2 DEF Silent
  <2> QED
    BY <2>1
<1>3. \A b : t.cpc # "gone" /\ Says(t, b) => b = a
  BY <1>2 DEF Says
<1>4. ASSUME s.cpc # "gone"
      PROVE  \A j \in DOMAIN t.out : j = Len(t.out)
  BY <1>2, <1>4
<1>5. t.cpc = "gone" => t.down = <<>>
  BY <1>1 DEF SaidInv
<1>6. SaidInv(t)
  BY <1>2, <1>3, <1>4, <1>5 DEF SaidInv
<1> QED
  BY <1>1, <1>3, <1>6

(* The session is released: nothing more is said. *)
LEMMA ReleasedKeeps ==
  ASSUME NEW s, SessionInv(s), s.wst # "none", NEW x \in SessionType,
         x.cpc = s.cpc, x.k = s.k, x.down = s.down, x.succ = s.succ,
         s.done \subseteq x.done, NEW t \in Released(x)
  PROVE  SessionInv(t)
<1>1. s \in SessionType /\ s.succ \subseteq s.done /\ SaidInv(s) /\ s.cpc # "off"
  BY DEF SessionInv, StageInv, Off
<1>2. PICK e \in Seq(Answers) : e = <<>>
  <2>1. <<>> \in Seq(Answers)
    OBVIOUS
  <2> QED
    BY <2>1
<1>3. PICK q \in Seq(PkgType) : q = <<>>
  <2>1. <<>> \in Seq(PkgType)
    OBVIOUS
  <2> QED
    BY <2>1
<1>4. PICK h : h = NewSession.sh
  OBVIOUS
<1>5. h \in ShellType /\ h.st = "none"
  BY <1>4 DEF NewSession, ShellType
<1>6. PICK n \in CommanderType : n = None
  <2>1. None \in CommanderType
    BY DEF CommanderType
  <2> QED
    BY <2>1
<1>7. PICK v : v = [x EXCEPT !.wst = "released", !.cm = n, !.out = e, !.up = q, !.sh = h]
  OBVIOUS
<1>8. /\ v \in SessionType /\ v.cpc = x.cpc /\ v.k = x.k /\ v.succ = x.succ
      /\ v.down = x.down /\ v.done = x.done /\ v.wst = "released" /\ v.cm = n
      /\ v.out = e /\ v.up = q /\ v.sh = h
  BY <1>5, <1>7 DEF SessionType
<1>9. t = v \/ t = [v EXCEPT !.down = e]
  BY <1>2, <1>3, <1>4, <1>6, <1>7 DEF Released
<1>10. ASSUME NEW w \in SessionType, w.cpc = x.cpc, w.k = x.k, w.succ = x.succ,
              w.down = x.down \/ w.down = <<>>, w.done = x.done,
              w.wst = "released", w.cm = n, w.out = e, w.up = q, w.sh = h
       PROVE  SessionInv(w)
  <2>1. Ended(w)
    BY <1>2, <1>3, <1>5, <1>6, <1>10 DEF Ended
  <2>2. StageInv(w)
    BY <1>1, <1>10, <2>1 DEF StageInv
  <2>3. \A a : Says(w, a) => Says(s, a)
    BY <1>2, <1>10 DEF Says
  <2>4. SaidInv(w)
    BY <1>1, <1>2, <1>10, <2>3 DEF SaidInv
  <2> QED
    BY <1>1, <1>10, <2>2, <2>4 DEF SessionInv
<1>11. CASE t = v
  BY <1>8, <1>10, <1>11
<1>12. CASE t = [v EXCEPT !.down = e]
  <2>1. /\ t \in SessionType /\ t.cpc = x.cpc /\ t.k = x.k /\ t.succ = x.succ
        /\ t.down = e /\ t.done = x.done /\ t.wst = "released" /\ t.cm = n
        /\ t.out = e /\ t.up = q /\ t.sh = h
    BY <1>8, <1>12 DEF SessionType
  <2> QED
    BY <1>2, <1>10, <2>1
<1> QED
  BY <1>9, <1>11, <1>12

(* The waiter looks at a package that no commander waits for. *)
LEMMA NewCommandFacts ==
  ASSUME NEW s, SessionInv(s), s.wst = "DO_COMMAND", s.up # <<>>, Commander(s) = None
  PROVE  /\ Idle(s) /\ s.cpc # "off" /\ s.sh.st \in {"none", "stop"}
         /\ Doomed(s.up) \/ Request(s, s.up)
<1>1. s.cpc # "off" /\ Serving(s)
  BY DEF SessionInv, StageInv, Off, Ended, Greeting, Keyed
<1>2. ~Saving(s) /\ ~Shelling(s) /\ ~Loading(s)
  BY DEF Saving, Shelling, Loading, Commander, None
<1>3. Idle(s)
  BY <1>1, <1>2 DEF Serving
<1> QED
  BY <1>1, <1>3 DEF Idle, Between

(* processSSLAuth. *)
LEMMA ProcessSSLAuthKeeps ==
  ASSUME SessionsInv, NEW c \in Clients, ProcessSSLAuth(c)
  PROVE  SessionsInv'
<1>1. PICK s : s = ses[c]
  OBVIOUS
<1>2. /\ SessionInv(s) /\ s \in SessionType /\ s.wst = "INIT" /\ s.up # <<>>
  BY <1>1 DEF SessionsInv, SessionInv, ProcessSSLAuth, Takes
<1>3. s.cpc # "off" /\ Greeting(s)
  BY <1>2 DEF SessionInv, StageInv, Off, Ended, Keyed, Serving
<1>4. PICK r : r = Rest(c)
  OBVIOUS
<1>5. r = [s EXCEPT !.up = Tail(@)]
  BY <1>1, <1>4 DEF Rest
<1>6. /\ r \in SessionType /\ r.cpc = s.cpc /\ r.k = s.k /\ r.succ = s.succ
      /\ r.out = s.out /\ r.down = s.down /\ r.wst = s.wst /\ r.cm = s.cm
      /\ r.sh = s.sh /\ r.done = s.done /\ r.up \in Seq(PkgType)
      /\ \A j \in DOMAIN r.up : j + 1 \in DOMAIN s.up
      /\ DOMAIN r.up = 1 .. Len(s.up) - 1 /\ Len(s.up) \in Nat \ {0}
      /\ Len(r.up) = Len(s.up) - 1
  BY <1>2, <1>5, RestFields DEF RestOf
<1>7. r.up = <<>>
  <2>1. ASSUME NEW j \in DOMAIN r.up
        PROVE  FALSE
    <3>1. j + 1 = 1 /\ j \in 1 .. Len(s.up) - 1
      BY <1>3, <1>6 DEF Greeting
    <3> QED
      BY <1>6, <3>1
  <2>2. DOMAIN r.up = {}
    BY <2>1
  <2>3. \A q \in Seq(PkgType) : DOMAIN q = {} => q = <<>>
    <3> SUFFICES ASSUME NEW q \in Seq(PkgType), DOMAIN q = {}
                 PROVE  q = <<>>
      OBVIOUS
    <3>1. 1 \notin 1 .. Len(q) /\ Len(q) \in Nat
      OBVIOUS
    <3>2. Len(q) = 0
      BY <3>1
    <3> QED
      BY <3>2
  <2> QED
    BY <1>6, <2>2, <2>3
<1>8. PICK a \in Answers : a = "auth" /\ a \in Ends
  BY DEF Answers, Ends
<1>9. PICK v : v = Say(r, a)
  OBVIOUS
<1>10. /\ v \in SessionType /\ v.cpc = r.cpc /\ v.k = r.k /\ v.succ = r.succ
       /\ v.down = r.down /\ v.up = r.up /\ v.cm = r.cm /\ v.sh = r.sh
       /\ v.done = r.done /\ v.out = Append(r.out, a)
  <2>1. r \in SessionType
    BY <1>6
  <2>2. Spoken(v, r, Append(r.out, a))
    BY <1>9, <2>1, SayFields
  <2> QED
    BY <2>2 DEF Spoken
<1>11. PICK t : t = [v EXCEPT !.wst = "GET_DES_KEY"]
  OBVIOUS
<1>12. /\ t \in SessionType /\ t.cpc = v.cpc /\ t.k = v.k /\ t.succ = v.succ
       /\ t.down = v.down /\ t.up = v.up /\ t.cm = v.cm /\ t.sh = v.sh
       /\ t.done = v.done /\ t.out = v.out /\ t.wst = "GET_DES_KEY"
  BY <1>10, <1>11 DEF SessionType
<1>13. /\ t.cpc = s.cpc /\ t.k = s.k /\ t.succ = s.succ /\ t.down = s.down
       /\ t.up = <<>> /\ t.cm = s.cm /\ t.sh = s.sh /\ t.done = s.done
       /\ t.out = Append(s.out, a)
  BY <1>6, <1>7, <1>10, <1>12
<1>14. /\ SaidInv(t) /\ t.succ \subseteq t.done
       /\ \A b : t.cpc # "gone" /\ Says(t, b) => b = a
  <2>1. Silent(s) /\ s.cpc \notin {"off", "ready"}
    BY <1>3 DEF Greeting, Here
  <2> QED
    BY <1>2, <1>8, <1>12, <1>13, <2>1, SaidOne DEF Ends
<1>15. Keyed(t)
  BY <1>3, <1>8, <1>12, <1>13, <1>14 DEF Keyed, Greeting, Here, Only
<1>16. SessionInv(t)
  BY <1>3, <1>12, <1>13, <1>14, <1>15 DEF SessionInv, StageInv
<1>17. Put(c, t)
  BY <1>4, <1>8, <1>9, <1>11 DEF ProcessSSLAuth
<1> QED
  BY <1>16, <1>17, PutKeeps

(* Get3DESkey. *)
LEMMA Get3DESkeyKeeps ==
  ASSUME SessionsInv, NEW c \in Clients, Get3DESkey(c)
  PROVE  SessionsInv'
<1>1. PICK s : s = ses[c]
  OBVIOUS
<1>2. /\ SessionInv(s) /\ s \in SessionType /\ s.wst = "GET_DES_KEY" /\ s.up # <<>>
  BY <1>1 DEF SessionsInv, SessionInv, Get3DESkey, Takes
<1>3. s.cpc # "off" /\ Keyed(s)
  BY <1>2 DEF SessionInv, StageInv, Off, Ended, Greeting, Serving
<1>4. PICK r : r = Rest(c)
  OBVIOUS
<1>5. r = [s EXCEPT !.up = Tail(@)]
  BY <1>1, <1>4 DEF Rest
<1>6. /\ r \in SessionType /\ r.cpc = s.cpc /\ r.k = s.k /\ r.succ = s.succ
      /\ r.out = s.out /\ r.down = s.down /\ r.cm = s.cm
      /\ r.sh = s.sh /\ r.done = s.done /\ r.up = Tail(s.up)
  BY <1>2, <1>5, RestFields DEF RestOf
<1>7. PICK t : t = [r EXCEPT !.wst = "DO_COMMAND"]
  OBVIOUS
<1>8. /\ t \in SessionType /\ t.cpc = r.cpc /\ t.k = r.k /\ t.succ = r.succ
      /\ t.out = r.out /\ t.down = r.down /\ t.cm = r.cm
      /\ t.sh = r.sh /\ t.done = r.done /\ t.up = r.up /\ t.wst = "DO_COMMAND"
  BY <1>6, <1>7 DEF SessionType
<1>9. Between(t, t.up)
  <2>1. Between(s, t.up)
    BY <1>2, <1>3, <1>6, <1>8 DEF Keyed
  <2>2. \A q : Request(s, q) => Request(t, q)
    BY <1>6, <1>8 DEF Request, Silent, Here, Parts
  <2>3. Says(t, "ACK") => Says(s, "ACK")
    BY <1>6, <1>8 DEF Says
  <2> QED
    BY <1>6, <1>8, <2>1, <2>2, <2>3 DEF Between
<1>10. Idle(t)
  BY <1>3, <1>6, <1>8, <1>9 DEF Idle, Keyed
<1>11. StageInv(t)
  BY <1>3, <1>6, <1>8, <1>10 DEF StageInv, Serving
<1>12. SessionInv(t)
  BY <1>2, <1>6, <1>8, <1>11, UnsaidKeeps
<1>13. Put(c, t)
  BY <1>4, <1>7 DEF Get3DESkey
<1> QED
  BY <1>12, <1>13, PutKeeps

(* A step of the waiter that releases it. *)
LEMMA ReleaseKeeps ==
  ASSUME SessionsInv, NEW c \in Clients, ses[c].wst # "none", NEW x \in SessionType,
         x.cpc = ses[c].cpc, x.k = ses[c].k, x.down = ses[c].down,
         x.succ = ses[c].succ, ses[c].done \subseteq x.done, Release(c, x)
  PROVE  SessionsInv'
<1>1. PICK s : s = ses[c]
  OBVIOUS
<1>2. PICK t \in Released(x) : Put(c, t)
  BY DEF Release
<1>3. SessionInv(t)
  BY <1>1, ReleasedKeeps DEF SessionsInv
<1> QED
  BY <1>2, <1>3, PutKeeps

(* A package of a command is taken: the session, what is left of it, and   *)
(* the package.                                                            *)
LEMMA TakesFacts ==
  ASSUME SessionsInv, NEW c \in Clients, NEW kinds, Takes(c, "DO_COMMAND", kinds),
         NEW s, s = ses[c], NEW r, r = Rest(c), NEW p, p = Package(c)
  PROVE  /\ SessionInv(s) /\ s \in SessionType /\ s.wst = "DO_COMMAND"
         /\ s.cpc # "off" /\ Serving(s) /\ s.up # <<>>
         /\ p \in PkgType /\ p = s.up[1] /\ p.t \in kinds /\ 1 \in DOMAIN s.up
         /\ r \in SessionType /\ r.cpc = s.cpc /\ r.k = s.k /\ r.succ = s.succ
         /\ r.out = s.out /\ r.down = s.down /\ r.wst = s.wst /\ r.cm = s.cm
         /\ r.sh = s.sh /\ r.done = s.done
         /\ r.up \in Seq(PkgType)
         /\ Len(r.up) = Len(s.up) - 1 /\ Len(s.up) \in Nat \ {0}
         /\ \A j \in DOMAIN r.up : r.up[j] = s.up[j + 1] /\ j + 1 \in DOMAIN s.up
         /\ \A j \in DOMAIN r.up : j \in Nat \ {0}
<1>1. SessionInv(s) /\ s \in SessionType /\ s.wst = "DO_COMMAND" /\ s.up # <<>>
  BY DEF SessionsInv, SessionInv, Takes
<1>2. s.cpc # "off" /\ Serving(s)
  BY <1>1 DEF SessionInv, StageInv, Off, Ended, Greeting, Keyed
<1>3. r = [s EXCEPT !.up = Tail(@)]
  BY DEF Rest
<1>4. p = Head(s.up) /\ p.t \in kinds
  BY DEF Package, Takes
<1>5. RestOf(r, s)
  BY <1>1, <1>3, RestFields
<1>6. \A j \in DOMAIN r.up : j \in Nat \ {0}
  BY <1>5 DEF RestOf
<1> QED
  BY <1>1, <1>2, <1>4, <1>5, <1>6 DEF RestOf

(* Without a commander, or with another one. *)
LEMMA CommanderFields ==
  ASSUME NEW r \in SessionType, NEW m \in CommanderType, NEW v, v = [r EXCEPT !.cm = m]
  PROVE  /\ v \in SessionType /\ v.cpc = r.cpc /\ v.k = r.k /\ v.succ = r.succ
         /\ v.out = r.out /\ v.down = r.down /\ v.wst = r.wst /\ v.cm = m
         /\ v.sh = r.sh /\ v.done = r.done /\ v.up = r.up
BY DEF SessionType

LEMMA NoCommander == None \in CommanderType /\ None.t = "none"
BY DEF CommanderType, None

(* What is left of the pieces of a file. *)
LEMMA PartsRest ==
  ASSUME NEW s \in SessionType, NEW q, NEW n \in {1, 2}, Parts(s, s.up, n),
         \A j \in DOMAIN q : q[j] = s.up[j + 1] /\ j + 1 \in DOMAIN s.up,
         \A j \in DOMAIN q : j \in Nat \ {0},
         NEW t, t.k = s.k
  PROVE  Parts(t, q, 1)
<1> SUFFICES ASSUME NEW j \in DOMAIN q
             PROVE  q[j].t = "part" /\ q[j].k = s.k
  BY DEF Parts
<1>1. n <= j + 1
  OBVIOUS
<1> QED
  BY <1>1 DEF Parts

(* Pieces that nobody waits for end the session. *)
LEMMA PartsDoomed ==
  ASSUME NEW t \in SessionType, Parts(t, t.up, 1), t.cpc \in {"echo", "gone"}
  PROVE  Between(t, t.up)
<1>1. CASE t.up = <<>>
  BY <1>1 DEF Between
<1>2. CASE t.up # <<>>
  <2>1. 1 \in DOMAIN t.up
    BY <1>2, TailFacts, SessionFields
  <2>2. t.up[1].t = "part"
    BY <2>1 DEF Parts
  <2> QED
    BY <1>2, <2>2 DEF Between, Doomed
<1> QED
  BY <1>1, <1>2

(* t is the session v, but for what is said and done. *)
Told(t, v, k, out) ==
  /\ t \in SessionType /\ t.cpc = v.cpc /\ t.k = v.k /\ t.succ = v.succ
  /\ t.down = v.down /\ t.wst = v.wst /\ t.up = v.up /\ t.cm = v.cm
  /\ t.sh = v.sh /\ t.done = v.done \cup {k} /\ t.out = out

(* The end of a command that was done is said, ... *)
LEMMA EndFields ==
  ASSUME NEW v \in SessionType, NEW k \in Nat, NEW t, t = Say(Did(v, k), "SUCC")
  PROVE  Told(t, v, k, Append(v.out, "SUCC"))
<1>1. PICK a \in Answers : a = "SUCC"
  BY DEF Answers, Ends
<1>2. PICK o \in Seq(Answers) : o = v.out
  BY SessionFields
<1>3. Append(o, a) \in Seq(Answers)
  OBVIOUS
<1>4. PICK e \in Seq(Answers) : e = Append(o, a)
  BY <1>3
<1>5. PICK n \in SUBSET Nat : n = v.done \cup {k}
  BY SessionFields
<1>6. t = [v EXCEPT !.done = n, !.out = e]
  BY <1>1, <1>2, <1>4, <1>5 DEF Say, Did, SessionType
<1>7. /\ t \in SessionType /\ t.cpc = v.cpc /\ t.k = v.k /\ t.succ = v.succ
      /\ t.down = v.down /\ t.wst = v.wst /\ t.up = v.up /\ t.cm = v.cm
      /\ t.sh = v.sh /\ t.done = n /\ t.out = e
  BY <1>6 DEF SessionType
<1> QED
  BY <1>1, <1>2, <1>4, <1>5, <1>7 DEF Told

(* ... perhaps with something before it. *)
LEMMA ReportFields ==
  ASSUME NEW v \in SessionType, NEW k \in Nat,
         NEW t, t = Say(Say(Did(v, k), "DATA"), "SUCC")
  PROVE  Told(t, v, k, Append(Append(v.out, "DATA"), "SUCC"))
<1>1. PICK a \in Answers, b \in Answers : a = "SUCC" /\ b = "DATA"
  BY DEF Answers, Ends
<1>2. PICK o \in Seq(Answers) : o = v.out
  BY SessionFields
<1>3. Append(Append(o, b), a) \in Seq(Answers)
  OBVIOUS
<1>4. PICK e \in Seq(Answers) : e = Append(Append(o, b), a)
  BY <1>3
<1>5. PICK n \in SUBSET Nat : n = v.done \cup {k}
  BY SessionFields
<1>6. t = [v EXCEPT !.done = n, !.out = e]
  BY <1>1, <1>2, <1>4, <1>5 DEF Say, Did, SessionType
<1>7. /\ t \in SessionType /\ t.cpc = v.cpc /\ t.k = v.k /\ t.succ = v.succ
      /\ t.down = v.down /\ t.wst = v.wst /\ t.up = v.up /\ t.cm = v.cm
      /\ t.sh = v.sh /\ t.done = n /\ t.out = e
  BY <1>6 DEF SessionType
<1> QED
  BY <1>1, <1>2, <1>4, <1>5, <1>7 DEF Told

LEMMA LastOfTwo ==
  ASSUME NEW x \in Answers, NEW y \in Answers, NEW o \in Seq(Answers), Len(o) = 0
  PROVE  Append(o, x) = <<x>> /\ Append(Append(o, x), y) = <<x, y>>
<1>1. \A q \in Seq(Answers), z \in Answers :
        Append(q, z) \in Seq(Answers) /\ Len(Append(q, z)) = Len(q) + 1
        /\ Append(q, z)[Len(q) + 1] = z
        /\ \A j \in 1 .. Len(q) : Append(q, z)[j] = q[j]
  BY AppendProperties
<1>2. PICK u \in Seq(Answers) : u = Append(o, x)
  BY <1>1
<1>3. Len(u) = 1 /\ u[1] = x
  BY <1>1, <1>2
<1>4. u = <<x>>
  BY <1>3
<1>5. PICK v \in Seq(Answers) : v = Append(u, y)
  BY <1>1
<1>6. Len(v) = 2 /\ v[2] = y /\ v[1] = x
  <2>1. /\ Len(v) = Len(u) + 1 /\ v[Len(u) + 1] = y
        /\ \A j \in 1 .. Len(u) : v[j] = u[j]
    BY <1>1, <1>5
  <2>2. PICK n \in Nat : n = Len(u) /\ n = 1
    BY <1>3
  <2>3. v[1] = u[1]
    BY <2>1, <2>2
  <2>4. v[n + 1] = y /\ Len(v) = n + 1
    BY <2>1, <2>2
  <2> QED
    BY <1>3, <2>2, <2>3, <2>4
<1>7. v = <<x, y>>
  BY <1>6
<1> QED
  BY <1>2, <1>4, <1>5, <1>7

(* A command has ended: what comes next is another one. *)
LEMMA EndsIdle ==
  ASSUME NEW s, SessionInv(s), s.wst = "DO_COMMAND", Silent(s),
         s.cpc \in {"echo", "shell", "conf", "args", "gone"},
         NEW t \in SessionType, t.cpc = s.cpc, t.k = s.k, t.succ = s.succ,
         t.down = s.down, t.wst = s.wst, s.done \subseteq t.done,
         t.cm = None, t.sh.st \in {"none", "stop"}, t.done = s.done \cup {s.k},
         \/ t.out = Append(s.out, "SUCC")
         \/ t.out = Append(Append(s.out, "DATA"), "SUCC"),
         \/ t.up = <<>>
         \/ Parts(t, t.up, 1) /\ s.cpc \in {"echo", "gone"}
  PROVE  SessionInv(t)
<1>1. s.succ \subseteq s.done /\ SaidInv(s)
  BY DEF SessionInv
<1>2. ASSUME s.cpc # "gone"
      PROVE  t.down = <<>> /\ (t.out = <<"SUCC">> \/ t.out = <<"DATA", "SUCC">>)
  <2>1. s.down = <<>> /\ s.out = <<>>
    BY <1>2 DEF Silent
  <2>2. s.out \in Seq(Answers)
    BY SessionFields DEF SessionInv
  <2>3. PICK a \in Answers, b \in Answers : a = "SUCC" /\ b = "DATA"
    BY DEF Answers, Ends
  <2>4. \A x, y \in Answers, o \in Seq(Answers) : Len(o) = 0 =>
          Append(o, x) = <<x>> /\ Append(Append(o, x), y) = <<x, y>>
    BY LastOfTwo
  <2>5. Append(s.out, a) = <<a>> /\ Append(Append(s.out, b), a) = <<b, a>>
    <3>1. Len(s.out) = 0
      BY <2>1
    <3> QED
      BY <2>2, <2>3, <2>4, <3>1
  <2>6. t.out = Append(s.out, a) \/ t.out = Append(Append(s.out, b), a)
    BY <2>3
  <2>7. t.out = <<a>> \/ t.out = <<b, a>>
    BY <2>5, <2>6
  <2> QED
    BY <2>1, <2>3, <2>7
<1>3. t.cpc # "gone" => ~Says(t, "ACK")
  BY <1>2 DEF Says
<1>4. ASSUME s.cpc # "gone"
      PROVE  \A j \in DOMAIN t.out : t.out[j] # "DATA" => j = Len(t.out)
  BY <1>2, <1>4
<1>5. t.cpc = "gone" => t.down = <<>>
  BY <1>1 DEF SaidInv
<1>6. SaidInv(t)
  BY <1>2, <1>4, <1>5 DEF SaidInv
<1>7. Between(t, t.up)
  <2>1. CASE t.up = <<>>
    BY <1>3, <2>1 DEF Between
  <2>2. CASE Parts(t, t.up, 1) /\ s.cpc \in {"echo", "gone"}
    BY <2>2, PartsDoomed
  <2> QED
    BY <2>1, <2>2
<1>8. StageInv(t)
  BY <1>7 DEF StageInv, Serving, Idle
<1> QED
  BY <1>1, <1>6, <1>8 DEF SessionInv

LEMMA FileFacts ==
  /\ \A p \in PkgType : Receiver(p) \in FileType /\ Receiver(p).left = p.len - 1
  /\ \A f \in FileType, p \in PkgType :
       Received(f, p) \in FileType /\ Received(f, p).left = f.left - 1
<1>1. ASSUME NEW p \in PkgType
      PROVE  Receiver(p) \in FileType /\ Receiver(p).left = p.len - 1
  <2>1. p.len - 1 \in Int /\ p.good \in BOOLEAN
    BY PkgFields
  <2> QED
    BY <2>1 DEF Receiver, FileType
<1>2. ASSUME NEW f \in FileType, NEW p \in PkgType
      PROVE  Received(f, p) \in FileType /\ Received(f, p).left = f.left - 1
  <2>1. f.left - 1 \in Int /\ (f.good /\ p.t = "part") \in BOOLEAN
    BY DEF FileType
  <2> QED
    BY <2>1 DEF Received, FileType
<1> QED
  BY <1>1, <1>2

(* EndSession, and a package to a shell that still runs. *)
LEMMA EndSessionKeeps ==
  ASSUME SessionsInv, NEW c \in Clients, EndSession(c)
  PROVE  SessionsInv'
<1>1. PICK s, r, p : s = ses[c] /\ r = Rest(c) /\ p = Package(c)
  OBVIOUS
<1>2. Takes(c, "DO_COMMAND", {"bye", "part"}) /\ Release(c, r)
  BY <1>1 DEF EndSession, NewCommand
<1>3. /\ s.wst = "DO_COMMAND" /\ r \in SessionType /\ r.cpc = s.cpc /\ r.k = s.k
      /\ r.succ = s.succ /\ r.down = s.down /\ r.done = s.done
  BY <1>1, <1>2, TakesFacts
<1> QED
  BY <1>1, <1>2, <1>3, ReleaseKeeps

(* CSaveFileCmd::run, for a file f of which p is a piece. *)
LEMMA SaveGoes ==
  ASSUME SessionsInv, NEW c \in Clients, NEW s \in SessionType, s = ses[c],
         s.wst = "DO_COMMAND", s.cpc \in {"echo", "gone"}, Silent(s),
         s.sh.st \in {"none", "stop"},
         NEW p \in PkgType, p.k = s.k, NEW f \in FileType,
         NEW v \in SessionType, v.cpc = s.cpc, v.k = s.k, v.succ = s.succ,
         v.out = s.out, v.down = s.down, v.wst = s.wst, v.cm = None,
         v.sh = s.sh, v.done = s.done, Parts(v, v.up, 1),
         \/ f.left > 0 /\ Put(c, [v EXCEPT !.cm = [t |-> "save", k |-> p.k, f |-> f]])
         \/ /\ f.left = 0 /\ CheckDigest(f)
            /\ Put(c, Say(IF f.good THEN Did(v, p.k) ELSE v, "SUCC"))
         \/ Release(c, v)
  PROVE  SessionsInv'
<1>1. SessionInv(s) /\ s.cpc \notin {"off", "ready"}
  BY DEF SessionsInv
<1>2. CASE Put(c, [v EXCEPT !.cm = [t |-> "save", k |-> p.k, f |-> f]])
  <2>1. PICK m : m = [t |-> "save", k |-> p.k, f |-> f]
    OBVIOUS
  <2>2. m \in CommanderType /\ m.t = "save" /\ m.k = p.k
    <3>1. \A i \in Nat, g \in FileType :
            [t |-> "save", k |-> i, f |-> g] \in [t: {"save"}, k: Nat, f: FileType]
      OBVIOUS
    <3>2. p.k \in Nat
      BY PkgFields
    <3>3. PICK i \in Nat : i = p.k
      BY <3>2
    <3>4. m = [t |-> "save", k |-> i, f |-> f]
      BY <2>1, <3>3
    <3>5. m \in [t: {"save"}, k: Nat, f: FileType] /\ m.t = "save" /\ m.k = i
      BY <3>1, <3>4
    <3> QED
      BY <3>3, <3>5 DEF CommanderType
  <2>3. PICK t : t = [v EXCEPT !.cm = m]
    OBVIOUS
  <2>4. /\ t \in SessionType /\ t.cpc = v.cpc /\ t.k = v.k /\ t.succ = v.succ
        /\ t.out = v.out /\ t.down = v.down /\ t.wst = v.wst /\ t.cm = m
        /\ t.sh = v.sh /\ t.done = v.done /\ t.up = v.up
    BY <2>2, <2>3, CommanderFields
  <2>5. Saving(t)
    BY <2>2, <2>4 DEF Saving, Here, Silent, Parts
  <2>6. StageInv(t)
    BY <1>1, <2>4, <2>5 DEF StageInv, Serving
  <2>7. SessionInv(t)
    BY <1>1, <2>4, <2>6, UnsaidKeeps
  <2> QED
    BY <1>2, <2>1, <2>3, <2>7, PutKeeps
<1>3. CASE CheckDigest(f) /\ Put(c, Say(IF f.good THEN Did(v, p.k) ELSE v, "SUCC"))
  <2>1. p.k \in Nat /\ p.k = s.k
    BY PkgFields
  <2>2. PICK t : t = Say(Did(v, p.k), "SUCC")
    OBVIOUS
  <2>3. Told(t, v, p.k, Append(v.out, "SUCC"))
    BY <2>1, <2>2, EndFields
  <2>4. /\ t.cpc = s.cpc /\ t.k = s.k /\ t.succ = s.succ /\ t.down = s.down
        /\ t.wst = s.wst /\ t.cm = None /\ t.sh = s.sh
        /\ t.done = s.done \cup {s.k}
        /\ Parts(t, t.up, 1) /\ t.sh.st \in {"none", "stop"}
    BY <2>1, <2>3 DEF Parts, Told
  <2>5. t.out = Append(s.out, "SUCC") /\ t \in SessionType
    BY <2>3 DEF Told
  <2>6. SessionInv(t)
    BY <1>1, <2>4, <2>5, EndsIdle
  <2>7. Put(c, t)
    BY <1>3, <2>2 DEF CheckDigest
  <2> QED
    BY <2>6, <2>7, PutKeeps
<1>4. CASE Release(c, v)
  BY <1>1, <1>4, ReleaseKeeps
<1> QED
  BY <1>2, <1>3, <1>4

(* What has come of the request of a new command. *)
LEMMA RequestFacts ==
  ASSUME NEW s, SessionInv(s), s.wst = "DO_COMMAND", s.up # <<>>, Commander(s) = None,
         s.up[1].t \notin {"bye", "part"}
  PROVE  /\ Request(s, s.up) /\ Silent(s) /\ s.up[1].k = s.k
         /\ s.sh.st \in {"none", "stop"} /\ s.cpc \notin {"off", "ready"}
BY NewCommandFacts DEF Doomed, Request, Here

LEMMA SaveFileKeeps ==
  ASSUME SessionsInv, NEW c \in Clients, SaveFile(c)
  PROVE  SessionsInv'
<1>1. PICK s, r, p : s = ses[c] /\ r = Rest(c) /\ p = Package(c)
  OBVIOUS
<1>2. PICK v : v = [r EXCEPT !.cm = None]
  OBVIOUS
<1>3. \/ /\ NewCommand(c, {"save"})
         /\ \/ /\ Receiver(p).left > 0
               /\ Put(c, [v EXCEPT !.cm = [t |-> "save", k |-> p.k, f |-> Receiver(p)]])
            \/ /\ Receiver(p).left = 0 /\ CheckDigest(Receiver(p))
               /\ Put(c, Say(IF Receiver(p).good THEN Did(v, p.k) ELSE v, "SUCC"))
            \/ Release(c, v)
      \/ /\ Takes(c, "DO_COMMAND", {"part", "bye"}) /\ s.cm.t = "save"
         /\ \/ /\ Received(s.cm.f, p).left > 0
               /\ Put(c, [v EXCEPT !.cm = [t |-> "save", k |-> p.k, f |-> Received(s.cm.f, p)]])
            \/ /\ Received(s.cm.f, p).left = 0 /\ CheckDigest(Received(s.cm.f, p))
               /\ Put(c, Say(IF Received(s.cm.f, p).good THEN Did(v, p.k) ELSE v, "SUCC"))
            \/ Release(c, v)
  BY <1>1, <1>2 DEF SaveFile
<1>4. ASSUME NEW kinds, Takes(c, "DO_COMMAND", kinds), NEW f \in FileType,
             s.cpc \in {"echo", "gone"}, Silent(s), s.sh.st \in {"none", "stop"},
             p.k = s.k, NEW n \in {1, 2}, Parts(s, s.up, n),
             \/ f.left > 0 /\ Put(c, [v EXCEPT !.cm = [t |-> "save", k |-> p.k, f |-> f]])
             \/ /\ f.left = 0 /\ CheckDigest(f)
                /\ Put(c, Say(IF f.good THEN Did(v, p.k) ELSE v, "SUCC"))
             \/ Release(c, v)
      PROVE  SessionsInv'
  <2>1. /\ s \in SessionType /\ s.wst = "DO_COMMAND" /\ p \in PkgType
        /\ r \in SessionType /\ r.cpc = s.cpc /\ r.k = s.k /\ r.succ = s.succ
        /\ r.out = s.out /\ r.down = s.down /\ r.wst = s.wst
        /\ r.sh = s.sh /\ r.done = s.done /\ r.up \in Seq(PkgType)
        /\ \A j \in DOMAIN r.up : r.up[j] = s.up[j + 1] /\ j + 1 \in DOMAIN s.up
        /\ \A j \in DOMAIN r.up : j \in Nat \ {0}
    BY <1>1, <1>4, TakesFacts
  <2>2. /\ v \in SessionType /\ v.cpc = r.cpc /\ v.k = r.k /\ v.succ = r.succ
        /\ v.out = r.out /\ v.down = r.down /\ v.wst = r.wst /\ v.cm = None
        /\ v.sh = r.sh /\ v.done = r.done /\ v.up = r.up
    BY <1>2, <2>1, NoCommander, CommanderFields
  <2>3. Parts(v, v.up, 1)
    <3>1. v.k = s.k
      BY <2>1, <2>2
    <3>2. Parts(v, r.up, 1)
      BY <1>4, <2>1, <3>1, PartsRest
    <3> QED
      BY <2>2, <3>2
  <2>4. /\ v.cpc = s.cpc /\ v.k = s.k /\ v.succ = s.succ /\ v.out = s.out
        /\ v.down = s.down /\ v.wst = s.wst /\ v.sh = s.sh /\ v.done = s.done
    BY <2>1, <2>2
  <2> QED
    BY <1>1, <1>4, <2>1, <2>2, <2>3, <2>4, SaveGoes
<1>5. CASE NewCommand(c, {"save"})
  <2>1. Takes(c, "DO_COMMAND", {"save"}) /\ Commander(s) = None
    BY <1>1, <1>5 DEF NewCommand
  <2>2. /\ SessionInv(s) /\ s.wst = "DO_COMMAND" /\ s.up # <<>> /\ p = s.up[1]
        /\ p \in PkgType /\ p.t = "save"
    BY <1>1, <2>1, TakesFacts
  <2>3. /\ Request(s, s.up) /\ Silent(s) /\ p.k = s.k
        /\ s.sh.st \in {"none", "stop"}
    BY <2>1, <2>2, RequestFacts
  <2>4. s.cpc \in {"echo", "gone"} /\ Parts(s, s.up, 2)
    BY <2>2, <2>3 DEF Request, Here
  <2>5. PICK f \in FileType : f = Receiver(p)
    BY <2>2, FileFacts
  <2>6. \/ f.left > 0 /\ Put(c, [v EXCEPT !.cm = [t |-> "save", k |-> p.k, f |-> f]])
        \/ /\ f.left = 0 /\ CheckDigest(f)
           /\ Put(c, Say(IF f.good THEN Did(v, p.k) ELSE v, "SUCC"))
        \/ Release(c, v)
    <3>1. p.t \notin {"part", "bye"}
      BY <2>2
    <3>2. ~Takes(c, "DO_COMMAND", {"part", "bye"})
      BY <1>1, <3>1 DEF Takes, Package
    <3> QED
      BY <1>3, <2>5, <3>2
  <2> QED
    BY <1>4, <2>1, <2>3, <2>4, <2>5, <2>6
<1>6. CASE ~NewCommand(c, {"save"})
  <2>1. Takes(c, "DO_COMMAND", {"part", "bye"}) /\ s.cm.t = "save"
    BY <1>3, <1>6
  <2>2. /\ SessionInv(s) /\ Serving(s) /\ s \in SessionType /\ p = s.up[1]
        /\ p \in PkgType /\ 1 \in DOMAIN s.up
    BY <1>1, <2>1, TakesFacts
  <2>3. Saving(s)
    BY <2>1, <2>2, NoCommander DEF Serving, Idle, Shelling, Loading
  <2>4. /\ s.cpc \in {"echo", "gone"} /\ Silent(s) /\ Parts(s, s.up, 1)
        /\ s.sh.st \in {"none", "stop"} /\ p.k = s.k
    BY <2>2, <2>3 DEF Saving, Here, Parts
  <2>5. PICK f \in FileType : f = Received(s.cm.f, p)
    BY <2>1, <2>2, SaveFields, FileFacts
  <2>6. \/ f.left > 0 /\ Put(c, [v EXCEPT !.cm = [t |-> "save", k |-> p.k, f |-> f]])
        \/ /\ f.left = 0 /\ CheckDigest(f)
           /\ Put(c, Say(IF f.good THEN Did(v, p.k) ELSE v, "SUCC"))
        \/ Release(c, v)
    BY <1>3, <1>6, <2>5
  <2> QED
    BY <1>4, <2>1, <2>4, <2>5, <2>6
<1> QED
  BY <1>5, <1>6

-----------------------------------------------------------------------------
(***************************************************************************)
(* Directories and requests to strategies                                  *)
(***************************************************************************)

(* v is the session s without a commander, and with fewer packages. *)
Freed(v, s) ==
  /\ v \in SessionType /\ v.cpc = s.cpc /\ v.k = s.k /\ v.succ = s.succ
  /\ v.out = s.out /\ v.down = s.down /\ v.wst = s.wst /\ v.cm = None
  /\ v.sh = s.sh /\ v.done = s.done

LEMMA FreedFacts ==
  ASSUME SessionsInv, NEW c \in Clients, NEW kinds, Takes(c, "DO_COMMAND", kinds),
         NEW s, s = ses[c], NEW r, r = Rest(c), NEW v, v = [r EXCEPT !.cm = None]
  PROVE  Freed(v, s) /\ v.up = r.up
<1>1. PICK p : p = Package(c)
  OBVIOUS
<1>2. /\ r \in SessionType /\ r.cpc = s.cpc /\ r.k = s.k /\ r.succ = s.succ
      /\ r.out = s.out /\ r.down = s.down /\ r.wst = s.wst
      /\ r.sh = s.sh /\ r.done = s.done
  BY <1>1, TakesFacts
<1>3. /\ v \in SessionType /\ v.cpc = r.cpc /\ v.k = r.k /\ v.succ = r.succ
      /\ v.out = r.out /\ v.down = r.down /\ v.wst = r.wst /\ v.cm = None
      /\ v.sh = r.sh /\ v.done = r.done /\ v.up = r.up
  BY <1>2, NoCommander, CommanderFields
<1> QED
  BY <1>2, <1>3 DEF Freed

(* The command is done, which is said. *)
LEMMA SuccKeeps ==
  ASSUME SessionsInv, NEW c \in Clients, NEW s \in SessionType, s = ses[c],
         s.wst = "DO_COMMAND", Silent(s), s.sh.st \in {"none", "stop"},
         s.cpc \in {"echo", "shell", "conf", "args", "gone"},
         NEW v, Freed(v, s),
         \/ v.up = <<>>
         \/ Parts(v, v.up, 1) /\ s.cpc \in {"echo", "gone"},
         NEW k, k = s.k,
         \/ Put(c, Say(Did(v, k), "SUCC"))
         \/ Put(c, Say(Say(Did(v, k), "DATA"), "SUCC"))
  PROVE  SessionsInv'
<1>1. SessionInv(s) /\ k \in Nat /\ v \in SessionType
  BY SessionFields DEF SessionsInv, Freed
<1>2. PICK t, o :
        /\ Put(c, t) /\ Told(t, v, k, o)
        /\ o = Append(v.out, "SUCC") \/ o = Append(Append(v.out, "DATA"), "SUCC")
  BY <1>1, EndFields, ReportFields
<1>3. /\ t \in SessionType /\ t.cpc = s.cpc /\ t.k = s.k /\ t.succ = s.succ
      /\ t.down = s.down /\ t.wst = s.wst /\ t.cm = None /\ t.sh = s.sh
      /\ t.done = s.done \cup {s.k} /\ t.up = v.up
  BY <1>2 DEF Told, Freed
<1>4. \/ t.out = Append(s.out, "SUCC")
      \/ t.out = Append(Append(s.out, "DATA"), "SUCC")
  BY <1>2 DEF Told, Freed
<1>5. t.up = <<>> \/ (Parts(t, t.up, 1) /\ s.cpc \in {"echo", "gone"})
  BY <1>3 DEF Parts, Freed
<1>6. SessionInv(t)
  <2>1. t.sh.st \in {"none", "stop"} /\ s.done \subseteq t.done
    BY <1>3
  <2> QED
    BY <1>1, <1>3, <1>4, <1>5, <2>1, EndsIdle
<1> QED
  BY <1>2, <1>6, PutKeeps

(* A command of one package is the last one there is. *)
LEMMA OneFacts ==
  ASSUME SessionsInv, NEW c \in Clients, NEW t \in {"MKDIR", "STG", "SHELL"},
         NewCommand(c, {t}), NEW s, s = ses[c], NEW r, r = Rest(c),
         NEW p, p = Package(c)
  PROVE  /\ Takes(c, "DO_COMMAND", {t}) /\ r.up = <<>> /\ p.k = s.k
         /\ Silent(s) /\ s.sh.st \in {"none", "stop"} /\ p \in PkgType
         /\ s.cpc \in {IF t = "SHELL" THEN "shell" ELSE "echo", "gone"}
<1>1. Takes(c, "DO_COMMAND", {t}) /\ Commander(s) = None
  BY DEF NewCommand
<1>2. /\ SessionInv(s) /\ s.wst = "DO_COMMAND" /\ s.up # <<>> /\ p = s.up[1]
      /\ p \in PkgType /\ p.t = t /\ r.up \in Seq(PkgType)
      /\ Len(r.up) = Len(s.up) - 1 /\ Len(s.up) \in Nat \ {0}
  BY <1>1, TakesFacts
<1>3. Request(s, s.up) /\ Silent(s) /\ p.k = s.k /\ s.sh.st \in {"none", "stop"}
  BY <1>1, <1>2, RequestFacts
<1>4. Len(s.up) = 1 /\ s.cpc \in {IF t = "SHELL" THEN "shell" ELSE "echo", "gone"}
  BY <1>2, <1>3 DEF Request, Here
<1>5. r.up = <<>>
  <2>1. Len(r.up) = 0
    BY <1>2, <1>4
  <2> QED
    BY <1>2, <2>1
<1> QED
  BY <1>1, <1>2, <1>3, <1>4, <1>5

LEMMA MakeDirKeeps ==
  ASSUME SessionsInv, NEW c \in Clients, MakeDir(c)
  PROVE  SessionsInv'
<1>1. PICK s, r, p : s = ses[c] /\ r = Rest(c) /\ p = Package(c)
  OBVIOUS
<1>2. PICK v : v = [r EXCEPT !.cm = None]
  OBVIOUS
<1>3. /\ NewCommand(c, {"MKDIR"})
      /\ Put(c, Say(Did(v, p.k), "SUCC")) \/ Release(c, v)
  BY <1>1, <1>2 DEF MakeDir
<1>4. /\ Takes(c, "DO_COMMAND", {"MKDIR"}) /\ r.up = <<>> /\ p.k = s.k
      /\ Silent(s) /\ s.sh.st \in {"none", "stop"}
      /\ s.cpc \in {"echo", "gone"}
  BY <1>1, <1>3, OneFacts
<1>5. Freed(v, s) /\ v.up = r.up
  BY <1>1, <1>2, <1>4, FreedFacts
<1>6. s \in SessionType /\ s.wst = "DO_COMMAND"
  BY <1>1, <1>4, TakesFacts
<1>7. CASE Put(c, Say(Did(v, p.k), "SUCC"))
  BY <1>1, <1>4, <1>5, <1>6, <1>7, SuccKeeps
<1>8. CASE Release(c, v)
  BY <1>1, <1>5, <1>6, <1>8, ReleaseKeeps DEF Freed
<1> QED
  BY <1>3, <1>7, <1>8

LEMMA ManageKeeps ==
  ASSUME SessionsInv, NEW c \in Clients, Manage(c)
  PROVE  SessionsInv'
<1>1. PICK s, r, p : s = ses[c] /\ r = Rest(c) /\ p = Package(c)
  OBVIOUS
<1>2. PICK v : v = [r EXCEPT !.cm = None]
  OBVIOUS
<1>3. PICK u : u = [Did(r, p.k) EXCEPT !.cm = None]
  OBVIOUS
<1>4. /\ NewCommand(c, {"STG"})
      /\ Put(c, Say(Say(u, "DATA"), "SUCC")) \/ Put(c, Say(u, "SUCC"))
  BY <1>1, <1>3 DEF Manage
<1>5. /\ Takes(c, "DO_COMMAND", {"STG"}) /\ r.up = <<>> /\ p.k = s.k
      /\ Silent(s) /\ s.sh.st \in {"none", "stop"}
      /\ s.cpc \in {"echo", "gone"}
  BY <1>1, <1>4, OneFacts
<1>6. Freed(v, s) /\ v.up = r.up
  BY <1>1, <1>2, <1>5, FreedFacts
<1>7. s \in SessionType /\ s.wst = "DO_COMMAND" /\ r \in SessionType
  BY <1>1, <1>5, TakesFacts
<1>8. u = Did(v, p.k)
  BY <1>2, <1>3, <1>7 DEF Did, SessionType
<1> QED
  BY <1>1, <1>4, <1>5, <1>6, <1>7, <1>8, SuccKeeps

-----------------------------------------------------------------------------
(***************************************************************************)
(* Shell commands                                                          *)
(***************************************************************************)

LEMMA RunShellKeeps ==
  ASSUME SessionsInv, NEW c \in Clients, RunShell(c)
  PROVE  SessionsInv'
<1>1. PICK s, r, p : s = ses[c] /\ r = Rest(c) /\ p = Package(c)
  OBVIOUS
<1>2. PICK h : h = [st |-> "run", pipe |-> 0, printed |-> 0, code |-> "ok"]
  OBVIOUS
<1>3. PICK m : m = [t |-> "shell", k |-> p.k]
  OBVIOUS
<1>4. \/ NewCommand(c, {"SHELL"}) /\ Put(c, [r EXCEPT !.cm = m, !.sh = h])
      \/ NewCommand(c, {"SHELL"}) /\ Release(c, r)
      \/ Takes(c, "DO_COMMAND", {"bye"}) /\ Release(c, r)
  BY <1>1, <1>2, <1>3 DEF RunShell
<1>5. ASSUME NEW kinds, Takes(c, "DO_COMMAND", kinds), Release(c, r)
      PROVE  SessionsInv'
  <2>1. /\ s.wst = "DO_COMMAND" /\ r \in SessionType /\ r.cpc = s.cpc /\ r.k = s.k
        /\ r.succ = s.succ /\ r.down = s.down /\ r.done = s.done
    BY <1>1, <1>5, TakesFacts
  <2> QED
    BY <1>1, <1>5, <2>1, ReleaseKeeps
<1>6. CASE NewCommand(c, {"SHELL"}) /\ Put(c, [r EXCEPT !.cm = m, !.sh = h])
  <2>1. /\ Takes(c, "DO_COMMAND", {"SHELL"}) /\ r.up = <<>> /\ p.k = s.k
        /\ Silent(s) /\ p \in PkgType /\ s.cpc \in {"shell", "gone"}
    BY <1>1, <1>6, OneFacts
  <2>2. /\ s.wst = "DO_COMMAND" /\ r \in SessionType /\ r.cpc = s.cpc /\ r.k = s.k
        /\ r.succ = s.succ /\ r.out = s.out /\ r.down = s.down /\ r.wst = s.wst
        /\ r.done = s.done /\ SessionInv(s)
    BY <1>1, <2>1, TakesFacts
  <2>3. m \in CommanderType /\ m.t = "shell" /\ m.k = p.k
    <3>1. p.k \in Nat
      BY <2>1, PkgFields
    <3> QED
      BY <1>3, <3>1 DEF CommanderType
  <2>4. h \in ShellType /\ h.st = "run" /\ h.code = "ok"
    BY <1>2 DEF ShellType
  <2>5. PICK t : t = [r EXCEPT !.cm = m, !.sh = h]
    OBVIOUS
  <2>6. /\ t \in SessionType /\ t.cpc = r.cpc /\ t.k = r.k /\ t.succ = r.succ
        /\ t.out = r.out /\ t.down = r.down /\ t.wst = r.wst /\ t.cm = m
        /\ t.sh = h /\ t.done = r.done /\ t.up = r.up
    BY <2>2, <2>3, <2>4, <2>5 DEF SessionType
  <2>7. Only(t, {})
    <3>1. t.cpc # "gone" => t.down = <<>> /\ t.out = <<>>
      BY <2>1, <2>2, <2>6 DEF Silent
    <3> QED
      BY <3>1 DEF Only, Says
  <2>8. Shelling(t)
    BY <2>1, <2>2, <2>3, <2>4, <2>6, <2>7 DEF Shelling, Here
  <2>9. StageInv(t)
    BY <2>1, <2>2, <2>6, <2>8 DEF StageInv, Serving
  <2>10. SessionInv(t)
    <3>1. /\ t.cpc = s.cpc /\ t.k = s.k /\ t.down = s.down /\ t.out = s.out
          /\ t.succ = s.succ /\ s.done \subseteq t.done
      BY <2>2, <2>6
    <3> QED
      BY <2>2, <2>6, <2>9, <3>1, UnsaidKeeps
  <2> QED
    BY <1>6, <2>5, <2>10, PutKeeps
<1>7. NewCommand(c, {"SHELL"}) => Takes(c, "DO_COMMAND", {"SHELL"})
  BY DEF NewCommand
<1> QED
  BY <1>4, <1>5, <1>6, <1>7

(* The child runs, or has ended and is not waited for yet. *)
LEMMA ShellingFacts ==
  ASSUME NEW s, SessionInv(s), s.sh.st \in {"run", "exited"}
  PROVE  /\ s \in SessionType /\ s.wst = "DO_COMMAND" /\ s.cpc # "off" /\ Shelling(s)
<1>1. ~Off(s) /\ ~Ended(s) /\ ~Greeting(s) /\ ~Keyed(s)
  BY DEF Off, Ended, Greeting, Keyed
<1>2. ~Idle(s) /\ ~Saving(s) /\ ~Loading(s)
  BY DEF Idle, Saving, Loading
<1> QED
  BY <1>1, <1>2 DEF SessionInv, StageInv, Serving

LEMMA ShellRunsKeeps ==
  ASSUME ~Signals, SessionsInv, NEW c \in Clients,
         ShellPrints(c) \/ ShellEnds(c)
  PROVE  SessionsInv'
<1>1. PICK s : s = ses[c]
  OBVIOUS
<1>2. SessionInv(s) /\ s.sh.st = "run"
  <2>1. SessionInv(s)
    BY <1>1 DEF SessionsInv
  <2>2. ShellPrints(c) => s.sh.st = "run"
    BY <1>1 DEF ShellPrints
  <2>3. ShellEnds(c) => s.sh.st = "run"
    BY <1>1, Zenon DEF ShellEnds
  <2> QED
    BY <2>1, <2>2, <2>3
<1>3. s \in SessionType /\ s.wst = "DO_COMMAND" /\ s.cpc # "off" /\ Shelling(s)
  BY <1>2, ShellingFacts
<1>4. s.sh \in ShellType /\ s.out \in Seq(Answers)
  BY <1>3, SessionFields
<1>5. PICK h \in ShellType :
        /\ Put(c, [s EXCEPT !.sh = h])
        /\ h.st \in {"run", "exited"} /\ h.code # "killed"
  <2>1. CASE ShellPrints(c)
    <3>1. PICK m \in Nat, n \in Nat : m = s.sh.pipe + 1 /\ n = s.sh.printed + 1
      <4>1. s.sh.pipe \in Nat /\ s.sh.printed \in Nat
        BY <1>4 DEF ShellType
      <4>2. \A i \in Nat : i + 1 \in Nat
        OBVIOUS
      <4> QED
        BY <4>1, <4>2
    <3>2. PICK h : h = [s.sh EXCEPT !.pipe = m, !.printed = n]
      OBVIOUS
    <3>3. h \in ShellType /\ h.st = s.sh.st /\ h.code = s.sh.code
      BY <1>4, <3>1, <3>2 DEF ShellType
    <3>4. [s EXCEPT !.sh = h] = [s EXCEPT !.sh.pipe = @ + 1, !.sh.printed = @ + 1]
      BY <1>3, <1>4, <3>1, <3>2 DEF SessionType, ShellType
    <3> QED
      BY <1>1, <1>2, <1>3, <2>1, <3>3, <3>4 DEF ShellPrints, Shelling
  <2>2. CASE ShellEnds(c)
    <3>1. PICK code \in {"ok", "fail"} :
            Put(c, [s EXCEPT !.sh.st = "exited", !.sh.code = code])
      <4>1. PICK code \in {"ok", "fail"} \cup (IF Signals THEN {"killed"} ELSE {}) :
              Put(c, [ses[c] EXCEPT !.sh.st = "exited", !.sh.code = code])
        BY <2>2, Zenon DEF ShellEnds
      <4>2. code \in {"ok", "fail"}
        BY <4>1
      <4> QED
        BY <1>1, <4>1, <4>2
    <3>2. PICK h : h = [s.sh EXCEPT !.st = "exited", !.code = code]
      OBVIOUS
    <3>3. h \in ShellType /\ h.st = "exited" /\ h.code = code
      BY <1>4, <3>1, <3>2 DEF ShellType
    <3>4. [s EXCEPT !.sh = h] = [s EXCEPT !.sh.st = "exited", !.sh.code = code]
      BY <1>3, <1>4, <3>2 DEF SessionType, ShellType
    <3> QED
      BY <3>1, <3>3, <3>4
  <2> QED
    BY <2>1, <2>2
<1>6. PICK t : t = [s EXCEPT !.sh = h]
  OBVIOUS
<1>7. /\ t \in SessionType /\ t.cpc = s.cpc /\ t.k = s.k /\ t.succ = s.succ
      /\ t.out = s.out /\ t.down = s.down /\ t.wst = s.wst /\ t.cm = s.cm
      /\ t.sh = h /\ t.done = s.done /\ t.up = s.up
  BY <1>3, <1>5, <1>6 DEF SessionType
<1>8. Shelling(t)
  BY <1>3, <1>5, <1>7 DEF Shelling, Here, Only, Says
<1>9. StageInv(t)
  BY <1>3, <1>7, <1>8 DEF StageInv, Serving
<1>10. SessionInv(t)
  BY <1>2, <1>7, <1>9, UnsaidKeeps
<1> QED
  BY <1>5, <1>6, <1>10, PutKeeps

(* To a client that is there nothing but output was said. *)
LEMMA OutputOnly ==
  ASSUME NEW s \in SessionType, Only(s, {}), s.cpc # "gone"
  PROVE  /\ \A j \in DOMAIN s.down : s.down[j] = "DATA"
         /\ \A j \in DOMAIN s.out : s.out[j] = "DATA"
<1>1. s.out \in Seq(Answers) /\ s.down \in Seq(Answers)
  BY SessionFields
<1>2. \A q \in Seq(Answers) : \A j \in DOMAIN q : q[j] \in Answers
  OBVIOUS
<1>3. \A a \in Ends : ~Says(s, a)
  BY DEF Only
<1> QED
  BY <1>1, <1>2, <1>3 DEF Says, Answers

LEMMA OnReadKeeps ==
  ASSUME SessionsInv, NEW c \in Clients, OnRead(c)
  PROVE  SessionsInv'
<1>1. PICK s : s = ses[c]
  OBVIOUS
<1>2. /\ SessionInv(s) /\ s.sh.st \in {"run", "exited"}
      /\ Put(c, [s EXCEPT !.sh.pipe = 0, !.out = @ \o [i \in 1 .. s.sh.pipe |-> "DATA"]])
  <2>1. SessionInv(s)
    BY <1>1 DEF SessionsInv
  <2>2. s.sh.st \in {"run", "exited"}
    BY <1>1, Zenon DEF OnRead
  <2>3. Put(c, [s EXCEPT !.sh.pipe = 0, !.out = @ \o [i \in 1 .. s.sh.pipe |-> "DATA"]])
    BY <1>1, Zenon DEF OnRead
  <2> QED
    BY <2>1, <2>2, <2>3
<1>3. s \in SessionType /\ s.wst = "DO_COMMAND" /\ s.cpc # "off" /\ Shelling(s)
  BY <1>2, ShellingFacts
<1>4. s.sh \in ShellType /\ s.out \in Seq(Answers) /\ s.sh.pipe \in Nat
  BY <1>3, SessionFields DEF ShellType
<1>5. PICK z \in Nat : z = 0
  OBVIOUS
<1>6. PICK h : h = [s.sh EXCEPT !.pipe = z]
  OBVIOUS
<1>7. h \in ShellType /\ h.st = s.sh.st /\ h.code = s.sh.code
  BY <1>4, <1>6 DEF ShellType
<1>8. PICK a \in Answers : a = "DATA"
  BY DEF Answers
<1>9. PICK q \in Seq(Answers) : /\ q = [i \in 1 .. s.sh.pipe |-> "DATA"]
                                /\ \A j \in DOMAIN q : q[j] = "DATA"
  <2>1. [i \in 1 .. s.sh.pipe |-> a] \in Seq(Answers)
    BY <1>4
  <2> QED
    BY <1>8, <2>1
<1>10. PICK o \in Seq(Answers) : o = s.out \o q
  <2>1. PICK u \in Seq(Answers), w \in Seq(Answers) : u = s.out /\ w = q
    BY <1>4
  <2>2. u \o w \in Seq(Answers)
    OBVIOUS
  <2> QED
    BY <2>1, <2>2
<1>11. PICK t : t = [s EXCEPT !.sh = h, !.out = o]
  OBVIOUS
<1>12. Put(c, t)
  <2>1. t = [s EXCEPT !.sh.pipe = 0, !.out = @ \o q]
    BY <1>3, <1>5, <1>6, <1>10, <1>11 DEF SessionType
  <2> QED
    BY <1>2, <1>9, <2>1
<1>13. /\ t \in SessionType /\ t.cpc = s.cpc /\ t.k = s.k /\ t.succ = s.succ
       /\ t.out = o /\ t.down = s.down /\ t.wst = s.wst /\ t.cm = s.cm
       /\ t.sh = h /\ t.done = s.done /\ t.up = s.up
  BY <1>3, <1>7, <1>11 DEF SessionType
<1>14. ASSUME s.cpc # "gone"
       PROVE  /\ \A j \in DOMAIN t.down : t.down[j] = "DATA"
              /\ \A j \in DOMAIN t.out : t.out[j] = "DATA"
  <2>1. /\ \A j \in DOMAIN s.down : s.down[j] = "DATA"
        /\ \A j \in DOMAIN s.out : s.out[j] = "DATA"
    BY <1>3, <1>14, OutputOnly DEF Shelling
  <2>2. PICK u \in Seq(Answers) : u = s.out
    BY <1>4
  <2>3. /\ \A k \in DOMAIN u : (u \o q)[k] = u[k]
        /\ \A k \in DOMAIN (u \o q) \ DOMAIN u :
             k - Len(u) \in DOMAIN q /\ (u \o q)[k] = q[k - Len(u)]
    BY ConcatFacts
  <2>4. \A j \in DOMAIN (u \o q) : (u \o q)[j] = "DATA"
    BY <1>9, <2>1, <2>2, <2>3
  <2> QED
    BY <1>10, <1>13, <2>1, <2>2, <2>4
<1>15. \A b \in Ends : t.cpc # "gone" => ~Says(t, b)
  BY <1>13, <1>14 DEF Says, Ends
<1>16. SaidInv(t)
  <2>1. s.cpc \in {"shell", "gone"} /\ SaidInv(s)
    BY <1>2, <1>3 DEF Shelling, Here, SessionInv
  <2> QED
    BY <1>13, <1>14, <1>15, <2>1 DEF SaidInv, Ends
<1>17. Shelling(t)
  BY <1>3, <1>7, <1>13, <1>15 DEF Shelling, Here, Only
<1>18. SessionInv(t)
  <2>1. s.succ \subseteq s.done
    BY <1>2 DEF SessionInv
  <2> QED
    BY <1>3, <1>13, <1>16, <1>17, <2>1 DEF SessionInv, StageInv, Serving
<1> QED
  BY <1>12, <1>18, PutKeeps

LEMMA OnChildExitKeeps ==
  ASSUME SessionsInv, NEW c \in Clients, OnChildExit(c)
  PROVE  SessionsInv'
<1>1. PICK s : s = ses[c]
  OBVIOUS
<1>2. PICK v : v = [s EXCEPT !.sh.st = "stop", !.sh.pipe = 0]
  OBVIOUS
<1>3. /\ SessionInv(s) /\ s.sh.st = "exited"
      /\ Put(c, Say(IF v.sh.code = "ok" THEN Did(v, v.cm.k) ELSE v,
                    ExitType(v.sh.code)))
  <2>1. SessionInv(s)
    BY <1>1 DEF SessionsInv
  <2>2. s.sh.st = "exited"
    BY <1>1, Zenon DEF OnChildExit
  <2>3. Put(c, Say(IF v.sh.code = "ok" THEN Did(v, v.cm.k) ELSE v,
                   ExitType(v.sh.code)))
    BY <1>1, <1>2, Zenon DEF OnChildExit
  <2> QED
    BY <2>1, <2>2, <2>3
<1>4. s \in SessionType /\ s.wst = "DO_COMMAND" /\ s.cpc # "off" /\ Shelling(s)
  BY <1>3, ShellingFacts
<1>5. s.sh \in ShellType /\ s.out \in Seq(Answers) /\ s.done \in SUBSET Nat /\ s.k \in Nat
  BY <1>4, SessionFields
<1>6. PICK z \in Nat : z = 0
  OBVIOUS
<1>7. PICK h : h = [s.sh EXCEPT !.st = "stop", !.pipe = z]
  OBVIOUS
<1>8. h \in ShellType /\ h.st = "stop" /\ h.code = s.sh.code
  BY <1>5, <1>7 DEF ShellType
<1>9. v = [s EXCEPT !.sh = h]
  BY <1>2, <1>4, <1>5, <1>6, <1>7 DEF SessionType, ShellType
<1>10. v \in SessionType /\ v.cm = s.cm /\ v.sh = h /\ v.k = s.k
  BY <1>4, <1>8, <1>9 DEF SessionType
<1>11. PICK a \in Answers : a = ExitType(h.code) /\ a \in Ends /\ (a = "SUCC" <=> h.code = "ok")
  <2>1. h.code \in {"ok", "fail"}
    BY <1>4, <1>8 DEF Shelling, ShellType
  <2> QED
    BY <2>1 DEF ExitType, Answers, Ends
<1>12. PICK n \in SUBSET Nat : n = IF h.code = "ok" THEN s.done \cup {s.k} ELSE s.done
  BY <1>5
<1>13. Append(s.out, a) \in Seq(Answers)
  BY <1>5
<1>14. PICK o \in Seq(Answers) : o = Append(s.out, a)
  BY <1>13
<1>15. PICK t : t = [s EXCEPT !.sh = h, !.done = n, !.out = o]
  OBVIOUS
<1>16. Put(c, t)
  <2>1. v.cm.k = s.k
    BY <1>4, <1>10 DEF Shelling
  <2>2. CASE h.code = "ok"
    <3>1. t = Say(Did(v, s.k), a)
      BY <1>4, <1>9, <1>12, <1>14, <1>15, <2>2 DEF Say, Did, SessionType
    <3> QED
      BY <1>3, <1>10, <1>11, <2>1, <2>2, <3>1
  <2>3. CASE h.code # "ok"
    <3>1. t = Say(v, a)
      BY <1>4, <1>9, <1>12, <1>14, <1>15, <2>3 DEF Say, SessionType
    <3> QED
      BY <1>3, <1>10, <1>11, <2>3, <3>1
  <2> QED
    BY <2>2, <2>3
<1>17. /\ t \in SessionType /\ t.cpc = s.cpc /\ t.k = s.k /\ t.succ = s.succ
       /\ t.out = o /\ t.down = s.down /\ t.wst = s.wst /\ t.cm = s.cm
       /\ t.sh = h /\ t.done = n /\ t.up = s.up
  BY <1>4, <1>8, <1>15 DEF SessionType
<1>18. ASSUME s.cpc # "gone"
       PROVE  /\ \A j \in DOMAIN t.down : t.down[j] = "DATA"
              /\ \A j \in DOMAIN t.out : t.out[j] # "DATA" => j = Len(t.out)
              /\ \A j \in DOMAIN t.out : t.out[j] \in {"DATA", a}
  <2>1. /\ \A j \in DOMAIN s.down : s.down[j] = "DATA"
        /\ \A j \in DOMAIN s.out : s.out[j] = "DATA"
    BY <1>4, <1>18, OutputOnly DEF Shelling
  <2>2. PICK u \in Seq(Answers) : u = s.out
    BY <1>5
  <2>3. /\ Append(u, a) \in Seq(Answers) /\ Len(Append(u, a)) = Len(u) + 1
        /\ Append(u, a)[Len(u) + 1] = a
        /\ \A j \in 1 .. Len(u) : Append(u, a)[j] = u[j]
    BY AppendProperties
  <2>4. o = Append(u, a)
    BY <1>14, <2>2
  <2>5. \A j \in DOMAIN o : (j \in DOMAIN u /\ o[j] = u[j]) \/ (j = Len(o) /\ o[j] = a)
    BY <2>3, <2>4
  <2> QED
    BY <1>17, <2>1, <2>2, <2>5
<1>19. SaidInv(t)
  <2>1. s.cpc \in {"shell", "gone"} /\ SaidInv(s)
    BY <1>3, <1>4 DEF Shelling, Here, SessionInv
  <2>2. s.cpc # "gone" /\ Says(t, "SUCC") => a = "SUCC"
    BY <1>18 DEF Says
  <2>3. a = "SUCC" => s.k \in n
    BY <1>11, <1>12
  <2> QED
    BY <1>17, <1>18, <2>1, <2>2, <2>3 DEF SaidInv
<1>20. Idle(t)
  <2>1. Between(t, t.up)
    <3>1. t.cpc \in {"shell", "gone"} /\ (t.up = <<>> \/ Doomed(t.up))
      BY <1>4, <1>17 DEF Shelling, Here
    <3> QED
      BY <3>1 DEF Between
  <2> QED
    BY <1>4, <1>8, <1>17, <2>1 DEF Idle, Shelling
<1>21. SessionInv(t)
  <2>1. s.succ \subseteq n
    BY <1>3, <1>12 DEF SessionInv
  <2> QED
    BY <1>4, <1>17, <1>19, <1>20, <2>1 DEF SessionInv, StageInv, Serving
<1> QED
  BY <1>16, <1>21, PutKeeps

-----------------------------------------------------------------------------
(***************************************************************************)
(* Writing, and the end of the connection                                  *)
(***************************************************************************)

LEMMA WriteCbKeeps ==
  ASSUME SessionsInv, NEW c \in Clients, WriteCb(c)
  PROVE  SessionsInv'
<1>1. PICK s : s = ses[c]
  OBVIOUS
<1>2. /\ SessionInv(s) /\ s \in SessionType /\ s.wst # "released" /\ s.out # <<>>
  BY <1>1 DEF SessionsInv, SessionInv, WriteCb
<1>3. PICK u \in Seq(Answers), d \in Seq(Answers) : u = s.out /\ d = s.down /\ u # <<>>
  BY <1>2, SessionFields
<1>4. PICK a, v : a = Head(u) /\ v = Tail(u)
  OBVIOUS
<1>5. /\ a \in Answers /\ a = u[1] /\ 1 \in DOMAIN u
      /\ v \in Seq(Answers) /\ Len(v) = Len(u) - 1
      /\ Len(u) \in Nat \ {0} /\ DOMAIN v = 1 .. Len(u) - 1
      /\ \A k \in DOMAIN v : v[k] = u[k + 1] /\ k + 1 \in DOMAIN u
  BY <1>3, <1>4, TailFacts
<1>6. PICK e \in Seq(Answers) :
        /\ e = Append(d, a) /\ Len(e) = Len(d) + 1
        /\ \A j \in DOMAIN e : (j \in DOMAIN d /\ e[j] = d[j]) \/ (j = Len(e) /\ e[j] = a)
  <2>1. /\ Append(d, a) \in Seq(Answers) /\ Len(Append(d, a)) = Len(d) + 1
        /\ Append(d, a)[Len(d) + 1] = a
        /\ \A j \in 1 .. Len(d) : Append(d, a)[j] = d[j]
    BY <1>5, AppendProperties
  <2>2. PICK e \in Seq(Answers) : e = Append(d, a)
    BY <2>1
  <2>3. \A j \in DOMAIN e : (j \in DOMAIN d /\ e[j] = d[j]) \/ (j = Len(e) /\ e[j] = a)
    BY <2>1, <2>2
  <2> QED
    BY <2>1, <2>2, <2>3
<1>7. \/ s.cpc # "gone" /\ Put(c, [s EXCEPT !.down = e, !.out = v])
      \/ s.cpc = "gone" /\ Put(c, [s EXCEPT !.out = v])
      \/ s.cpc = "gone" /\ Release(c, s)
  <2>1. [s EXCEPT !.down = Append(@, Head(s.out)), !.out = Tail(@)] = [s EXCEPT !.down = e, !.out = v]
    BY <1>2, <1>3, <1>4, <1>6 DEF SessionType
  <2>2. [s EXCEPT !.out = Tail(@)] = [s EXCEPT !.out = v]
    BY <1>2, <1>3, <1>4 DEF SessionType
  <2> QED
    BY <1>1, <2>1, <2>2 DEF WriteCb
<1>8. CASE s.cpc # "gone" /\ Put(c, [s EXCEPT !.down = e, !.out = v])
  <2>1. PICK t : t = [s EXCEPT !.down = e, !.out = v]
    OBVIOUS
  <2>2. /\ t \in SessionType /\ t.cpc = s.cpc /\ t.k = s.k /\ t.succ = s.succ
        /\ t.down = e /\ t.out = v /\ t.wst = s.wst /\ t.cm = s.cm
        /\ t.sh = s.sh /\ t.done = s.done /\ t.up = s.up
    BY <1>2, <1>5, <2>1 DEF SessionType
  <2>3. \A b : Says(t, b) => Says(s, b)
    BY <1>3, <1>5, <1>6, <2>2 DEF Says
  <2>4. /\ \A j \in DOMAIN d : d[j] = "DATA"
        /\ \A j \in DOMAIN u : u[j] # "DATA" => j = Len(u)
        /\ s.cpc \notin {"off", "ready"} /\ (Says(s, "SUCC") => s.k \in s.done)
    BY <1>2, <1>3, <1>8 DEF SessionInv, SaidInv
  <2>5. \A j \in DOMAIN e : e[j] # "DATA" => j = Len(e) /\ v = <<>>
    <3>1. a # "DATA" => v = <<>>
      <4>1. a # "DATA" => Len(v) = 0
        BY <1>5, <2>4
      <4> QED
        BY <1>5, <4>1
    <3> QED
      BY <1>6, <2>4, <3>1
  <2>6. \A j \in DOMAIN v : v[j] # "DATA" => j = Len(v)
    BY <1>5, <2>4
  <2>7. SaidInv(t)
    BY <1>8, <2>2, <2>3, <2>4, <2>5, <2>6 DEF SaidInv
  <2>8. StageInv(t)
    <3>1. ~Silent(s)
      BY <1>2, <1>8 DEF Silent
    <3>2. StageInv(s)
      BY <1>2 DEF SessionInv
    <3> QED
      BY <1>2, <2>2, <2>3, <3>1, <3>2, SameStage
  <2>9. SessionInv(t)
    BY <1>2, <2>2, <2>7, <2>8 DEF SessionInv
  <2> QED
    BY <1>8, <2>1, <2>9, PutKeeps
<1>9. CASE s.cpc = "gone" /\ Put(c, [s EXCEPT !.out = v])
  <2>1. PICK t : t = [s EXCEPT !.out = v]
    OBVIOUS
  <2>2. /\ t \in SessionType /\ t.cpc = s.cpc /\ t.k = s.k /\ t.succ = s.succ
        /\ t.down = s.down /\ t.out = v /\ t.wst = s.wst /\ t.cm = s.cm
        /\ t.sh = s.sh /\ t.done = s.done /\ t.up = s.up
    BY <1>2, <1>5, <2>1 DEF SessionType
  <2>3. StageInv(s) /\ SaidInv(s)
    BY <1>2 DEF SessionInv
  <2>4. SaidInv(t)
    BY <1>9, <2>2, <2>3 DEF SaidInv
  <2>5. StageInv(t)
    BY <1>2, <1>9, <2>2, <2>3, SameStage
  <2>6. SessionInv(t)
    BY <1>2, <2>2, <2>4, <2>5 DEF SessionInv
  <2> QED
    BY <1>9, <2>1, <2>6, PutKeeps
<1>10. CASE s.cpc = "gone" /\ Release(c, s)
  <2>1. s.wst # "none"
    BY <1>2, <1>10 DEF SessionInv, StageInv, Off, Ended, Greeting, Keyed, Serving
  <2> QED
    BY <1>1, <1>2, <1>10, <2>1, ReleaseKeeps
<1> QED
  BY <1>7, <1>8, <1>9, <1>10

LEMMA ReadEndKeeps ==
  ASSUME SessionsInv, NEW c \in Clients, ReadEnd(c)
  PROVE  SessionsInv'
<1>1. PICK s : s = ses[c]
  OBVIOUS
<1>2. /\ SessionInv(s) /\ s \in SessionType /\ s.wst # "none" /\ Release(c, s)
  BY <1>1 DEF SessionsInv, SessionInv, ReadEnd
<1> QED
  BY <1>1, <1>2, ReleaseKeeps

-----------------------------------------------------------------------------
(***************************************************************************)
(* The loader of a strategy                                                *)
(***************************************************************************)

ExecType ==
  [t: {"exec"}, st: {"RECV_FILE", "RECV_CONFIG", "RECV_DIR", "RECV_CMD"},
   k: Nat, cmd: CmdType, conf: Nat, f: FileType \cup {None}]

(* t is the session r, with the loader m. *)
Loaded(t, r, m) ==
  /\ t \in SessionType /\ t.cpc = r.cpc /\ t.k = r.k /\ t.succ = r.succ
  /\ t.down = r.down /\ t.wst = r.wst /\ t.cm = m /\ t.sh = r.sh
  /\ t.done = r.done /\ t.up = r.up

LEMMA LoaderFields ==
  ASSUME NEW r \in SessionType, NEW m \in ExecType, NEW t, t = [r EXCEPT !.cm = m]
  PROVE  Loaded(t, r, m) /\ t.out = r.out
<1>1. m \in CommanderType
  BY DEF CommanderType, ExecType
<1> QED
  BY <1>1 DEF SessionType, Loaded

LEMMA AckFields ==
  ASSUME NEW r \in SessionType, NEW m \in ExecType,
         NEW t, t = Say([r EXCEPT !.cm = m], "ACK")
  PROVE  Loaded(t, r, m) /\ t.out = Append(r.out, "ACK")
<1>1. m \in CommanderType
  BY DEF CommanderType, ExecType
<1>2. PICK a \in Answers : a = "ACK"
  BY DEF Answers, Ends
<1>3. PICK u \in Seq(Answers) : u = r.out
  BY SessionFields
<1>4. Append(u, a) \in Seq(Answers)
  OBVIOUS
<1>5. PICK o \in Seq(Answers) : o = Append(u, a)
  BY <1>4
<1>6. t = [r EXCEPT !.cm = m, !.out = o]
  BY <1>2, <1>3, <1>5 DEF Say, SessionType
<1>7. /\ t \in SessionType /\ t.cpc = r.cpc /\ t.k = r.k /\ t.succ = r.succ
      /\ t.down = r.down /\ t.wst = r.wst /\ t.cm = m /\ t.sh = r.sh
      /\ t.done = r.done /\ t.up = r.up /\ t.out = o
  BY <1>1, <1>6 DEF SessionType
<1> QED
  BY <1>2, <1>3, <1>5, <1>7 DEF Loaded

(* The loader goes on, or asks for the next part. *)
LEMMA LoaderKeeps ==
  ASSUME NEW s, SessionInv(s), s.wst = "DO_COMMAND", Silent(s),
         s.cpc \notin {"off", "ready"}, NEW r \in SessionType,
         r.cpc = s.cpc, r.k = s.k, r.succ = s.succ, r.out = s.out,
         r.down = s.down, r.wst = s.wst, r.done = s.done,
         NEW t, NEW m, Loaded(t, r, m),
         \/ t.out = r.out /\ Loading(t)
         \/ t.out = Append(r.out, "ACK") /\ (Only(t, {"ACK"}) => Loading(t))
  PROVE  SessionInv(t)
<1>1. /\ t \in SessionType /\ t.cpc = s.cpc /\ t.k = s.k /\ t.succ = s.succ
      /\ t.down = s.down /\ t.wst = s.wst /\ t.done = s.done
  BY DEF Loaded
<1>2. Loading(t) => StageInv(t)
  BY <1>1 DEF StageInv, Serving
<1>3. CASE t.out = r.out /\ Loading(t)
  <2>1. t.out = s.out /\ StageInv(t) /\ s.done \subseteq t.done
    BY <1>1, <1>2, <1>3
  <2> QED
    BY <1>1, <2>1, UnsaidKeeps
<1>4. CASE t.out = Append(r.out, "ACK") /\ (Only(t, {"ACK"}) => Loading(t))
  <2>1. PICK a \in Ends : a = "ACK"
    BY DEF Ends
  <2>2. t.out = Append(s.out, a) /\ a # "SUCC" /\ s.done \subseteq t.done
    BY <1>1, <1>4, <2>1
  <2>3. /\ SaidInv(t) /\ t.succ \subseteq t.done
        /\ \A b : t.cpc # "gone" /\ Says(t, b) => b = a
    BY <1>1, <2>2, SaidOne
  <2>4. Only(t, {"ACK"})
    BY <2>1, <2>3 DEF Only
  <2> QED
    BY <1>1, <1>2, <1>4, <2>3, <2>4 DEF SessionInv
<1> QED
  BY <1>3, <1>4

LEMMA FileNotNone ==
  ASSUME NEW f \in FileType
  PROVE  f # None
<1>1. "left" \in DOMAIN f
  BY DEF FileType
<1>2. "left" \notin DOMAIN None
  BY DEF None
<1> QED
  BY <1>1, <1>2

(* What is left of a file that a loader receives. *)
LEMMA LoaderRest ==
  ASSUME SessionsInv, NEW c \in Clients, NEW kinds, Takes(c, "DO_COMMAND", kinds),
         NEW s, s = ses[c], NEW r, r = Rest(c), NEW f \in FileType,
         NEW n \in {1, 2}, Parts(s, s.up, n), Len(s.up) <= f.left + 1
  PROVE  /\ \A t : t.k = s.k => Parts(t, r.up, 1)
         /\ Len(r.up) <= f.left
         /\ f.left = 0 => r.up = <<>>
<1>1. PICK p : p = Package(c)
  OBVIOUS
<1>2. /\ s \in SessionType /\ r.up \in Seq(PkgType)
      /\ Len(r.up) = Len(s.up) - 1 /\ Len(s.up) \in Nat \ {0}
      /\ \A j \in DOMAIN r.up : r.up[j] = s.up[j + 1] /\ j + 1 \in DOMAIN s.up
      /\ \A j \in DOMAIN r.up : j \in Nat \ {0}
  BY <1>1, TakesFacts
<1>3. \A t : t.k = s.k => Parts(t, r.up, 1)
  BY <1>2, PartsRest
<1>4. PICK i \in Nat, k \in Int : i = Len(s.up) /\ k = f.left
  BY <1>2 DEF FileType
<1>5. Len(r.up) <= f.left
  <2>1. i <= k + 1
    BY <1>4
  <2>2. i - 1 <= k
    BY <2>1
  <2> QED
    BY <1>2, <1>4, <2>2
<1>6. f.left = 0 => r.up = <<>>
  <2>1. \A x \in Nat \ {0}, y \in Int : x <= y + 1 /\ y = 0 => x - 1 = 0
    OBVIOUS
  <2>2. f.left = 0 => Len(r.up) = 0
    BY <1>2, <1>4, <2>1
  <2> QED
    BY <1>2, <2>2
<1> QED
  BY <1>3, <1>5, <1>6

(* The loader m takes a piece of the script; f is what is left of it. *)
ScriptStep(c, r, m, f) ==
  \/ f.left > 0 /\ Put(c, [r EXCEPT !.cm = [m EXCEPT !.f = f]])
  \/ /\ f.left = 0
     /\ Put(c, Say([r EXCEPT !.cm = [m EXCEPT !.st = "RECV_CONFIG",
                                              !.f = None]], "ACK"))
  \/ Release(c, r)

LEMMA ScriptGoes ==
  ASSUME SessionsInv, NEW c \in Clients, NEW kinds, Takes(c, "DO_COMMAND", kinds),
         NEW s, s = ses[c], NEW r, r = Rest(c), NEW m \in ExecType,
         m.k = s.k, m.st = "RECV_FILE", NEW f \in FileType,
         NEW n \in {1, 2}, Parts(s, s.up, n), Len(s.up) <= f.left + 1,
         Here(s, "script"), Silent(s), s.sh.st \in {"none", "stop"},
         ScriptStep(c, r, m, f)
  PROVE  SessionsInv'
<1>1. PICK p : p = Package(c)
  OBVIOUS
<1>2. /\ SessionInv(s) /\ s \in SessionType /\ s.wst = "DO_COMMAND"
      /\ r \in SessionType /\ r.cpc = s.cpc /\ r.k = s.k /\ r.succ = s.succ
      /\ r.out = s.out /\ r.down = s.down /\ r.wst = s.wst /\ r.sh = s.sh
      /\ r.done = s.done
  BY <1>1, TakesFacts
<1>3. s.cpc \notin {"off", "ready"}
  BY DEF Here
<1>4. /\ \A t : t.k = s.k => Parts(t, r.up, 1)
      /\ Len(r.up) <= f.left
      /\ f.left = 0 => r.up = <<>>
  BY LoaderRest
<1>5. m.conf \in Nat /\ f \in FileType \cup {None} /\ None \in FileType \cup {None}
  BY DEF ExecType
<1>6. CASE f.left > 0 /\ Put(c, [r EXCEPT !.cm = [m EXCEPT !.f = f]])
  <2>1. PICK q : q = [m EXCEPT !.f = f]
    OBVIOUS
  <2>2. q \in ExecType /\ q.t = "exec" /\ q.k = m.k /\ q.st = m.st /\ q.f = f
    BY <1>5, <2>1 DEF ExecType
  <2>3. PICK t : t = [r EXCEPT !.cm = q]
    OBVIOUS
  <2>4. Loaded(t, r, q) /\ t.out = r.out
    BY <1>2, <2>2, <2>3, LoaderFields
  <2>5. /\ t.cpc = s.cpc /\ t.k = s.k /\ t.cm = q /\ t.sh = s.sh /\ t.up = r.up
        /\ t.out = s.out /\ t.down = s.down
    BY <1>2, <2>4 DEF Loaded
  <2>6. FileComes(t)
    BY <1>4, <2>2, <2>5, FileNotNone DEF FileComes
  <2>7. Loading(t)
    BY <2>2, <2>5, <2>6, FileNotNone DEF Loading, Sent, Here, Silent
  <2>8. SessionInv(t)
    BY <1>2, <1>3, <2>4, <2>7, LoaderKeeps
  <2> QED
    BY <1>6, <2>1, <2>3, <2>8, PutKeeps
<1>7. CASE /\ f.left = 0
           /\ Put(c, Say([r EXCEPT !.cm = [m EXCEPT !.st = "RECV_CONFIG",
                                                    !.f = None]], "ACK"))
  <2>1. PICK q : q = [m EXCEPT !.st = "RECV_CONFIG", !.f = None]
    OBVIOUS
  <2>2. q \in ExecType /\ q.t = "exec" /\ q.k = m.k /\ q.st = "RECV_CONFIG" /\ q.f = None
    BY <1>5, <2>1 DEF ExecType
  <2>3. PICK t : t = Say([r EXCEPT !.cm = q], "ACK")
    OBVIOUS
  <2>4. Loaded(t, r, q) /\ t.out = Append(r.out, "ACK")
    BY <1>2, <2>2, <2>3, AckFields
  <2>5. /\ t.cpc = s.cpc /\ t.k = s.k /\ t.cm = q /\ t.sh = s.sh /\ t.up = r.up
    BY <1>2, <2>4 DEF Loaded
  <2>6. Only(t, {"ACK"}) => Loading(t)
    BY <1>4, <1>7, <2>2, <2>5 DEF Loading, Asked, Here
  <2>7. SessionInv(t)
    BY <1>2, <1>3, <2>4, <2>6, LoaderKeeps
  <2> QED
    BY <1>7, <2>1, <2>3, <2>7, PutKeeps
<1>8. CASE Release(c, r)
  BY <1>2, <1>8, ReleaseKeeps
<1> QED
  BY <1>6, <1>7, <1>8 DEF ScriptStep

(* A loader waits for this package. *)
LEMMA StageFacts ==
  ASSUME SessionsInv, NEW c \in Clients, NEW kinds, Takes(c, "DO_COMMAND", kinds),
         NEW s, s = ses[c], s.cm.t = "exec"
  PROVE  /\ s \in SessionType /\ Loading(s) /\ Silent(s) /\ s.cm \in ExecType
         /\ s.up # <<>> /\ s.cm.k = s.k /\ s.sh.st \in {"none", "stop"}
         /\ s.cm.st = "RECV_FILE" => s.cm.f # None /\ Here(s, "script") /\ FileComes(s)
         /\ s.cm.st = "RECV_CONFIG" => Here(s, "conf") /\ FileComes(s)
         /\ s.cm.st = "RECV_DIR" => s.cm.conf = s.k /\ Here(s, "dir") /\ DirComes(s)
         /\ s.cm.st = "RECV_CMD" => s.cm.conf = s.k /\ Here(s, "args") /\ ArgsCome(s)
<1>1. PICK r, p : r = Rest(c) /\ p = Package(c)
  OBVIOUS
<1>2. s \in SessionType /\ Serving(s) /\ s.up # <<>>
  BY <1>1, TakesFacts
<1>3. Loading(s)
  BY <1>2, NoCommander DEF Serving, Idle, Saving, Shelling
<1>4. s.cm \in ExecType
  BY <1>2, ExecFields DEF ExecType
<1>5. \A pc : ~Asked(s, pc)
  BY <1>2 DEF Asked
<1> QED
  BY <1>2, <1>3, <1>4, <1>5 DEF Loading, Sent

LEMMA RecvScriptKeeps ==
  ASSUME SessionsInv, NEW c \in Clients, RecvScript(c)
  PROVE  SessionsInv'
<1>1. PICK s, r, p : s = ses[c] /\ r = Rest(c) /\ p = Package(c)
  OBVIOUS
<1>2. PICK l : l = Loader("RECV_FILE", p, None)
  OBVIOUS
<1>3. \/ NewCommand(c, {"script"}) /\ ScriptStep(c, r, l, Receiver(p))
      \/ /\ Takes(c, "DO_COMMAND", {"part"}) /\ s.cm.t = "exec" /\ s.cm.st = "RECV_FILE"
         /\ ScriptStep(c, r, s.cm, Received(s.cm.f, p))
  BY <1>1, <1>2 DEF RecvScript, ScriptStep
<1>4. CASE NewCommand(c, {"script"})
  <2>1. Takes(c, "DO_COMMAND", {"script"}) /\ Commander(s) = None
    BY <1>1, <1>4 DEF NewCommand
  <2>2. /\ SessionInv(s) /\ s.wst = "DO_COMMAND" /\ s.up # <<>> /\ p = s.up[1]
        /\ p \in PkgType /\ p.t = "script" /\ Len(s.up) \in Nat
    BY <1>1, <2>1, TakesFacts
  <2>3. /\ Request(s, s.up) /\ Silent(s) /\ p.k = s.k
        /\ s.sh.st \in {"none", "stop"}
    BY <2>1, <2>2, RequestFacts
  <2>4. /\ Here(s, "script") /\ Parts(s, s.up, 2) /\ p.len = Units
        /\ Len(s.up) <= Units /\ p.cmd \in CmdType
    BY <2>2, <2>3 DEF Request
  <2>5. PICK f \in FileType : f = Receiver(p) /\ f.left = p.len - 1
    BY <2>2, FileFacts
  <2>6. Len(s.up) <= f.left + 1
    BY <2>2, <2>4, <2>5, BoundsAssumption
  <2>7. l \in ExecType /\ l.k = s.k /\ l.st = "RECV_FILE"
    <3>1. p.k \in Nat
      BY <2>2, PkgFields
    <3> QED
      BY <1>2, <2>3, <2>4, <3>1 DEF Loader, ExecType
  <2>8. ~Takes(c, "DO_COMMAND", {"part"})
    BY <1>1, <2>2 DEF Takes, Package
  <2>9. ScriptStep(c, r, l, f)
    BY <1>3, <2>5, <2>8
  <2>10. PICK n \in {1, 2} : Parts(s, s.up, n)
    BY <2>4
  <2>11. Here(s, "script") /\ Silent(s) /\ s.sh.st \in {"none", "stop"}
    BY <2>3, <2>4
  <2> QED
    BY <1>1, <2>1, <2>6, <2>7, <2>9, <2>10, <2>11, ScriptGoes
<1>5. CASE ~NewCommand(c, {"script"})
  <2>1. Takes(c, "DO_COMMAND", {"part"}) /\ s.cm.t = "exec" /\ s.cm.st = "RECV_FILE"
    BY <1>3, <1>5
  <2>2. PICK m : m = s.cm
    OBVIOUS
  <2>3. /\ s \in SessionType /\ m \in ExecType /\ m.k = s.k /\ m.st = "RECV_FILE"
        /\ Silent(s) /\ Here(s, "script") /\ s.sh.st \in {"none", "stop"}
        /\ m.f # None /\ FileComes(s)
    BY <1>1, <2>1, <2>2, StageFacts
  <2>4. m.f \in FileType /\ Parts(s, s.up, 1) /\ Len(s.up) <= m.f.left
    BY <2>2, <2>3 DEF FileComes, ExecType
  <2>5. p \in PkgType
    BY <1>1, <2>1, TakesFacts
  <2>6. PICK f \in FileType : f = Received(m.f, p) /\ f.left = m.f.left - 1
    BY <2>4, <2>5, FileFacts
  <2>7. Len(s.up) <= f.left + 1
    <3>1. m.f.left \in Int
      BY <2>4 DEF FileType
    <3>2. \A x \in Int : x - 1 + 1 = x
      OBVIOUS
    <3> QED
      BY <2>4, <2>6, <3>1, <3>2
  <2>8. ScriptStep(c, r, m, f)
    BY <1>3, <1>5, <2>2, <2>6
  <2>9. PICK n \in {1, 2} : Parts(s, s.up, n)
    BY <2>4
  <2>10. /\ m \in ExecType /\ m.k = s.k /\ m.st = "RECV_FILE"
         /\ Here(s, "script") /\ Silent(s) /\ s.sh.st \in {"none", "stop"}
    BY <2>3
  <2> QED
    BY <1>1, <2>1, <2>7, <2>8, <2>9, <2>10, ScriptGoes
<1> QED
  BY <1>4, <1>5

LEMMA NestFields ==
  ASSUME NEW r \in SessionType, NEW m \in ExecType, r.cm = m, NEW st, NEW f, NEW k
  PROVE  /\ [r EXCEPT !.cm.f = f] = [r EXCEPT !.cm = [m EXCEPT !.f = f]]
         /\ [r EXCEPT !.cm.st = st] = [r EXCEPT !.cm = [m EXCEPT !.st = st]]
         /\ [r EXCEPT !.cm.st = st, !.cm.f = f, !.cm.conf = k]
              = [r EXCEPT !.cm = [m EXCEPT !.st = st, !.f = f, !.conf = k]]
<1>1. [r EXCEPT !.cm.f = f] = [r EXCEPT !.cm = [m EXCEPT !.f = f]]
  BY DEF SessionType
<1>2. [r EXCEPT !.cm.st = st] = [r EXCEPT !.cm = [m EXCEPT !.st = st]]
  BY DEF SessionType
<1>3. [r EXCEPT !.cm.st = st, !.cm.f = f, !.cm.conf = k]
        = [r EXCEPT !.cm = [m EXCEPT !.st = st, !.f = f, !.conf = k]]
  BY DEF SessionType, ExecType
<1> QED
  BY <1>1, <1>2, <1>3

(* The file that a loader receives after a package. *)
LEMMA FileStepFacts ==
  ASSUME NEW m \in ExecType, NEW p \in PkgType
  PROVE  /\ FileStep(m, p) \in FileType
         /\ m.f = None => FileStep(m, p).left = p.len - 1
         /\ m.f # None => m.f \in FileType /\ FileStep(m, p).left = m.f.left - 1
<1>1. CASE m.f = None
  BY <1>1, FileFacts DEF FileStep
<1>2. CASE m.f # None
  <2>1. m.f \in FileType
    BY <1>2 DEF ExecType
  <2> QED
    BY <1>2, <2>1, FileFacts DEF FileStep
<1> QED
  BY <1>1, <1>2

LEMMA RecvConfigKeeps ==
  ASSUME SessionsInv, NEW c \in Clients, RecvConfig(c)
  PROVE  SessionsInv'
<1>1. PICK s, r, p : s = ses[c] /\ r = Rest(c) /\ p = Package(c)
  OBVIOUS
<1>2. PICK m : m = s.cm
  OBVIOUS
<1>3. PICK g : g = FileStep(m, p)
  OBVIOUS
<1>4. Takes(c, "DO_COMMAND", {"conf", "part"}) /\ m.t = "exec" /\ m.st = "RECV_CONFIG"
  BY <1>1, <1>2 DEF RecvConfig, AtStage
<1>5. /\ SessionInv(s) /\ s \in SessionType /\ s.wst = "DO_COMMAND"
      /\ r \in SessionType /\ r.cpc = s.cpc /\ r.k = s.k /\ r.succ = s.succ
      /\ r.out = s.out /\ r.down = s.down /\ r.wst = s.wst /\ r.sh = s.sh
      /\ r.done = s.done /\ p \in PkgType /\ p = s.up[1] /\ 1 \in DOMAIN s.up
      /\ Len(s.up) \in Nat /\ r.cm = m
  BY <1>1, <1>2, <1>4, TakesFacts
<1>6. /\ m \in ExecType /\ m.k = s.k /\ Silent(s) /\ s.sh.st \in {"none", "stop"}
      /\ Here(s, "conf") /\ FileComes(s) /\ s.up # <<>>
  BY <1>1, <1>2, <1>4, StageFacts
<1>7. PICK f \in FileType : f = g
  BY <1>3, <1>5, <1>6, FileStepFacts
<1>8. PICK n \in {1, 2} : /\ p.k = s.k /\ Parts(s, s.up, n) /\ Len(s.up) <= f.left + 1
  <2>1. CASE m.f = None
    <3>1. p.k = s.k /\ Parts(s, s.up, 2) /\ p.len = Units /\ Len(s.up) <= Units
      BY <1>2, <1>5, <1>6, <2>1 DEF FileComes
    <3>2. f.left = Units - 1
      BY <1>3, <1>5, <1>6, <1>7, <2>1, <3>1, FileStepFacts
    <3>3. Len(s.up) <= f.left + 1
      BY <1>5, <3>1, <3>2, BoundsAssumption
    <3> QED
      BY <3>1, <3>3
  <2>2. CASE m.f # None
    <3>1. Parts(s, s.up, 1) /\ Len(s.up) <= m.f.left
      BY <1>2, <1>6, <2>2 DEF FileComes
    <3>2. p.k = s.k
      BY <1>5, <3>1 DEF Parts
    <3>3. f.left = m.f.left - 1 /\ m.f.left \in Int
      BY <1>3, <1>5, <1>6, <1>7, <2>2, FileStepFacts DEF FileType
    <3>4. Len(s.up) <= f.left + 1
      <4>1. \A x \in Int : x - 1 + 1 = x
        OBVIOUS
      <4> QED
        BY <3>1, <3>3, <4>1
    <3> QED
      BY <3>1, <3>2, <3>4
  <2> QED
    BY <2>1, <2>2
<1>9. /\ \A t : t.k = s.k => Parts(t, r.up, 1)
      /\ Len(r.up) <= f.left
      /\ f.left = 0 => r.up = <<>>
  BY <1>1, <1>4, <1>8, LoaderRest
<1>10. s.cpc \in {"conf", "gone"}
  BY <1>6 DEF Here
<1>11. PICK k \in Nat : k = p.k /\ k = m.k /\ k = s.k
  BY <1>5, <1>6, <1>8, PkgFields
<1>12. PICK q, x : /\ q = [m EXCEPT !.f = f]
                   /\ x = [m EXCEPT !.st = "RECV_DIR", !.f = None, !.conf = k]
  OBVIOUS
<1>13. PICK u : u = [Did(r, k) EXCEPT !.cm = None]
  OBVIOUS
<1>14. \/ f.left > 0 /\ Put(c, [r EXCEPT !.cm = q])
       \/ f.left = 0 /\ Put(c, Say(Say(u, "DATA"), "SUCC"))
       \/ f.left = 0 /\ Put(c, Say([r EXCEPT !.cm = x], "ACK"))
       \/ Release(c, r)
  <2>1. /\ [r EXCEPT !.cm.f = f] = [r EXCEPT !.cm = q]
        /\ [r EXCEPT !.cm.st = "RECV_DIR", !.cm.f = None, !.cm.conf = k] = [r EXCEPT !.cm = x]
    <3>1. /\ [r EXCEPT !.cm.f = f] = [r EXCEPT !.cm = [m EXCEPT !.f = f]]
          /\ [r EXCEPT !.cm.st = "RECV_DIR", !.cm.f = None, !.cm.conf = k]
               = [r EXCEPT !.cm = [m EXCEPT !.st = "RECV_DIR", !.f = None, !.conf = k]]
      BY <1>5, <1>6, NestFields, Zenon
    <3> QED
      BY <1>12, <3>1
  <2>2. \/ f.left > 0 /\ Put(c, [r EXCEPT !.cm.f = f])
        \/ f.left = 0 /\ Put(c, Say(Say([Did(r, m.k) EXCEPT !.cm = None], "DATA"), "SUCC"))
        \/ f.left = 0 /\ Put(c, Say([r EXCEPT !.cm.st = "RECV_DIR", !.cm.f = None,
                                              !.cm.conf = p.k], "ACK"))
        \/ Release(c, r)
    BY <1>1, <1>2, <1>3, <1>7, Zenon DEF RecvConfig
  <2> QED
    BY <1>11, <1>13, <2>1, <2>2
<1>15. CASE f.left > 0 /\ Put(c, [r EXCEPT !.cm = q])
  <2>1. q \in ExecType /\ q.t = "exec" /\ q.k = m.k /\ q.st = m.st /\ q.f = f
    BY <1>6, <1>12 DEF ExecType
  <2>2. PICK t : t = [r EXCEPT !.cm = q]
    OBVIOUS
  <2>3. Loaded(t, r, q) /\ t.out = r.out
    BY <1>5, <2>1, <2>2, LoaderFields
  <2>4. /\ t.cpc = s.cpc /\ t.k = s.k /\ t.cm = q /\ t.sh = s.sh /\ t.up = r.up
        /\ t.out = s.out /\ t.down = s.down
    BY <1>5, <2>3 DEF Loaded
  <2>5. FileComes(t)
    BY <1>9, <2>1, <2>4, FileNotNone DEF FileComes
  <2>6. Sent(t, "conf")
    BY <1>6, <2>4 DEF Sent, Here, Silent
  <2>7. Loading(t)
    BY <1>4, <1>6, <2>1, <2>4, <2>5, <2>6 DEF Loading
  <2>8. SessionInv(t)
    BY <1>5, <1>6, <1>10, <2>3, <2>7, LoaderKeeps
  <2> QED
    BY <1>15, <2>2, <2>8, PutKeeps
<1>16. CASE f.left = 0 /\ Put(c, Say(Say(u, "DATA"), "SUCC"))
  <2>1. PICK v : v = [r EXCEPT !.cm = None]
    OBVIOUS
  <2>2. Freed(v, s) /\ v.up = r.up
    BY <1>1, <1>4, <2>1, FreedFacts
  <2>3. u = Did(v, k)
    BY <1>5, <1>13, <2>1 DEF Did, SessionType
  <2>4. v.up = <<>>
    BY <1>9, <1>16, <2>2
  <2>5. s.cpc \in {"echo", "shell", "conf", "args", "gone"}
    BY <1>10
  <2> QED
    BY <1>1, <1>5, <1>6, <1>11, <1>16, <2>2, <2>3, <2>4, <2>5, SuccKeeps
<1>17. CASE f.left = 0 /\ Put(c, Say([r EXCEPT !.cm = x], "ACK"))
  <2>1. /\ x \in ExecType /\ x.t = "exec" /\ x.k = m.k /\ x.st = "RECV_DIR"
        /\ x.f = None /\ x.conf = k
    BY <1>6, <1>12 DEF ExecType
  <2>2. PICK t : t = Say([r EXCEPT !.cm = x], "ACK")
    OBVIOUS
  <2>3. Loaded(t, r, x) /\ t.out = Append(r.out, "ACK")
    BY <1>5, <2>1, <2>2, AckFields
  <2>4. /\ t.cpc = s.cpc /\ t.k = s.k /\ t.cm = x /\ t.sh = s.sh /\ t.up = <<>>
    BY <1>5, <1>9, <1>17, <2>3 DEF Loaded
  <2>5. Only(t, {"ACK"}) => Loading(t)
    BY <1>6, <1>11, <2>1, <2>4 DEF Loading, Asked, Here
  <2>6. SessionInv(t)
    BY <1>5, <1>6, <1>10, <2>3, <2>5, LoaderKeeps
  <2> QED
    BY <1>17, <2>2, <2>6, PutKeeps
<1>18. CASE Release(c, r)
  BY <1>1, <1>5, <1>18, ReleaseKeeps
<1> QED
  BY <1>14, <1>15, <1>16, <1>17, <1>18

LEMMA RecvDirKeeps ==
  ASSUME SessionsInv, NEW c \in Clients, RecvDir(c)
  PROVE  SessionsInv'
<1>1. PICK s, r, p : s = ses[c] /\ r = Rest(c) /\ p = Package(c)
  OBVIOUS
<1>2. PICK m : m = s.cm
  OBVIOUS
<1>3. PICK g : g = FileStep(m, p)
  OBVIOUS
<1>4. PICK kinds : Takes(c, "DO_COMMAND", kinds) /\ m.t = "exec" /\ m.st = "RECV_DIR"
  BY <1>1, <1>2, Zenon DEF RecvDir, AtStage
<1>5. /\ SessionInv(s) /\ s \in SessionType /\ s.wst = "DO_COMMAND"
      /\ r \in SessionType /\ r.cpc = s.cpc /\ r.k = s.k /\ r.succ = s.succ
      /\ r.out = s.out /\ r.down = s.down /\ r.wst = s.wst /\ r.sh = s.sh
      /\ r.done = s.done /\ p \in PkgType /\ p = s.up[1] /\ 1 \in DOMAIN s.up
      /\ r.cm = m /\ r.up \in Seq(PkgType)
      /\ Len(r.up) = Len(s.up) - 1 /\ Len(s.up) \in Nat \ {0}
      /\ \A j \in DOMAIN r.up : r.up[j] = s.up[j + 1] /\ j + 1 \in DOMAIN s.up
      /\ \A j \in DOMAIN r.up : j \in Nat \ {0}
  BY <1>1, <1>2, <1>4, TakesFacts
<1>6. /\ m \in ExecType /\ m.k = s.k /\ m.conf = s.k /\ Silent(s)
      /\ s.sh.st \in {"none", "stop"} /\ Here(s, "dir") /\ DirComes(s)
  BY <1>1, <1>2, <1>4, StageFacts
<1>7. s.cpc \in {"dir", "gone"}
  BY <1>6 DEF Here
<1>8. PICK f \in FileType : f = g
  BY <1>3, <1>5, <1>6, FileStepFacts
<1>9. PICK x, q, z : /\ x = [m EXCEPT !.st = "RECV_CMD"]
                     /\ q = [m EXCEPT !.f = f] /\ z = [m EXCEPT !.f = None]
  OBVIOUS
<1>10. /\ r = [r EXCEPT !.cm = m]
       /\ [r EXCEPT !.cm.f = f] = [r EXCEPT !.cm = q]
       /\ [r EXCEPT !.cm.f = None] = [r EXCEPT !.cm = z]
       /\ [r EXCEPT !.cm.st = "RECV_CMD"] = [r EXCEPT !.cm = x]
  <2>1. r = [r EXCEPT !.cm = m]
    BY <1>5 DEF SessionType
  <2>2. [r EXCEPT !.cm.f = f] = [r EXCEPT !.cm = [m EXCEPT !.f = f]]
    BY <1>5, <1>6, NestFields, Zenon
  <2>3. [r EXCEPT !.cm.f = None] = [r EXCEPT !.cm = [m EXCEPT !.f = None]]
    BY <1>5, <1>6, NestFields, Zenon
  <2>4. [r EXCEPT !.cm.st = "RECV_CMD"] = [r EXCEPT !.cm = [m EXCEPT !.st = "RECV_CMD"]]
    BY <1>5, <1>6, NestFields, Zenon
  <2> QED
    BY <1>9, <2>1, <2>2, <2>3, <2>4
<1>11. \/ /\ p.t = "end" \/ (p.t = "dir" /\ ~p.cmd.dir)
          /\ Put(c, Say([r EXCEPT !.cm = x], "ACK"))
       \/ Put(c, [r EXCEPT !.cm = m])
       \/ Put(c, [r EXCEPT !.cm = q])
       \/ Put(c, [r EXCEPT !.cm = z])
       \/ Release(c, r)
  <2>1. \/ /\ AtStage(c, "RECV_DIR", {"dir"})
           /\ \/ ~p.cmd.dir /\ Put(c, Say([r EXCEPT !.cm.st = "RECV_CMD"], "ACK"))
              \/ Put(c, r)
              \/ Release(c, r)
        \/ Put(c, [r EXCEPT !.cm.f = f])
        \/ Put(c, [r EXCEPT !.cm.f = None])
        \/ Release(c, r)
        \/ /\ AtStage(c, "RECV_DIR", {"end"})
           /\ Put(c, Say([r EXCEPT !.cm.st = "RECV_CMD"], "ACK"))
    BY <1>1, <1>2, <1>3, <1>8, Zenon DEF RecvDir
  <2>2. /\ AtStage(c, "RECV_DIR", {"dir"}) => p.t = "dir"
        /\ AtStage(c, "RECV_DIR", {"end"}) => p.t = "end"
    BY <1>1 DEF AtStage, Takes, Package
  <2> QED
    BY <1>10, <2>1, <2>2
<1>12. ASSUME NEW n \in ExecType, n.t = "exec", n.k = m.k, n.st = m.st, n.conf = m.conf,
              Put(c, [r EXCEPT !.cm = n])
       PROVE  SessionsInv'
  <2>1. PICK t : t = [r EXCEPT !.cm = n]
    OBVIOUS
  <2>2. Loaded(t, r, n) /\ t.out = r.out
    BY <1>5, <1>12, <2>1, LoaderFields
  <2>3. /\ t.cpc = s.cpc /\ t.k = s.k /\ t.cm = n /\ t.sh = s.sh /\ t.up = r.up
        /\ t.out = s.out /\ t.down = s.down
    BY <1>5, <2>2 DEF Loaded
  <2>4. DirComes(t)
    <3>1. Len(t.up) = Len(s.up) - 1 /\ Len(s.up) \in Nat
      BY <1>5, <2>3
    <3>2. \A j \in DOMAIN t.up : t.up[j] = s.up[j + 1] /\ j + 1 \in DOMAIN s.up /\ j \in Nat
      BY <1>5, <2>3
    <3>3. \A j, i \in Nat : j + 1 = i => j = i - 1
      OBVIOUS
    <3> QED
      BY <1>6, <3>1, <3>2, <3>3 DEF DirComes
  <2>5. Sent(t, "dir")
    BY <1>6, <2>3 DEF Sent, Here, Silent
  <2>6. Loading(t)
    BY <1>4, <1>6, <1>12, <2>3, <2>4, <2>5 DEF Loading
  <2>7. SessionInv(t)
    BY <1>5, <1>6, <1>7, <2>2, <2>6, LoaderKeeps
  <2> QED
    BY <1>12, <2>1, <2>7, PutKeeps
<1>13. CASE Put(c, [r EXCEPT !.cm = m])
  BY <1>4, <1>6, <1>12, <1>13
<1>14. CASE Put(c, [r EXCEPT !.cm = q])
  <2>1. q \in ExecType /\ q.t = "exec" /\ q.k = m.k /\ q.st = m.st /\ q.conf = m.conf
    BY <1>6, <1>9 DEF ExecType
  <2> QED
    BY <1>12, <1>14, <2>1
<1>15. CASE Put(c, [r EXCEPT !.cm = z])
  <2>1. z \in ExecType /\ z.t = "exec" /\ z.k = m.k /\ z.st = m.st /\ z.conf = m.conf
    BY <1>6, <1>9 DEF ExecType
  <2> QED
    BY <1>12, <1>15, <2>1
<1>16. CASE /\ p.t = "end" \/ (p.t = "dir" /\ ~p.cmd.dir)
            /\ Put(c, Say([r EXCEPT !.cm = x], "ACK"))
  <2>1. x \in ExecType /\ x.t = "exec" /\ x.k = m.k /\ x.st = "RECV_CMD" /\ x.conf = m.conf
    BY <1>6, <1>9 DEF ExecType
  <2>2. PICK t : t = Say([r EXCEPT !.cm = x], "ACK")
    OBVIOUS
  <2>3. Loaded(t, r, x) /\ t.out = Append(r.out, "ACK")
    BY <1>5, <2>1, <2>2, AckFields
  <2>4. t.up = <<>>
    <3>1. Len(s.up) = 1
      BY <1>5, <1>6, <1>16 DEF DirComes
    <3>2. Len(r.up) = 0
      BY <1>5, <3>1
    <3> QED
      BY <1>5, <2>3, <3>2 DEF Loaded
  <2>5. /\ t.cpc = s.cpc /\ t.k = s.k /\ t.cm = x /\ t.sh = s.sh
    BY <1>5, <2>3 DEF Loaded
  <2>6. Only(t, {"ACK"}) => Loading(t)
    BY <1>6, <2>1, <2>4, <2>5 DEF Loading, Asked, Here
  <2>7. SessionInv(t)
    BY <1>5, <1>6, <1>7, <2>3, <2>6, LoaderKeeps
  <2> QED
    BY <1>16, <2>2, <2>7, PutKeeps
<1>17. CASE Release(c, r)
  BY <1>1, <1>5, <1>17, ReleaseKeeps
<1> QED
  BY <1>11, <1>13, <1>14, <1>15, <1>16, <1>17

-----------------------------------------------------------------------------
(***************************************************************************)
(* The processes of strategies                                             *)
(***************************************************************************)

ProcsInv ==
  /\ procs \in Seq(ProcType)
  /\ \A p \in DOMAIN procs : procs[p].parts = {procs[p].from}

LEMMA LoadKeeps ==
  ASSUME SessionsInv, NEW c \in Clients, Load(c)
  PROVE  SessionsInv' /\ (ProcsInv => ProcsInv')
<1>1. PICK s, r, p : s = ses[c] /\ r = Rest(c) /\ p = Package(c)
  OBVIOUS
<1>2. PICK m : m = s.cm
  OBVIOUS
<1>3. PICK v : v = [r EXCEPT !.cm = None]
  OBVIOUS
<1>4. /\ Takes(c, "DO_COMMAND", {"args", "bye"}) /\ m.t = "exec" /\ m.st = "RECV_CMD"
  BY <1>1, <1>2 DEF Load, AtStage
<1>5. /\ s \in SessionType /\ s.wst = "DO_COMMAND" /\ p \in PkgType /\ p = s.up[1]
      /\ 1 \in DOMAIN s.up /\ r.up \in Seq(PkgType)
      /\ Len(r.up) = Len(s.up) - 1 /\ Len(s.up) \in Nat \ {0}
  BY <1>1, <1>4, TakesFacts
<1>6. /\ m \in ExecType /\ m.k = s.k /\ m.conf = s.k /\ Silent(s)
      /\ s.sh.st \in {"none", "stop"} /\ Here(s, "args") /\ ArgsCome(s)
  BY <1>1, <1>2, <1>4, StageFacts
<1>7. p.t = "args" /\ p.k = s.k /\ Len(s.up) <= 1
  BY <1>5, <1>6 DEF ArgsCome
<1>8. Freed(v, s) /\ v.up = r.up
  BY <1>1, <1>3, <1>4, FreedFacts
<1>9. v.up = <<>>
  <2>1. \A i \in Nat \ {0} : i <= 1 => i - 1 = 0
    OBVIOUS
  <2>2. Len(r.up) = 0
    BY <1>5, <1>7, <2>1
  <2> QED
    BY <1>5, <1>8, <2>2
<1>10. s.cpc \in {"echo", "shell", "conf", "args", "gone"}
  BY <1>6 DEF Here
<1>11. PICK k \in Nat : k = m.k /\ k = m.conf /\ k = p.k /\ k = s.k
  BY <1>6, <1>7 DEF ExecType
<1>12. PICK e : e = [name |-> m.cmd.name, st |-> "forked", own |-> TRUE,
                     from |-> <<c, k>>, parts |-> {<<c, k>>}]
  OBVIOUS
<1>13. \/ Put(c, Say(Did(v, k), "SUCC")) /\ procs' = Append(procs, e)
       \/ Release(c, v) /\ UNCHANGED procs
  <2>1. \/ /\ Put(c, Say(Did(v, m.k), "SUCC"))
           /\ procs' = Append(procs,
                [name |-> m.cmd.name, st |-> "forked", own |-> TRUE,
                 from |-> <<c, m.k>>,
                 parts |-> {<<c, m.conf>>, <<IF p.t = "args" THEN c ELSE "none", p.k>>}])
        \/ Release(c, v) /\ UNCHANGED procs
    BY <1>1, <1>2, <1>3, Zenon DEF Load
  <2>2. {<<c, m.conf>>, <<IF p.t = "args" THEN c ELSE "none", p.k>>} = {<<c, k>>}
    BY <1>7, <1>11
  <2> QED
    BY <1>11, <1>12, <2>1, <2>2
<1>14. CASE Put(c, Say(Did(v, k), "SUCC")) /\ procs' = Append(procs, e)
  <2>1. SessionsInv'
    BY <1>1, <1>5, <1>6, <1>8, <1>9, <1>10, <1>11, <1>14, SuccKeeps
  <2>2. e \in ProcType /\ e.parts = {e.from}
    <3>1. m.cmd.name \in Names
      BY <1>6 DEF ExecType, CmdType
    <3>2. <<c, k>> \in Clients \X Nat /\ {<<c, k>>} \in SUBSET ((Clients \cup {"none"}) \X Nat)
      OBVIOUS
    <3> QED
      BY <1>12, <3>1, <3>2 DEF ProcType
  <2>3. ProcsInv => ProcsInv'
    <3> SUFFICES ASSUME ProcsInv
                 PROVE  ProcsInv'
      OBVIOUS
    <3>1. procs \in Seq(ProcType) /\ \A j \in DOMAIN procs : procs[j].parts = {procs[j].from}
      BY DEF ProcsInv
    <3>2. PICK a \in Seq(ProcType) : a = procs
      BY <3>1
    <3>3. /\ Append(a, e) \in Seq(ProcType) /\ Len(Append(a, e)) = Len(a) + 1
          /\ Append(a, e)[Len(a) + 1] = e
          /\ \A j \in 1 .. Len(a) : Append(a, e)[j] = a[j]
      BY <2>2, AppendProperties
    <3>4. PICK b \in Seq(ProcType) : b = Append(a, e)
      BY <3>3
    <3>5. \A j \in DOMAIN b : (j \in DOMAIN a /\ b[j] = a[j]) \/ b[j] = e
      BY <3>3, <3>4
    <3>6. \A j \in DOMAIN b : b[j].parts = {b[j].from}
      BY <2>2, <3>1, <3>2, <3>5
    <3>7. procs' = b
      BY <1>14, <3>2, <3>4
    <3> QED
      BY <3>6, <3>7 DEF ProcsInv
  <2> QED
    BY <2>1, <2>3
<1>15. CASE Release(c, v) /\ UNCHANGED procs
  <2>1. SessionsInv'
    BY <1>1, <1>5, <1>8, <1>15, ReleaseKeeps DEF Freed
  <2>2. ProcsInv => ProcsInv'
    BY <1>15 DEF ProcsInv
  <2> QED
    BY <2>1, <2>2
<1> QED
  BY <1>13, <1>14, <1>15

LEMMA StrategyKeeps ==
  ASSUME TunnelInv, NEW p \in DOMAIN procs, Strategy(p)
  PROVE  TunnelInv'
<1>1. ses' = ses
  BY Zenon DEF Strategy, InitStrategy, StartLoop, StopItself, StopLoop, ProcEnds, ChildCb,
     Apart
<1>2. PICK st \in {"forked", "zombie", "reaped"} \cup Titled : Turns(p, st)
  <2>1. \A x : Turns(p, x) => procs' = [procs EXCEPT ![p].st = x]
    BY DEF Turns
  <2>2. {"titled", "loop", "released"} \subseteq Titled
    BY DEF Titled
  <2>3. \/ Turns(p, "titled") \/ Turns(p, "loop") \/ Turns(p, "released")
        \/ Turns(p, "zombie") \/ Turns(p, "reaped")
        \/ Turns(p, IF procs[p].own THEN "zombie" ELSE "reaped")
    BY Zenon DEF Strategy, InitStrategy, StartLoop, StopItself, StopLoop, ProcEnds, ChildCb
  <2> QED
    BY <2>2, <2>3
<1>3. /\ SessionsInv /\ procs \in Seq(ProcType)
      /\ \A j \in DOMAIN procs : procs[j].parts = {procs[j].from}
  BY DEF TunnelInv
<1>4. PICK q \in Seq(ProcType) : q = procs
  BY <1>3
<1>5. PICK i \in DOMAIN q : i = p
  BY <1>4
<1>6. PICK e : e = [q[i] EXCEPT !.st = st]
  OBVIOUS
<1>7. e \in ProcType /\ e.parts = q[i].parts /\ e.from = q[i].from
  <2>1. q[i] \in ProcType
    BY <1>5
  <2> QED
    BY <1>2, <1>6, <2>1 DEF ProcType
<1>8. procs' = [q EXCEPT ![i] = e]
  BY <1>2, <1>4, <1>5, <1>6 DEF Turns
<1>9. [q EXCEPT ![i] = e] \in Seq(ProcType)
  BY <1>5, <1>7
<1>10. PICK r \in Seq(ProcType) : r = [q EXCEPT ![i] = e]
  BY <1>9
<1>11. \A j \in DOMAIN r : r[j].parts = {r[j].from}
  <2>1. \A j \in DOMAIN r : j \in DOMAIN q /\ (r[j] = q[j] \/ (r[j] = e /\ j = i))
    BY <1>5, <1>10
  <2> QED
    BY <1>3, <1>4, <1>7, <2>1
<1>12. SessionsInv'
  BY <1>1, <1>3 DEF SessionsInv
<1> QED
  BY <1>8, <1>10, <1>11, <1>12 DEF TunnelInv

(* A session, and a process, when the agent ends. *)
Quit(s) == CHOOSE t \in Released(s) : t.down = s.down
Orphan(p) == [p EXCEPT !.own = FALSE, !.st = IF @ = "zombie" THEN "reaped" ELSE @]

LEMMA OrphanFields ==
  ASSUME NEW p \in ProcType
  PROVE  Orphan(p) \in ProcType /\ Orphan(p).parts = p.parts /\ Orphan(p).from = p.from
<1>1. PICK st \in {"forked", "zombie", "reaped"} \cup Titled :
        st = IF p.st = "zombie" THEN "reaped" ELSE p.st
  BY DEF ProcType
<1>2. PICK e : e = [p EXCEPT !.own = FALSE, !.st = st]
  OBVIOUS
<1>3. Orphan(p) = e
  BY <1>1, <1>2 DEF Orphan, ProcType
<1>4. e \in ProcType /\ e.parts = p.parts /\ e.from = p.from
  BY <1>2 DEF ProcType
<1> QED
  BY <1>3, <1>4

(* The agent ends: its sessions are released, the strategies stay. *)
LEMMA AgentRestartKeeps ==
  ASSUME TunnelInv, AgentRestart
  PROVE  TunnelInv'
<1>1. /\ SessionsInv /\ procs \in Seq(ProcType)
      /\ \A j \in DOMAIN procs : procs[j].parts = {procs[j].from}
  BY DEF TunnelInv
<1>2. ses' = [c \in Clients |-> IF ses[c].wst \in {"none", "released"} THEN ses[c]
                                ELSE Quit(ses[c])]
  BY Zenon DEF AgentRestart, Quit
<1>3. ASSUME NEW c \in Clients
      PROVE  SessionInv(ses'[c])
  <2>1. PICK s : s = ses[c]
    OBVIOUS
  <2>2. SessionInv(s) /\ s \in SessionType
    BY <1>1, <2>1 DEF SessionsInv, SessionInv
  <2>3. ses'[c] = IF s.wst \in {"none", "released"} THEN s
                  ELSE Quit(s)
    BY <1>2, <2>1
  <2>4. CASE s.wst \in {"none", "released"}
    BY <2>2, <2>3, <2>4
  <2>5. CASE s.wst \notin {"none", "released"}
    <3>1. \E t \in Released(s) : t.down = s.down
      <4>1. PICK t : t = [s EXCEPT !.wst = "released", !.cm = None, !.out = <<>>,
                                   !.up = <<>>, !.sh = NewSession.sh]
        OBVIOUS
      <4>2. t.down = s.down
        BY <2>2, <4>1 DEF SessionType
      <4>3. t \in Released(s)
        BY <4>1 DEF Released
      <4> QED
        BY <4>2, <4>3
    <3>2. PICK t : t = Quit(s)
      OBVIOUS
    <3>3. t \in Released(s)
      BY <3>1, <3>2 DEF Quit
    <3>4. SessionInv(t)
      BY <2>2, <2>5, <3>3, ReleasedKeeps
    <3> QED
      BY <2>3, <2>5, <3>2, <3>4
  <2> QED
    BY <2>4, <2>5
<1>4. SessionsInv'
  <2>1. ses' = [c \in Clients |-> ses'[c]]
    BY <1>2
  <2>2. \A c \in Clients : ses'[c] \in SessionType
    BY <1>3 DEF SessionInv
  <2>3. ses' \in [Clients -> SessionType]
    BY <2>1, <2>2
  <2> QED
    BY <1>3, <2>3 DEF SessionsInv
<1>5. procs' \in Seq(ProcType) /\ \A j \in DOMAIN procs' : procs'[j].parts = {procs'[j].from}
  <2>1. PICK q \in Seq(ProcType) : q = procs
    BY <1>1
  <2>2. PICK r : r = [p \in DOMAIN q |-> Orphan(q[p])]
    OBVIOUS
  <2>3. \A j \in DOMAIN q : /\ r[j] \in ProcType /\ r[j].parts = q[j].parts
                            /\ r[j].from = q[j].from
    BY <2>2, OrphanFields
  <2>4. DOMAIN r = 1 .. Len(q) /\ DOMAIN q = 1 .. Len(q) /\ Len(q) \in Nat
    BY <2>2
  <2>5. r \in Seq(ProcType)
    BY <2>2, <2>3, <2>4
  <2>6. \A j \in DOMAIN r : r[j].parts = {r[j].from}
    BY <1>1, <2>1, <2>3, <2>4
  <2>7. procs' = r
    <3>1. procs' = [p \in DOMAIN procs |-> Orphan(procs[p])]
      BY Zenon DEF AgentRestart, Orphan
    <3> QED
      BY <2>1, <2>2, <3>1
  <2> QED
    BY <2>5, <2>6, <2>7
<1> QED
  BY <1>4, <1>5 DEF TunnelInv

LEMMA TunnelInit == Init => TunnelInv
<1> SUFFICES ASSUME Init
             PROVE  TunnelInv
  OBVIOUS
<1>1. ses = [c \in Clients |-> NewSession] /\ procs = <<>>
  BY DEF Init
<1>2. SessionsInv
  BY <1>1, InitSession DEF SessionsInv
<1> QED
  BY <1>1, <1>2 DEF TunnelInv

LEMMA TunnelStep ==
  ASSUME ~Signals
  PROVE  TunnelInv /\ [Next]_vars => TunnelInv'
<1> SUFFICES ASSUME TunnelInv, [Next]_vars
             PROVE  TunnelInv'
  OBVIOUS
<1>1. SessionsInv /\ ProcsInv
  BY DEF TunnelInv, ProcsInv
<1>2. SessionsInv' /\ ProcsInv' => TunnelInv'
  BY DEF TunnelInv, ProcsInv
<1>3. UNCHANGED procs => ProcsInv'
  BY <1>1 DEF ProcsInv
<1>4. ASSUME NEW c \in Clients, Client(c)
      PROVE  TunnelInv'
  <2>1. UNCHANGED procs
    BY <1>4, Zenon DEF Client, Connect, SayBye, Read, ReadClosed, Kill, DoOneCommand,
       Elsewhere, strategyVars
  <2> QED
    BY <1>1, <1>2, <1>3, <1>4, <2>1, ClientKeeps
<1>5. ASSUME NEW c \in Clients, Process(c)
      PROVE  TunnelInv'
  <2>1. CASE Load(c)
    BY <1>1, <1>2, <2>1, LoadKeeps
  <2>2. CASE ~Load(c)
    <3>1. UNCHANGED procs
      BY <1>5, <2>2, Zenon DEF Process, ProcessSSLAuth, Get3DESkey, EndSession, SaveFile,
         MakeDir, RunShell, Manage, RecvScript, RecvConfig, RecvDir, ReadEnd,
         Elsewhere, strategyVars
    <3>2. SessionsInv'
      BY <1>1, <1>5, <2>2, ProcessSSLAuthKeeps, Get3DESkeyKeeps, EndSessionKeeps,
         SaveFileKeeps, MakeDirKeeps, RunShellKeeps, ManageKeeps, RecvScriptKeeps,
         RecvConfigKeeps, RecvDirKeeps, ReadEndKeeps DEF Process
    <3> QED
      BY <1>2, <1>3, <3>1, <3>2
  <2> QED
    BY <2>1, <2>2
<1>6. ASSUME NEW c \in Clients, WriteCb(c) \/ Shell(c)
      PROVE  TunnelInv'
  <2>1. UNCHANGED procs
    BY <1>6, Zenon DEF WriteCb, Shell, ShellPrints, ShellEnds, OnRead, OnChildExit,
       Elsewhere, strategyVars
  <2>2. SessionsInv'
    BY <1>1, <1>6, WriteCbKeeps, ShellRunsKeeps, OnReadKeeps, OnChildExitKeeps DEF Shell
  <2> QED
    BY <1>2, <1>3, <2>1, <2>2
<1>7. CASE \E p \in DOMAIN procs : Strategy(p)
  BY <1>7, StrategyKeeps
<1>8. CASE AgentRestart
  BY <1>8, AgentRestartKeeps
<1>9. CASE UNCHANGED vars
  BY <1>1, <1>2, <1>3, <1>9 DEF vars, SessionsInv
<1> QED
  BY <1>4, <1>5, <1>6, <1>7, <1>8, <1>9 DEF Next

(* The invariant: each session is at one point of the exchange, whatever   *)
(* is killed, lost or restarted, and a strategy has the parts of one       *)
(* command (CWaiter, CClient, CExecLoader).                                *)
THEOREM TunnelAlways ==
  ASSUME ~Signals
  PROVE  Spec => []TunnelInv
<1>1. Init => TunnelInv
  BY TunnelInit
<1>2. TunnelInv /\ [Next]_vars => TunnelInv'
  BY TunnelStep
<1> QED
  BY <1>1, <1>2, PTL DEF Spec

(* What a client counts as a success (CClient::doOneCommand) the agent has *)
(* done, and a strategy is made of the parts of one command, if no signal  *)
(* ends a shell command: WEXITSTATUS of one that a signal ends is 0        *)
(* (CShellCmd::onChildExit).                                               *)
THEOREM DoneAsAskedAlways ==
  ASSUME ~Signals
  PROVE  Spec => []DoneAsAsked
<1>1. TunnelInv => DoneAsAsked
  BY DEF TunnelInv, SessionsInv, SessionInv, DoneAsAsked
<1> QED
  BY <1>1, TunnelAlways, PTL
=============================================================================
