---------------------------- MODULE TunnelAgent ----------------------------
(***************************************************************************)
(* The tunnel agent: a server that runs commands for its clients, and the  *)
(* strategies it starts (tunnel_agent/CWaiter, CClient, CSaveFileCmd,      *)
(* CShellCmd, CExecLoader, CFileReciever, CDirReciever, CStrategyManager). *)
(* A session is a client and the waiter that serves it; the agent is one   *)
(* event loop.  Sessions meet in the table of strategies and in their      *)
(* processes; the strategies use the table (use_shm_controller, which is   *)
(* off by default: then nothing the agent writes reaches them).            *)
(*                                                                         *)
(* A package is what desSend makes of one message; its cipher, its head    *)
(* and how read_cb puts its bytes together are left out.  A file is Units  *)
(* pieces; the first goes with the head of the file (CClient::loopSendFile),*)
(* the others follow one by one.                                           *)
(***************************************************************************)
EXTENDS Naturals, Sequences, FiniteSets

CONSTANTS
  Clients,      \* one session each
  Commands,     \* the commands each client may be given
  Names,        \* strategies
  Units,        \* the pieces of a file
  MaxCmds,      \* bound: how many of them, for each client
  MaxProcs,     \* bound: processes of strategies
  MaxOut,       \* bound: pieces of output of a shell command
  MaxEdits,     \* bound: changes of a file while it is sent
  MaxRestarts,  \* bound: restarts of the agent
  Signals       \* may a signal end a shell command?

(* A command: SAVE of a file, MKDIR (SAVE of a directory), SHELL, EXEC with *)
(* or without a working directory, STG with what it asks for.              *)
ASSUME CommandsAssumption ==
  Commands \in
    [Clients -> SUBSET [op: {"SAVE", "MKDIR", "SHELL", "EXEC", "STG"},
                        name: Names, dir: BOOLEAN,
                        what: {"status", "exit", "other"}]]
ASSUME BoundsAssumption ==
  /\ {Units, MaxProcs} \subseteq Nat \ {0} /\ MaxCmds \in [Clients -> Nat]
  /\ {MaxOut, MaxEdits, MaxRestarts} \subseteq Nat
  /\ Signals \in BOOLEAN

VARIABLES
  ses,       \* the sessions
  procs,     \* the processes of strategies, in the order they were forked
  table,     \* the table in shared memory: is the key in it, and is_exit
  edits, restarts,
  raced,     \* history: a name was loaded that was still in use
  asked      \* history: processes that were in their loop when asked to exit

vars == <<ses, procs, table, edits, restarts, raced, asked>>

-----------------------------------------------------------------------------
(***************************************************************************)
(* Sessions                                                                *)
(***************************************************************************)

None == [t |-> "none"]

(* Client: what it waits for (cpc), the command it is at (cur, the k-th),  *)
(* the output it has shown, the commands it counts as successful.          *)
(* Connection: packages to the agent (up), write_buf_ (out), bytes on      *)
(* their way back (down).  Agent: state_ of the waiter, its p_commander_,  *)
(* the child of CShellCmd, and, as history, the commands it has done.      *)
NewSession ==
  [cpc |-> "off", cur |-> None, k |-> 0, shown |-> 0, succ |-> {},
   up |-> <<>>, out |-> <<>>, down |-> <<>>,
   wst |-> "none", cm |-> None,
   sh |-> [st |-> "none", pipe |-> 0, printed |-> 0, code |-> "ok"],
   done |-> {}]

Put(c, s) == ses' = [ses EXCEPT ![c] = s]

(* The client sends packages; those to a released waiter are lost. *)
Sends(s, pkgs) ==
  [s EXCEPT !.up = IF s.wst = "released" THEN @ ELSE @ \o pkgs]

(* CWaiter::sayFinish and CCommanderBase::sendToClient. *)
Say(s, what) == [s EXCEPT !.out = Append(@, what)]

Did(s, k) == [s EXCEPT !.done = @ \cup {k}]

(* One message of the k-th command. *)
Pkg(t, s) == [t |-> t, k |-> s.k, cmd |-> s.cur, len |-> 0, good |-> TRUE]

(* A file: its length by fstat, whether the content fits the digest, and   *)
(* the pieces that are read.  The file may change in between.              *)
FilePkgs(t, s, edit) ==
  LET n == CASE edit = "grown"  -> Units + 1
             [] edit = "shrunk" -> Units - 1
             [] OTHER           -> Units
  IN  <<[Pkg(t, s) EXCEPT !.len = Units, !.good = (edit # "changed")]>>
        \o [i \in 1 .. n - 1 |-> Pkg("part", s)]

(* The waiter is destroyed (CTunnelAgent::releaseWaiter): what was not     *)
(* written is gone, a running shell is killed.  If bytes were not read the *)
(* kernel may take back what the client has not read yet.                  *)
Released(s) ==
  LET t == [s EXCEPT !.wst = "released", !.cm = None, !.out = <<>>,
                     !.up = <<>>, !.sh = NewSession.sh]
  IN  {t} \cup (IF s.up = <<>> THEN {} ELSE {[t EXCEPT !.down = <<>>]})

Release(c, s) == \E t \in Released(s) : Put(c, t)

-----------------------------------------------------------------------------
(***************************************************************************)
(* The client (CClient)                                                    *)
(***************************************************************************)

strategyVars == <<procs, table, raced, asked>>
Elsewhere == UNCHANGED <<strategyVars, edits, restarts>>

Waiting == {"auth", "echo", "shell", "script", "conf", "dir", "args"}

(* connect, accept_cb and the first message of sslAuthen. *)
Connect(c) ==
  /\ ses[c].cpc = "off"
  /\ Put(c, [ses[c] EXCEPT !.cpc = "auth", !.wst = "INIT",
                           !.up = <<Pkg("auth", ses[c])>>])
  /\ Elsewhere

(* The client ends, with sayBye or without. *)
Gone(s) == [s EXCEPT !.cpc = "gone", !.cur = None, !.shown = 0, !.down = <<>>]
Bye(s) == Gone(Sends(s, <<Pkg("bye", s)>>))

(* The file that is sent changes; what is sent of EXEC keeps its length. *)
Edited(edit) ==
  LET n == edits + (IF edit = "none" THEN 0 ELSE 1)
  IN  n <= MaxEdits /\ edits' = n

(* doOneCommand: the client takes its next command and sends the first     *)
(* message or the first file.                                              *)
DoOneCommand(c, cmd) ==
  LET s == [ses[c] EXCEPT !.cur = cmd, !.k = @ + 1, !.shown = 0]
      Goes(pc, pkgs) == Put(c, Sends([s EXCEPT !.cpc = pc], pkgs))
  IN  /\ ses[c].cpc = "ready" /\ ses[c].k < MaxCmds[c]
      /\ UNCHANGED <<strategyVars, restarts>>
      /\ \/ /\ cmd.op = "SAVE"
            /\ \E edit \in {"none", "grown", "shrunk", "changed"} :
                 /\ Edited(edit) /\ Goes("echo", FilePkgs("save", s, edit))
         \/ /\ cmd.op \in {"MKDIR", "STG"}
            /\ Goes("echo", <<Pkg(cmd.op, s)>>)
            /\ UNCHANGED edits
         \/ /\ cmd.op = "SHELL"
            /\ Goes("shell", <<Pkg("SHELL", s)>>)
            /\ UNCHANGED edits
         \/ /\ cmd.op = "EXEC"
            /\ \E edit \in {"none", "changed"} :
                 /\ Edited(edit) /\ Goes("script", FilePkgs("script", s, edit))

(* No more commands, or one that cannot be carried out at all. *)
SayBye(c) ==
  /\ ses[c].cpc = "ready"
  /\ Put(c, Bye(ses[c]))
  /\ Elsewhere

(* sendDir: the name of the directory, a file, the end; without a working  *)
(* directory the empty name only.                                          *)
DirPkgs(s) ==
  <<Pkg("dir", s)>> \o
  (IF s.cur.dir THEN FilePkgs("file", s, "none") \o <<Pkg("end", s)>> ELSE <<>>)

(* What the client does with the end of a command or of a part of it       *)
(* (loopReadAndEcho, doShellCmd, doExecCmd): it goes on, it has success,   *)
(* or it gives up.                                                         *)
Answered(s, type) ==
  CASE s.cpc = "auth"                        ->
         [Sends(s, <<Pkg("key", s)>>) EXCEPT !.cpc = "ready"]
    [] s.cpc = "script" /\ type = "ACK"      ->
         [Sends(s, FilePkgs("conf", s, "none")) EXCEPT !.cpc = "conf"]
    [] s.cpc = "conf" /\ type = "ACK"        ->
         [Sends(s, DirPkgs(s)) EXCEPT !.cpc = "dir"]
    [] s.cpc = "dir" /\ type = "ACK"         ->
         [Sends(s, <<Pkg("args", s)>>) EXCEPT !.cpc = "args"]
    [] s.cpc \in {"echo", "shell", "conf", "args"} /\ type = "SUCC" ->
         [s EXCEPT !.cpc = "ready", !.succ = @ \cup {s.k}]
    [] OTHER                                 -> Bye(s)

(* desRead: output is shown, an end is acted on.  A message that follows   *)
(* the output of a shell may arrive in two reads, which ends the client.   *)
Read(c) ==
  LET s == [ses[c] EXCEPT !.down = Tail(@)]
      m == Head(ses[c].down)
  IN  /\ ses[c].cpc \in Waiting /\ ses[c].down # <<>>
      /\ \/ m = "DATA" /\ Put(c, [s EXCEPT !.shown = @ + 1])
         \/ m # "DATA" /\ Put(c, Answered(s, m))
         \/ ses[c].cpc = "shell" /\ Put(c, Bye(s))
      /\ Elsewhere

(* The connection is closed by the agent. *)
ReadClosed(c) ==
  /\ ses[c].cpc \in Waiting /\ ses[c].down = <<>> /\ ses[c].wst = "released"
  /\ Put(c, Gone(ses[c]))
  /\ Elsewhere

(* The client is killed; the last packages may not have left. *)
Kill(c) ==
  /\ ses[c].cpc \in Waiting \cup {"ready"}
  /\ \E n \in 0 .. Len(ses[c].up) :
       Put(c, [Gone(ses[c]) EXCEPT !.up = SubSeq(@, 1, n)])
  /\ Elsewhere

-----------------------------------------------------------------------------
(***************************************************************************)
(* The waiter and its commanders                                           *)
(***************************************************************************)

(* A mutant of Commander: the shell that has ended keeps its place. *)
CommanderStays(s) == s.cm

(* The commander the next package goes to: a shell that has ended makes    *)
(* room for a new one (CShellCmd::run, STATE_NEXT).                        *)
Commander(s) ==
  IF s.cm.t = "shell" /\ s.sh.st = "stop" THEN None ELSE s.cm

(* The agent takes a package of session c (read_cb, processPkg): p the     *)
(* package, s the session without it.                                      *)
Takes(c, wst, kinds) ==
  /\ ses[c].wst = wst /\ ses[c].up # <<>>
  /\ Head(ses[c].up).t \in kinds

Package(c) == Head(ses[c].up)
Rest(c) == [ses[c] EXCEPT !.up = Tail(@)]

(* processSSLAuth: the waiter shows that it has the key, too. *)
ProcessSSLAuth(c) ==
  /\ Takes(c, "INIT", {"auth"})
  /\ Put(c, [Say(Rest(c), "auth") EXCEPT !.wst = "GET_DES_KEY"])
  /\ Elsewhere

Get3DESkey(c) ==
  /\ Takes(c, "GET_DES_KEY", {"key"})
  /\ Put(c, [Rest(c) EXCEPT !.wst = "DO_COMMAND"])
  /\ Elsewhere

(* doCommand without a commander: the package names a command. *)
NewCommand(c, kinds) ==
  /\ Takes(c, "DO_COMMAND", kinds)
  /\ Commander(ses[c]) = None

(* CMD_BYE, and what is no command: a piece of a file behind its end. *)
EndSession(c) ==
  /\ NewCommand(c, {"bye", "part"})
  /\ Release(c, Rest(c))
  /\ Elsewhere

(* checkDigest of CSaveFileCmd and CFileReciever. *)
CheckDigest(f) == f.good

(* A file that is being received: pieces left, content as the digest says. *)
Receiver(p) == [left |-> p.len - 1, good |-> p.good]
Received(f, p) ==
  [left |-> f.left - 1, good |-> f.good /\ p.t = "part"]

(* CSaveFileCmd::run: pieces are written until the length is reached.      *)
(* Creating the file, or writing to it, may fail.                          *)
SaveFile(c) ==
  LET p == Package(c)
      s == [Rest(c) EXCEPT !.cm = None]
      Goes(f) ==
        \/ f.left > 0 /\ Put(c, [s EXCEPT !.cm = [t |-> "save", k |-> p.k, f |-> f]])
        \/ /\ f.left = 0 /\ CheckDigest(f)
           /\ Put(c, Say(IF f.good THEN Did(s, p.k) ELSE s, "SUCC"))
        \/ f.left = 0 /\ ~CheckDigest(f) /\ Release(c, s)
        \/ Release(c, s)
  IN  /\ \/ NewCommand(c, {"save"}) /\ Goes(Receiver(p))
         \/ /\ Takes(c, "DO_COMMAND", {"part", "bye"}) /\ ses[c].cm.t = "save"
            /\ Goes(Received(ses[c].cm.f, p))
      /\ Elsewhere

(* CSaveFileCmd::processFirstPkg of a directory: mkdir may fail. *)
MakeDir(c) ==
  LET s == [Rest(c) EXCEPT !.cm = None]
  IN  /\ NewCommand(c, {"MKDIR"})
      /\ \/ Put(c, Say(Did(s, Package(c).k), "SUCC"))
         \/ Release(c, s)
      /\ Elsewhere

(* CShellCmd::run: a child with a pipe, or no child.  A package that comes *)
(* while the child runs ends the session.                                  *)
RunShell(c) ==
  LET s == Rest(c)
  IN  /\ \/ /\ NewCommand(c, {"SHELL"})
            /\ \/ Put(c, [s EXCEPT !.cm = [t |-> "shell", k |-> Package(c).k],
                                   !.sh = [st |-> "run", pipe |-> 0,
                                           printed |-> 0, code |-> "ok"]])
               \/ Release(c, s)
         \/ /\ ses[c].cm.t = "shell" /\ ses[c].sh.st # "stop"
            /\ Takes(c, "DO_COMMAND", {"bye"})
            /\ Release(c, s)
      /\ Elsewhere

(* The child of a shell command, external. *)
ShellPrints(c) ==
  /\ ses[c].sh.st = "run" /\ ses[c].sh.printed < MaxOut
  /\ Put(c, [ses[c] EXCEPT !.sh.pipe = @ + 1, !.sh.printed = @ + 1])
  /\ Elsewhere

ShellEnds(c) ==
  /\ ses[c].sh.st = "run"
  /\ \E code \in {"ok", "fail"} \cup (IF Signals THEN {"killed"} ELSE {}) :
       Put(c, [ses[c] EXCEPT !.sh.st = "exited", !.sh.code = code])
  /\ Elsewhere

(* CShellCmd::onRead: what is in the pipe goes to the client. *)
OnRead(c) ==
  /\ ses[c].sh.st \in {"run", "exited"} /\ ses[c].sh.pipe > 0
  /\ Put(c, [ses[c] EXCEPT !.sh.pipe = 0,
                           !.out = @ \o [i \in 1 .. ses[c].sh.pipe |-> "DATA"]])
  /\ Elsewhere

(* A mutant of ExitType: the exit status is not looked at. *)
ExitTypeSucc(code) == "SUCC"

(* CShellCmd::onChildExit: WEXITSTATUS is 0 after a signal, too. *)
ExitType(code) == IF code = "fail" THEN "FAIL" ELSE "SUCC"

OnChildExit(c) ==
  LET s == [ses[c] EXCEPT !.sh.st = "stop", !.sh.pipe = 0]
  IN  /\ ses[c].sh.st = "exited"
      /\ Put(c, Say(IF s.sh.code = "ok" THEN Did(s, s.cm.k) ELSE s,
                    ExitType(s.sh.code)))
      /\ Elsewhere

(* CWaiter::write_cb: some of write_buf_ is written.  To a client that is  *)
(* gone it may fail, which ends the session, or with SIGPIPE the agent     *)
(* (AgentRestart).                                                         *)
WriteCb(c) ==
  LET s == ses[c]
  IN  /\ s.wst # "released" /\ s.out # <<>>
      /\ \/ /\ s.cpc # "gone"
            /\ Put(c, [s EXCEPT !.down = Append(@, Head(s.out)), !.out = Tail(@)])
         \/ s.cpc = "gone" /\ Put(c, [s EXCEPT !.out = Tail(@)])
         \/ s.cpc = "gone" /\ Release(c, s)
      /\ Elsewhere

(* read_cb finds the connection closed. *)
ReadEnd(c) ==
  /\ ses[c].cpc = "gone" /\ ses[c].wst \notin {"none", "released"}
  /\ ses[c].up = <<>>
  /\ Release(c, ses[c])
  /\ Elsewhere

-----------------------------------------------------------------------------
(***************************************************************************)
(* Strategies: CExecLoader, the table, the processes                       *)
(***************************************************************************)

(* findProcessByCmdLine: a strategy is found from the moment it has given  *)
(* itself its title (CStrategy::init) until it ends.                       *)
Titled == {"titled", "loop", "released"}
ProcsOf(n) == {p \in DOMAIN procs : procs[p].name = n}
Found(n) == \E p \in ProcsOf(n) : procs[p].st \in Titled

(* A CExecLoader at stage st, with the file it receives, and as history    *)
(* the commands its script and its configuration came with.                *)
Loader(st, p, f) == [t |-> "exec", st |-> st, k |-> p.k, cmd |-> p.cmd,
                     conf |-> 0, f |-> f]

(* CFileReciever::run inside the loader: a file begins or goes on.  The    *)
(* new state of the receiver, or nothing of it left when it is complete.   *)
FileStep(cm, p) == IF cm.f = None THEN Receiver(p) ELSE Received(cm.f, p)

(* ST_RECV_FILE, ST_RECV_CONFIG: script and configuration, each with an    *)
(* answer of its own.                                                      *)
RecvScript(c) ==
  LET p == Package(c)
      s == Rest(c)
      Goes(cm, f) ==
        \/ f.left > 0 /\ Put(c, [s EXCEPT !.cm = [cm EXCEPT !.f = f]])
        \/ /\ f.left = 0 /\ CheckDigest(f)
           /\ Put(c, Say([s EXCEPT !.cm = [cm EXCEPT !.st = "RECV_CONFIG",
                                                     !.f = None]], "ACK"))
        \/ f.left = 0 /\ ~CheckDigest(f) /\ Release(c, s)
  IN  /\ \/ NewCommand(c, {"script"}) /\ Goes(Loader("RECV_FILE", p, None), Receiver(p))
         \/ /\ Takes(c, "DO_COMMAND", {"part"})
            /\ ses[c].cm.t = "exec" /\ ses[c].cm.st = "RECV_FILE"
            /\ Goes(ses[c].cm, Received(ses[c].cm.f, p))
      /\ Elsewhere

AtStage(c, st, kinds) ==
  /\ Takes(c, "DO_COMMAND", kinds)
  /\ ses[c].cm.t = "exec" /\ ses[c].cm.st = st

(* With the configuration the loader looks for a running strategy of that  *)
(* name; a configuration that does not parse ends the session.             *)
RecvConfig(c) ==
  LET p  == Package(c)
      cm == ses[c].cm
      f  == FileStep(cm, p)
      s  == Rest(c)
  IN  /\ AtStage(c, "RECV_CONFIG", {"conf", "part"})
      /\ \/ f.left > 0 /\ Put(c, [s EXCEPT !.cm.f = f])
         \/ /\ f.left = 0 /\ CheckDigest(f) /\ Found(cm.cmd.name)
            /\ Put(c, Say(Say([Did(s, cm.k) EXCEPT !.cm = None], "DATA"), "SUCC"))
         \/ /\ f.left = 0 /\ CheckDigest(f) /\ ~Found(cm.cmd.name)
            /\ Put(c, Say([s EXCEPT !.cm.st = "RECV_DIR", !.cm.f = None,
                                    !.cm.conf = p.k], "ACK"))
         \/ f.left = 0 /\ Release(c, s)
      /\ Elsewhere

(* CDirReciever::run: no directory, a directory (which may fail), its      *)
(* files (writeFile may fail), its end.                                    *)
RecvDir(c) ==
  LET p  == Package(c)
      s  == Rest(c)
      f  == FileStep(ses[c].cm, p)
      Over == Put(c, Say([s EXCEPT !.cm.st = "RECV_CMD"], "ACK"))
  IN  /\ \/ /\ AtStage(c, "RECV_DIR", {"dir"})
            /\ \/ ~p.cmd.dir /\ Over
               \/ p.cmd.dir /\ Put(c, s)
               \/ p.cmd.dir /\ Release(c, s)
         \/ /\ AtStage(c, "RECV_DIR", {"file", "part"})
            /\ \/ f.left > 0 /\ Put(c, [s EXCEPT !.cm.f = f])
               \/ f.left = 0 /\ CheckDigest(f) /\ Put(c, [s EXCEPT !.cm.f = None])
               \/ f.left = 0 /\ Release(c, s)
         \/ AtStage(c, "RECV_DIR", {"end"}) /\ Over
      /\ Elsewhere

(* CStrategyManager::registerStg, and the strategy's own: a new record, or *)
(* a reset of the one under the same key.                                  *)
Registered(tab, n) == [tab EXCEPT ![n] = [in |-> TRUE, exit |-> FALSE]]

(* Another process of that name is there, if only as a zombie. *)
InUse(n) == \E p \in ProcsOf(n) : procs[p].st # "reaped"

(* ST_RECV_CMD and load: the arguments, whatever comes; the record; the    *)
(* child.  The table may be full, fork may fail, and then the record stays.*)
Load(c) ==
  LET p  == Package(c)
      cm == ses[c].cm
      n  == cm.cmd.name
      s  == [Rest(c) EXCEPT !.cm = None]
  IN  /\ AtStage(c, "RECV_CMD", {"args", "bye"})
      /\ UNCHANGED <<edits, restarts, asked>>
      /\ \/ /\ Len(procs) < MaxProcs
            /\ table' = Registered(table, n)
            /\ procs' = Append(procs,
                 [name |-> n, st |-> "forked", own |-> TRUE,
                  from |-> <<c, cm.k>>,
                  parts |-> {<<c, cm.conf>>, <<IF p.t = "args" THEN c ELSE "none", p.k>>}])
            /\ raced' = (raced \/ InUse(n))
            /\ Put(c, Say(Did(s, cm.k), "SUCC"))
         \/ /\ table' \in {table, Registered(table, n)}
            /\ Release(c, s)
            /\ UNCHANGED <<procs, raced>>

(* The steps of a process: it executes the script and takes its title;     *)
(* registers and resets is_exit; loops until is_exit, deletes its record   *)
(* and ends (runChild, CStrategy).  Its files, which a timer deletes, are  *)
(* left out.                                                               *)
Turns(p, st) == procs' = [procs EXCEPT ![p].st = st]
Apart == UNCHANGED <<ses, edits, restarts, raced, asked>>

InitStrategy(p) ==
  /\ procs[p].st = "forked" /\ Turns(p, "titled")
  /\ UNCHANGED table /\ Apart

StartLoop(p) ==
  /\ procs[p].st = "titled" /\ Turns(p, "loop")
  /\ table' = Registered(table, procs[p].name)
  /\ Apart

(* CStrategy::stop and the signal handler: it sets its own flag. *)
StopItself(p) ==
  /\ procs[p].st = "loop" /\ Turns(p, "released")
  /\ table' = [table EXCEPT ![procs[p].name] = [in |-> FALSE, exit |-> TRUE]]
  /\ Apart

(* The loop of CStrategy::run ends; release deletes the record. *)
StopLoop(p) ==
  /\ procs[p].st = "loop" /\ table[procs[p].name].exit
  /\ Turns(p, "released")
  /\ table' = [table EXCEPT ![procs[p].name].in = FALSE]
  /\ Apart

(* A process ends, in its time or not.  The agent gets SIGCHLD for its     *)
(* children only.                                                          *)
ProcEnds(p) ==
  /\ procs[p].st \in {"forked"} \cup Titled
  /\ Turns(p, IF procs[p].own THEN "zombie" ELSE "reaped")
  /\ UNCHANGED table /\ Apart

(* CExecLoader::child_cb: the record of that name is deleted. *)
ChildCb(p) ==
  /\ procs[p].st = "zombie" /\ Turns(p, "reaped")
  /\ table' = [table EXCEPT ![procs[p].name].in = FALSE]
  /\ Apart

(* CStrategyManager::run.  Status deletes the records whose process is not *)
(* found; one of the last two seconds is passed over, so a strategy that   *)
(* still starts is not touched.  Exit sets is_exit in the record, if there *)
(* is one.  The flags do_trade and userdata, and signals, play no part     *)
(* here.                                                                   *)
Starting(n) == \E p \in ProcsOf(n) : procs[p].st = "forked"

Cleaned(tab) ==
  [n \in Names |-> [tab[n] EXCEPT !.in = @ /\ (Found(n) \/ Starting(n))]]

Manage(c) ==
  LET cmd == Package(c).cmd
      n   == cmd.name
      s   == [Did(Rest(c), Package(c).k) EXCEPT !.cm = None]
  IN  /\ NewCommand(c, {"STG"})
      /\ Put(c, Say(IF cmd.what = "status" THEN Say(s, "DATA") ELSE s, "SUCC"))
      /\ table' = CASE cmd.what = "status" -> Cleaned(table)
                    [] cmd.what = "exit"   ->
                         [table EXCEPT ![n].exit = @ \/ table[n].in]
                    [] OTHER               -> table
      /\ asked' = asked \cup
           (IF cmd.what = "exit"
            THEN {p \in ProcsOf(n) : procs[p].st = "loop"} ELSE {})
      /\ UNCHANGED <<procs, edits, restarts, raced>>

(* A mutant of AgentRestart: the agent starts with a fresh table. *)
AgentRestartFresh ==
  /\ restarts < MaxRestarts /\ restarts' = restarts + 1
  /\ ses' = [c \in Clients |->
       IF ses[c].wst \in {"none", "released"} THEN ses[c]
       ELSE CHOOSE t \in Released(ses[c]) : t.down = ses[c].down]
  /\ procs' = [p \in DOMAIN procs |->
       [procs[p] EXCEPT !.own = FALSE,
                        !.st = IF @ = "zombie" THEN "reaped" ELSE @]]
  /\ table' = [n \in Names |-> [in |-> FALSE, exit |-> FALSE]]
  /\ UNCHANGED <<edits, raced, asked>>

(* The agent ends (terminate_cb, SIGPIPE) and is started again: its        *)
(* sessions and watchers are gone, table and strategies stay.              *)
AgentRestart ==
  /\ restarts < MaxRestarts /\ restarts' = restarts + 1
  /\ ses' = [c \in Clients |->
       IF ses[c].wst \in {"none", "released"} THEN ses[c]
       ELSE CHOOSE t \in Released(ses[c]) : t.down = ses[c].down]
  /\ procs' = [p \in DOMAIN procs |->
       [procs[p] EXCEPT !.own = FALSE,
                        !.st = IF @ = "zombie" THEN "reaped" ELSE @]]
  /\ UNCHANGED <<table, edits, raced, asked>>

-----------------------------------------------------------------------------
(***************************************************************************)
(* The specification                                                       *)
(***************************************************************************)

Init ==
  /\ ses = [c \in Clients |-> NewSession]
  /\ procs = <<>>
  /\ table = [n \in Names |-> [in |-> FALSE, exit |-> FALSE]]
  /\ asked = {} /\ raced = FALSE
  /\ edits = 0 /\ restarts = 0

Client(c) ==
  \/ Connect(c) \/ SayBye(c) \/ Read(c) \/ ReadClosed(c) \/ Kill(c)
  \/ \E cmd \in Commands[c] : DoOneCommand(c, cmd)

Process(c) ==
  \/ ProcessSSLAuth(c) \/ Get3DESkey(c) \/ EndSession(c)
  \/ SaveFile(c) \/ MakeDir(c) \/ RunShell(c) \/ Manage(c)
  \/ RecvScript(c) \/ RecvConfig(c) \/ RecvDir(c) \/ Load(c) \/ ReadEnd(c)

Shell(c) == ShellPrints(c) \/ ShellEnds(c) \/ OnRead(c) \/ OnChildExit(c)

Strategy(p) ==
  \/ InitStrategy(p) \/ StartLoop(p) \/ StopItself(p) \/ StopLoop(p)
  \/ ProcEnds(p) \/ ChildCb(p)

Next ==
  \/ \E c \in Clients : Client(c) \/ Process(c) \/ WriteCb(c) \/ Shell(c)
  \/ \E p \in DOMAIN procs : Strategy(p)
  \/ AgentRestart

Spec == Init /\ [][Next]_vars

(* The agent's loop goes on, clients read, shell commands end and a        *)
(* strategy polls is_exit; nothing makes a client give a command.          *)
FairSpec ==
  /\ Spec
  /\ \A c \in Clients :
       /\ WF_vars(Read(c) \/ ReadClosed(c)) /\ WF_vars(Process(c))
       /\ WF_vars(WriteCb(c)) /\ WF_vars(ShellEnds(c)) /\ WF_vars(OnChildExit(c))
  /\ \A p \in 1 .. MaxProcs : WF_vars(p \in DOMAIN procs /\ StopLoop(p))

-----------------------------------------------------------------------------
(***************************************************************************)
(* Properties                                                              *)
(***************************************************************************)

(* What a client counts as a success the agent has done, for that very     *)
(* command: the saved file is the file that was sent, the shell command    *)
(* ended well, the strategy was loaded or was there.  And a strategy is    *)
(* made of the script, configuration and arguments of one command.         *)
DoneAsAsked ==
  /\ \A c \in Clients : ses[c].succ \subseteq ses[c].done
  /\ \A p \in DOMAIN procs : procs[p].parts = {procs[p].from}

InLoop(p) == p \in DOMAIN procs /\ procs[p].st = "loop"

(* A strategy in its loop that a client asks to exit does so, also after a *)
(* restart of the agent: the record in the table is the one it polls.      *)
ExitObeyed ==
  \A p \in 1 .. MaxProcs : (p \in asked) ~> (raced \/ ~InLoop(p))

(* No client waits forever, and no waiter outlives its client: commands    *)
(* are answered or the connection ends, whatever fails on the way.  A file *)
(* that shrinks while it is sent leaves both sides waiting.                *)
SessionsEnd ==
  \A c \in Clients :
    /\ (ses[c].cpc \in Waiting) ~> (edits > 0 \/ ses[c].cpc \notin Waiting)
    /\ (ses[c].cpc = "gone") ~> (ses[c].wst = "released")

(* The output of a successful shell command is shown to the end.  The      *)
(* order of read_cb and child_cb does not ensure it.                       *)
OutputWhole ==
  \A c \in Clients :
    /\ ses[c].cpc = "ready" /\ ses[c].k \in ses[c].succ
    /\ ses[c].cur.op = "SHELL"
    => ses[c].shown >= ses[c].sh.printed

(* At most one process of a name is in its loop. *)
OneOfName ==
  \A p, q \in DOMAIN procs :
    p # q /\ procs[p].name = procs[q].name =>
      ~(InLoop(p) /\ InLoop(q))
=============================================================================
